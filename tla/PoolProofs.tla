----------------------------- MODULE PoolProofs -----------------------------
(***************************************************************************)
(* Theorems about Pool for every PoolSize, Pages, set of Requests and      *)
(* threshold, checked by TLAPS. The inductive invariant has three parts:   *)
(*   RequestInv  requests, permits and in_flight (requests change it),     *)
(*   ManagerInv  status, managers and the token (managers change it),      *)
(*   RecycleInv  the count notification (both change it).                  *)
(***************************************************************************)
EXTENDS Pool, FiniteSetTheorems, TLAPS

RequestTypes ==
  /\ in_flight \in [Instances -> Nat]
  /\ available \in [Instances -> Nat]
  /\ waiters \in [Instances -> Seq(Requests)]
  /\ leaked \in [Instances -> Nat]
  /\ pc \in [Requests -> RequestPc]
  /\ at \in [Requests -> Instances \cup {NoInstance}]
  /\ tries \in [Requests -> 0 .. PickRetries]

(* Past the pick a request has an instance; only a refused one may have    *)
(* used up its picks.                                                      *)
Placed ==
  \A r \in Requests :
    /\ pc[r] \notin {"idle", "refused"} => at[r] \in Instances
    /\ pc[r] # "refused" => tries[r] < PickRetries

(* A permit queue holds requests that wait for that instance, each once.   *)
Queues ==
  \A i \in Instances :
    /\ \A k \in 1 .. Len(waiters[i]) :
         pc[waiters[i][k]] = "queued" /\ at[waiters[i][k]] = i
    /\ \A k, l \in 1 .. Len(waiters[i]) : waiters[i][k] = waiters[i][l] => k = l

RequestInv ==
  RequestTypes /\ Placed /\ Queues /\ PermitsConserved /\ InFlightAccounted

ManagerTypes ==
  /\ status \in [Instances -> Status]
  /\ crashed \in [Instances -> BOOLEAN]
  /\ mpc \in [Instances -> ManagerPc]
  /\ token \in Instances \cup {NoInstance}
  /\ tokenQueue \in Seq(Instances)
  /\ launched \in 0 .. PoolSize
  /\ ready \in BOOLEAN

(* In service exactly while the manager watches. *)
ServiceWatched ==
  \A i \in Instances : mpc[i] = "watch" <=> status[i] = "Active"

(* Instances that launch has not reached yet have no manager.              *)
LaunchOrder == \A i \in Instances : launched <= i => mpc[i] = "unborn"

TokenHeld == \A i \in Replacing : token = i

(* The token queue holds managers that wait for the token, each once.      *)
TokenQueued ==
  /\ \A k \in 1 .. Len(tokenQueue) : mpc[tokenQueue[k]] = "tokenwait"
  /\ \A k, l \in 1 .. Len(tokenQueue) : tokenQueue[k] = tokenQueue[l] => k = l

ManagerInv ==
  ManagerTypes /\ LaunchOrder /\ ServiceWatched /\ TokenHeld /\ TokenQueued

(* NoLostRecycle, carried over the end of a replacement: drops that reach  *)
(* the threshold between the swap and the return to service count too.     *)
RecycleInv ==
  /\ served \in [Instances -> Nat]
  /\ notified \in [Instances -> BOOLEAN]
  /\ \A i \in Instances :
       mpc[i] \in {"unborn", "watch", "swapped"} /\ RecycleAfter > 0
           /\ served[i] >= RecycleAfter
         => notified[i] \/ \E r \in Requests : pc[r] = "notify" /\ at[r] = i

PoolInv == RequestInv /\ ManagerInv /\ RecycleInv

-----------------------------------------------------------------------------
(* Who changes what *)

managerVars == <<status, crashed, mpc, token, tokenQueue, launched, ready>>
slotVars == <<in_flight, available, waiters, leaked, pc, at, tries>>

(* Requests never touch the managers' variables.                           *)
LEMMA RequestsKeepManagers ==
  ASSUME NEW r \in Requests,
         Pick(r) \/ RequestStep(r) \/ Cancel(r) \/ Answer503(r)
  PROVE  UNCHANGED managerVars
<1>1. CASE Pick(r)
  BY <1>1 DEF Pick, PickLeastLoaded, NoActiveInstance, instanceVars, poolVars, managerVars
<1>2. CASE RequestStep(r)
  BY <1>2 DEF RequestStep, AcquirePermit, StatusPasses, StatusStale, CountIn,
              ReadBrowser, DropCountOut, DropServed, DropNotify,
              instanceVars, poolVars, managerVars
<1>3. CASE Cancel(r)
  BY <1>3 DEF Cancel, CancelQueued, CancelGranted, CancelReading,
              instanceVars, poolVars, managerVars
<1>4. CASE Answer503(r)
  BY <1>4 DEF Answer503, instanceVars, poolVars, managerVars
<1> QED
  BY <1>1, <1>2, <1>3, <1>4

(* Managers, start-up and chromium never touch the requests' variables.    *)
LEMMA ManagersKeepRequests ==
  ASSUME NEW i \in Instances,
         LaunchReturns \/ LaunchInstance(i) \/ ManagerStep(i) \/ TriggerAge(i)
           \/ ChromiumDies(i)
  PROVE  UNCHANGED slotVars
<1>1. CASE LaunchReturns \/ LaunchInstance(i) \/ ChromiumDies(i)
  BY <1>1 DEF LaunchReturns, LaunchInstance, ChromiumDies, instanceVars,
              requestVars, slotVars
<1>2. CASE ManagerStep(i) \/ TriggerAge(i)
  BY <1>2 DEF ManagerStep, TriggerAge, TriggerCrash, TriggerCount, TakeOutOfService,
              StaleNotification, AcquireToken, DrainCompletes, DrainTimesOut,
              LaunchSucceeds, ManagerMoves, SwapBrowser, BackInService,
              requestVars, slotVars
<1> QED
  BY <1>1, <1>2

-----------------------------------------------------------------------------
(* The managers and the token *)

(* The managers start with the token free and no instance up.              *)
LEMMA ManagerInit == Init => ManagerInv
<1> SUFFICES ASSUME Init PROVE ManagerInv
  OBVIOUS
<1>1. ManagerTypes
  <2>1. tokenQueue \in Seq(Instances)
    BY DEF Init
  <2>2. crashed \in [Instances -> BOOLEAN] /\ ready \in BOOLEAN
    BY DEF Init
  <2>3. status \in [Instances -> Status] /\ mpc \in [Instances -> ManagerPc]
    BY DEF Init, Status, ManagerPc
  <2>4. token \in Instances \cup {NoInstance} /\ launched \in 0 .. PoolSize
    BY PoolAssumption DEF Init
  <2> QED
    BY <2>1, <2>2, <2>3, <2>4 DEF ManagerTypes
<1>2. LaunchOrder /\ ServiceWatched /\ TokenHeld /\ TokenQueued
  BY DEF Init, LaunchOrder, ServiceWatched, TokenHeld, TokenQueued, Replacing
<1> QED
  BY <1>1, <1>2 DEF ManagerInv

(* What leaves the managers' state alone keeps it.                         *)
LEMMA ManagerStutter == ManagerInv /\ UNCHANGED managerVars => ManagerInv'
  BY DEF ManagerInv, managerVars, ManagerTypes, LaunchOrder, ServiceWatched,
         TokenHeld, TokenQueued, Replacing

(* Taking an instance out of service, and the moves of one manager that    *)
(* keeps the token.                                                        *)
LEMMA ManagerMovesKeep ==
  ASSUME ManagerInv, NEW i \in Instances,
         UNCHANGED <<token, tokenQueue, launched, ready>>,
         crashed' \in [Instances -> BOOLEAN],
         \/ /\ \E new \in {"Draining", "Down"} : status' = [status EXCEPT ![i] = new]
            /\ ManagerAt(i, "watch", "acquire")
         \/ /\ \/ ManagerAt(i, "drain", "launch")
               \/ ManagerAt(i, "drain", "overrun")
               \/ ManagerAt(i, "launch", "locked")
               \/ ManagerAt(i, "overrun", "locked")
               \/ ManagerAt(i, "locked", "swapped")
            /\ UNCHANGED status
  PROVE  ManagerInv'
<1> USE DEF ManagerInv, ManagerTypes, ManagerAt, Status, ManagerPc
<1>1. ManagerTypes'
  OBVIOUS
<1>2. LaunchOrder' /\ ServiceWatched'
  BY DEF LaunchOrder, ServiceWatched
<1>3. TokenHeld'
  BY DEF TokenHeld, Replacing
<1>4. TokenQueued'
  BY DEF TokenQueued
<1> QED
  BY <1>1, <1>2, <1>3, <1>4

(* The steps of a manager keep the token with one of them.                 *)
LEMMA ManagerStepKeeps ==
  ASSUME ManagerInv, NEW i \in Instances,
         LaunchReturns \/ LaunchInstance(i) \/ ManagerStep(i) \/ TriggerAge(i)
           \/ ChromiumDies(i)
  PROVE  ManagerInv'
<1> USE DEF ManagerInv
<1>1. CASE LaunchReturns
  BY <1>1 DEF LaunchReturns, instanceVars, ManagerTypes, LaunchOrder, ServiceWatched,
              TokenHeld, TokenQueued, Replacing
<1>2. CASE LaunchInstance(i)
  <2>1. ManagerTypes'
    BY <1>2, PoolAssumption DEF LaunchInstance, ManagerTypes, Status, ManagerPc, Instances
  <2>2. LaunchOrder' /\ ServiceWatched'
    BY <1>2, PoolAssumption
    DEF LaunchInstance, ManagerTypes, LaunchOrder, ServiceWatched, Instances
  <2>3. TokenHeld'
    BY <1>2 DEF LaunchInstance, ManagerTypes, TokenHeld, Replacing
  <2>4. TokenQueued'
    BY <1>2, PoolAssumption
    DEF LaunchInstance, ManagerTypes, LaunchOrder, TokenQueued, Instances
  <2> QED
    BY <2>1, <2>2, <2>3, <2>4
<1>3. CASE TriggerCrash(i) \/ TriggerAge(i) \/ TriggerCount(i)
  BY <1>3, ManagerMovesKeep
  DEF TriggerCrash, TriggerAge, TriggerCount, TakeOutOfService, poolVars, ManagerTypes
<1>4. CASE StaleNotification(i) \/ ChromiumDies(i)
  <2>1. crashed' \in [Instances -> BOOLEAN]
    BY <1>4 DEF StaleNotification, ChromiumDies, ManagerTypes
  <2> QED
    BY <1>4, <2>1
    DEF StaleNotification, ChromiumDies, poolVars, ManagerTypes, LaunchOrder,
        ServiceWatched, TokenHeld, TokenQueued, Replacing
<1>5. CASE AcquireToken(i)
  <2>1. CASE TokenFree(i)
    <3>1. ManagerTypes'
      BY <1>5, <2>1 DEF AcquireToken, ManagerAt, AfterToken, ManagerTypes, ManagerPc
    <3>2. LaunchOrder' /\ ServiceWatched'
      BY <1>5, <2>1
      DEF AcquireToken, ManagerAt, AfterToken, ManagerTypes, LaunchOrder, ServiceWatched
    <3>3. TokenHeld'
      BY <1>5, <2>1, PoolAssumption
      DEF AcquireToken, ManagerAt, TokenFree, ManagerTypes, TokenHeld, Replacing,
          Instances, NoInstance
    <3>4. TokenQueued'
      BY <1>5, <2>1 DEF AcquireToken, ManagerAt, ManagerTypes, TokenQueued
    <3> QED
      BY <3>1, <3>2, <3>3, <3>4
  <2>2. CASE ~TokenFree(i)
    <3>0. /\ mpc' = [mpc EXCEPT ![i] = "tokenwait"]
          /\ tokenQueue' = Append(tokenQueue, i)
          /\ UNCHANGED <<status, crashed, token, launched, ready>>
      BY <1>5, <2>2 DEF AcquireToken, ManagerAt
    <3>1. ManagerTypes'
      <4>1. tokenQueue' \in Seq(Instances)
        BY <3>0 DEF ManagerTypes
      <4>2. mpc' \in [Instances -> ManagerPc]
        BY <3>0 DEF ManagerTypes, ManagerPc
      <4> QED
        BY <3>0, <4>1, <4>2 DEF ManagerTypes
    <3>2. LaunchOrder' /\ ServiceWatched' /\ TokenHeld'
      BY <1>5, <2>2
      DEF AcquireToken, ManagerAt, ManagerTypes, LaunchOrder, ServiceWatched,
          TokenHeld, Replacing
    <3>3. \A k \in 1 .. Len(tokenQueue) : tokenQueue[k] # i /\ tokenQueue[k] \in Instances
      BY <1>5 DEF AcquireToken, ManagerAt, ManagerTypes, TokenQueued
    <3>4. TokenQueued'
      <4>1. /\ Len(tokenQueue') = Len(tokenQueue) + 1
            /\ \A k \in 1 .. Len(tokenQueue) : tokenQueue'[k] = tokenQueue[k]
            /\ tokenQueue'[Len(tokenQueue')] = i
            /\ Len(tokenQueue) \in Nat
        BY <1>5, <2>2 DEF AcquireToken, ManagerAt, ManagerTypes
      <4>2. mpc' = [mpc EXCEPT ![i] = "tokenwait"]
        BY <1>5, <2>2 DEF AcquireToken, ManagerAt
      <4> QED
        BY <3>3, <4>1, <4>2 DEF ManagerTypes, TokenQueued
    <3> QED
      BY <3>1, <3>2, <3>4
  <2> QED
    BY <2>1, <2>2
<1>6. CASE DrainCompletes(i) \/ DrainTimesOut(i) \/ LaunchSucceeds(i)
  BY <1>6, ManagerMovesKeep
  DEF DrainCompletes, DrainTimesOut, LaunchSucceeds, ManagerMoves, poolVars, ManagerTypes
<1>7. CASE SwapBrowser(i)
  BY <1>7, ManagerMovesKeep DEF SwapBrowser, poolVars, ManagerTypes
<1>8. CASE BackInService(i)
  <2>1. CASE tokenQueue = <<>>
    <3>1. ManagerTypes'
      BY <1>8, <2>1 DEF BackInService, ManagerTypes, Status, ManagerPc
    <3>2. LaunchOrder' /\ ServiceWatched'
      BY <1>8, <2>1 DEF BackInService, ManagerTypes, LaunchOrder, ServiceWatched
    <3>3. TokenHeld' /\ TokenQueued'
      BY <1>8, <2>1
      DEF BackInService, ManagerTypes, TokenHeld, TokenQueued, Replacing
    <3> QED
      BY <3>1, <3>2, <3>3
  <2>2. CASE tokenQueue # <<>>
    <3> DEFINE j == Head(tokenQueue)
    <3>1. /\ j \in Instances /\ j # i /\ mpc[j] = "tokenwait"
          /\ Len(tokenQueue) \in Nat \ {0} /\ j = tokenQueue[1]
          /\ \A k \in 1 .. Len(tokenQueue) : tokenQueue[k] \in Instances
      BY <1>8, <2>2 DEF BackInService, ManagerTypes, TokenQueued
    <3>2. /\ mpc' = [mpc EXCEPT ![i] = "watch", ![j] = AfterToken(j)]
          /\ status' = [status EXCEPT ![i] = "Active"]
          /\ token' = j
          /\ tokenQueue' = Tail(tokenQueue)
          /\ UNCHANGED <<crashed, launched, ready>>
          /\ mpc[i] = "swapped"
          /\ AfterToken(j) \in {"launch", "drain"}
      BY <1>8, <2>2 DEF BackInService, AfterToken
    <3> HIDE DEF j
    <3>3. ManagerTypes'
      BY <3>1, <3>2, <2>2 DEF ManagerTypes, Status, ManagerPc
    <3>4. LaunchOrder' /\ ServiceWatched'
      BY <3>1, <3>2 DEF ManagerTypes, LaunchOrder, ServiceWatched
    <3>5. TokenHeld'
      BY <3>1, <3>2 DEF ManagerTypes, TokenHeld, Replacing
    <3>6. TokenQueued'
      <4>1. /\ Len(tokenQueue') = Len(tokenQueue) - 1
            /\ \A k \in 1 .. Len(tokenQueue') : tokenQueue'[k] = tokenQueue[k + 1]
        BY <2>2, <3>2 DEF ManagerTypes
      <4>2. \A k \in 2 .. Len(tokenQueue) : tokenQueue[k] # i /\ tokenQueue[k] # j
        BY <3>1, <3>2 DEF TokenQueued
      <4> QED
        BY <3>1, <3>2, <4>1, <4>2 DEF ManagerTypes, TokenQueued
    <3> QED
      BY <3>3, <3>4, <3>5, <3>6
  <2> QED
    BY <2>1, <2>2
<1> QED
  BY <1>1, <1>2, <1>3, <1>4, <1>5, <1>6, <1>7, <1>8 DEF ManagerStep

-----------------------------------------------------------------------------
(* Requests, permits and in_flight *)

(* Cardinalities of sets of requests, one element more or less.            *)
LEMMA RequestSets ==
  ASSUME NEW S \in SUBSET Requests
  PROVE  /\ Cardinality(S) \in Nat
         /\ \A r \in S : Cardinality(S \ {r}) = Cardinality(S) - 1
         /\ \A r \in Requests \ S : Cardinality(S \cup {r}) = Cardinality(S) + 1
<1>1. IsFiniteSet(S)
  BY FS_Subset, PoolAssumption DEF PoolAssumption
<1> QED
  BY <1>1, FS_CardinalityType, FS_RemoveElement, FS_AddElement

(* Every slot is free at the start.                                        *)
LEMMA RequestInit == Init => RequestInv
<1> SUFFICES ASSUME Init PROVE RequestInv
  OBVIOUS
<1>1. RequestTypes
  <2>1. waiters \in [Instances -> Seq(Requests)]
    BY DEF Init
  <2> QED
    BY <2>1, PoolAssumption DEF Init, RequestTypes, RequestPc, PoolAssumption
<1>2. Placed /\ Queues
  BY PoolAssumption DEF Init, Placed, Queues, PoolAssumption
<1>3. \A i \in Instances : Holders(i) = {} /\ Counted(i) = {}
  BY DEF Init, Holders, HoldingPc, Counted
<1>4. \A i \in Instances : Cardinality(Holders(i)) = 0 /\ Cardinality(Counted(i)) = 0
  BY <1>3, FS_EmptySet
<1>5. PermitsConserved /\ InFlightAccounted
  BY <1>4, PoolAssumption DEF Init, PermitsConserved, InFlightAccounted, PoolAssumption
<1> QED
  BY <1>1, <1>2, <1>5 DEF RequestInv

(* What leaves the slots alone keeps their account.                        *)
LEMMA RequestStutter == RequestInv /\ UNCHANGED slotVars => RequestInv'
<1> SUFFICES ASSUME RequestInv, UNCHANGED slotVars PROVE RequestInv'
  OBVIOUS
<1>1. \A i \in Instances : Holders(i)' = Holders(i) /\ Counted(i)' = Counted(i)
  BY DEF Holders, Counted, slotVars
<1> QED
  BY <1>1 DEF RequestInv, slotVars, RequestTypes, Placed, Queues, PermitsConserved,
              InFlightAccounted

(* Who stands in an instance's queue is queued at it.                      *)
LEMMA WaitersWait ==
  ASSUME RequestTypes, Queues
  PROVE  \A i \in Instances : \A k \in 1 .. Len(waiters[i]) :
           /\ waiters[i][k] \in Requests
           /\ pc[waiters[i][k]] = "queued"
           /\ at[waiters[i][k]] = i
  BY DEF RequestTypes, Queues

(* What giving a permit of i back does: it is free again, or the first     *)
(* waiter h holds it.                                                      *)
LEMMA ReleaseShape ==
  ASSUME RequestTypes, Queues,
         NEW r \in Requests, NEW i \in Instances, NEW next,
         pc[r] \in HoldingPc, ReleasePermit(r, i, next)
  PROVE  \/ /\ waiters[i] = <<>>
            /\ available' = [available EXCEPT ![i] = @ + 1]
            /\ pc' = [pc EXCEPT ![r] = next]
            /\ waiters' = waiters
         \/ \E h \in Requests :
              /\ waiters[i] # <<>>
              /\ h = waiters[i][1] /\ h # r
              /\ pc[h] = "queued" /\ at[h] = i
              /\ waiters' = [waiters EXCEPT ![i] = Tail(@)]
              /\ pc' = [pc EXCEPT ![r] = next, ![h] = "granted"]
              /\ available' = available
<1>1. CASE waiters[i] = <<>>
  BY <1>1 DEF ReleasePermit
<1>2. CASE waiters[i] # <<>>
  <2>1. /\ waiters[i] \in Seq(Requests)
        /\ 1 \in 1 .. Len(waiters[i])
        /\ Head(waiters[i]) = waiters[i][1]
        /\ waiters[i][1] \in Requests
    BY <1>2 DEF RequestTypes
  <2>2. pc[waiters[i][1]] = "queued" /\ at[waiters[i][1]] = i /\ waiters[i][1] # r
    BY <2>1 DEF Queues, HoldingPc
  <2>3. /\ waiters' = [waiters EXCEPT ![i] = Tail(@)]
        /\ pc' = [pc EXCEPT ![r] = next, ![waiters[i][1]] = "granted"]
        /\ available' = available
    BY <1>2, <2>1 DEF ReleasePermit
  <2> QED
    BY <1>2, <2>1, <2>2, <2>3
<1> QED
  BY <1>1, <1>2

(* A request that leaves, giving its permit back, keeps queues and         *)
(* permits, and changes the state of nobody but the waiter it wakes.       *)
LEMMA ReleaseKeeps ==
  ASSUME RequestInv,
         NEW r \in Requests, NEW i \in Instances, NEW next \in {"idle", "refused"},
         pc[r] \in HoldingPc, at[r] = i,
         ReleasePermit(r, i, next), at' = [at EXCEPT ![r] = NoInstance]
  PROVE  /\ available' \in [Instances -> Nat]
         /\ waiters' \in [Instances -> Seq(Requests)]
         /\ pc' \in [Requests -> RequestPc]
         /\ at' \in [Requests -> Instances \cup {NoInstance}]
         /\ pc'[r] = next
         /\ \A s \in Requests \ {r} :
              /\ at'[s] = at[s]
              /\ pc'[s] = pc[s] \/ (pc[s] = "queued" /\ pc'[s] = "granted")
         /\ Queues'
         /\ PermitsConserved'
<1> USE DEF RequestInv
<1> DEFINE Goal ==
      /\ available' \in [Instances -> Nat]
      /\ waiters' \in [Instances -> Seq(Requests)]
      /\ pc' \in [Requests -> RequestPc]
      /\ at' \in [Requests -> Instances \cup {NoInstance}]
      /\ pc'[r] = next
      /\ \A s \in Requests \ {r} :
           /\ at'[s] = at[s]
           /\ pc'[s] = pc[s] \/ (pc[s] = "queued" /\ pc'[s] = "granted")
      /\ Queues'
      /\ PermitsConserved'
<1>1. i # NoInstance
  BY PoolAssumption DEF Instances, NoInstance, PoolAssumption
<1>2. r \in Holders(i) /\ \A j \in Instances : Holders(j) \in SUBSET Requests
  BY DEF Holders
<1>3. ASSUME waiters[i] = <<>>,
             available' = [available EXCEPT ![i] = @ + 1],
             pc' = [pc EXCEPT ![r] = next],
             waiters' = waiters
      PROVE  Goal
  <2>1. /\ available' \in [Instances -> Nat]
        /\ waiters' \in [Instances -> Seq(Requests)]
        /\ pc' \in [Requests -> RequestPc]
        /\ at' \in [Requests -> Instances \cup {NoInstance}]
    BY <1>3 DEF RequestTypes, RequestPc
  <2>2. pc'[r] = next /\ \A s \in Requests \ {r} : at'[s] = at[s] /\ pc'[s] = pc[s]
    BY <1>3 DEF RequestTypes
  <2>3. Queues'
    <3>1. \A j \in Instances : \A k \in 1 .. Len(waiters[j]) :
            waiters[j][k] # r /\ waiters[j][k] \in Requests
      BY WaitersWait DEF HoldingPc
    <3> QED
      BY <1>3, <2>2, <3>1 DEF Queues
  <2>4. Holders(i)' = Holders(i) \ {r}
    BY <2>2, <1>1 DEF Holders, HoldingPc, RequestTypes
  <2>5. \A j \in Instances \ {i} : Holders(j)' = Holders(j)
    BY <2>2, <1>1 DEF Holders, HoldingPc, RequestTypes
  <2>6. /\ Cardinality(Holders(i)') = Cardinality(Holders(i)) - 1
        /\ Cardinality(Holders(i)) \in Nat
    BY <2>4, <1>2, RequestSets
  <2>7. PermitsConserved'
    <3> SUFFICES ASSUME NEW j \in Instances
                 PROVE  /\ available'[j] + Cardinality(Holders(j)') = Pages
                        /\ available'[j] > 0 => waiters'[j] = <<>>
      BY DEF PermitsConserved
    <3>1. CASE j = i
      BY <3>1, <2>6, <1>3 DEF PermitsConserved, RequestTypes
    <3>2. CASE j # i
      BY <3>2, <2>5, <1>3 DEF PermitsConserved, RequestTypes
    <3> QED
      BY <3>1, <3>2
  <2> QED
    BY <2>1, <2>2, <2>3, <2>7
<1>4. ASSUME NEW h \in Requests,
             waiters[i] # <<>>,
             h = waiters[i][1], h # r,
             pc[h] = "queued", at[h] = i,
             waiters' = [waiters EXCEPT ![i] = Tail(@)],
             pc' = [pc EXCEPT ![r] = next, ![h] = "granted"],
             available' = available
      PROVE  Goal
  <2> waiters[i] \in Seq(Requests) /\ Tail(waiters[i]) \in Seq(Requests)
    BY <1>4 DEF RequestTypes
  <2>1. /\ available' \in [Instances -> Nat]
        /\ waiters' \in [Instances -> Seq(Requests)]
        /\ pc' \in [Requests -> RequestPc]
        /\ at' \in [Requests -> Instances \cup {NoInstance}]
    BY <1>4 DEF RequestTypes, RequestPc
  <2>2. /\ pc'[r] = next /\ pc'[h] = "granted" /\ at'[h] = i
        /\ \A s \in Requests \ {r} : at'[s] = at[s]
        /\ \A s \in Requests \ {r, h} : pc'[s] = pc[s]
    BY <1>4 DEF RequestTypes
  <2>3. Queues'
    <3>1. /\ Len(waiters[i]) \in Nat \ {0}
          /\ Len(waiters'[i]) = Len(waiters[i]) - 1
          /\ \A k \in 1 .. Len(waiters'[i]) : waiters'[i][k] = waiters[i][k + 1]
          /\ \A j \in Instances \ {i} : waiters'[j] = waiters[j]
      BY <1>4 DEF RequestTypes
    <3>2. \A k \in 2 .. Len(waiters[i]) :
            waiters[i][k] # h /\ waiters[i][k] # r /\ waiters[i][k] \in Requests
      BY <3>1, <1>4, WaitersWait DEF Queues, HoldingPc
    <3>3. \A j \in Instances \ {i} : \A k \in 1 .. Len(waiters[j]) :
            waiters[j][k] # h /\ waiters[j][k] # r /\ waiters[j][k] \in Requests
      BY <1>4, WaitersWait DEF HoldingPc
    <3>4. ASSUME NEW j \in Instances
          PROVE  /\ \A k \in 1 .. Len(waiters'[j]) :
                      pc'[waiters'[j][k]] = "queued" /\ at'[waiters'[j][k]] = j
                 /\ \A k, l \in 1 .. Len(waiters'[j]) :
                      waiters'[j][k] = waiters'[j][l] => k = l
      <4>1. CASE j = i
        <5>1. \A k \in 1 .. Len(waiters'[i]) :
                pc'[waiters'[i][k]] = "queued" /\ at'[waiters'[i][k]] = i
          <6> SUFFICES ASSUME NEW k \in 1 .. Len(waiters'[i])
                       PROVE  pc'[waiters'[i][k]] = "queued" /\ at'[waiters'[i][k]] = i
            OBVIOUS
          <6>1. k + 1 \in 2 .. Len(waiters[i]) /\ waiters'[i][k] = waiters[i][k + 1]
            BY <3>1
          <6>2. pc[waiters[i][k + 1]] = "queued" /\ at[waiters[i][k + 1]] = i
            BY <6>1, <3>1, WaitersWait
          <6> QED
            BY <6>1, <6>2, <3>2, <2>2
        <5>2. \A k, l \in 1 .. Len(waiters'[i]) : waiters'[i][k] = waiters'[i][l] => k = l
          BY <3>1 DEF Queues
        <5> QED
          BY <4>1, <5>1, <5>2
      <4>2. CASE j # i
        BY <4>2, <3>1, <3>3, <2>2 DEF Queues
      <4> QED
        BY <4>1, <4>2
    <3> QED
      BY <3>4 DEF Queues
  <2>4. Holders(i)' = (Holders(i) \ {r}) \cup {h} /\ h \notin Holders(i)
    BY <2>2, <1>1, <1>4 DEF Holders, HoldingPc, RequestTypes
  <2>5. \A j \in Instances \ {i} : Holders(j)' = Holders(j)
    <3> SUFFICES ASSUME NEW j \in Instances \ {i}, NEW s \in Requests
                 PROVE  /\ pc'[s] \in HoldingPc /\ at'[s] = j
                        <=> pc[s] \in HoldingPc /\ at[s] = j
      BY DEF Holders
    <3>1. CASE s = r
      BY <2>2, <1>1, <1>4, <3>1 DEF HoldingPc, RequestTypes
    <3>2. CASE s = h
      BY <2>2, <1>1, <1>4, <3>2
    <3>3. CASE s \notin {r, h}
      BY <2>2, <3>3
    <3> QED
      BY <3>1, <3>2, <3>3
  <2>6. Cardinality(Holders(i)') = Cardinality(Holders(i))
    <3>1. Cardinality(Holders(i) \ {r}) = Cardinality(Holders(i)) - 1
      BY <1>2, RequestSets
    <3>2. Cardinality((Holders(i) \ {r}) \cup {h}) = Cardinality(Holders(i) \ {r}) + 1
      BY <1>2, <2>4, RequestSets
    <3> QED
      BY <3>1, <3>2, <2>4, <1>2, RequestSets
  <2>7. PermitsConserved'
    BY <2>5, <2>6, <1>4 DEF PermitsConserved, RequestTypes
  <2> QED
    BY <2>1, <2>2, <2>3, <2>7, <1>4
<1> QED
  BY <1>3, <1>4, ReleaseShape

(* A request that neither takes nor gives back a permit, and is not        *)
(* queued before or after.                                                 *)
LEMMA MoveKeeps ==
  ASSUME RequestInv, NEW r \in Requests, NEW p \in RequestPc,
         UNCHANGED <<available, waiters>>,
         pc' = [pc EXCEPT ![r] = p],
         pc[r] # "queued", p # "queued",
         \/ /\ pc[r] \in HoldingPc /\ p \in HoldingPc
            /\ UNCHANGED at
         \/ /\ pc[r] \notin HoldingPc /\ p \notin HoldingPc
            /\ \E a \in Instances \cup {NoInstance} : at' = [at EXCEPT ![r] = a]
         \/ /\ pc[r] \notin HoldingPc /\ p \notin HoldingPc
            /\ UNCHANGED at
  PROVE  /\ available' \in [Instances -> Nat]
         /\ waiters' \in [Instances -> Seq(Requests)]
         /\ pc' \in [Requests -> RequestPc]
         /\ at' \in [Requests -> Instances \cup {NoInstance}]
         /\ Queues'
         /\ PermitsConserved'
<1> USE DEF RequestInv
<1>1. /\ available' \in [Instances -> Nat]
      /\ waiters' \in [Instances -> Seq(Requests)]
      /\ pc' \in [Requests -> RequestPc]
      /\ at' \in [Requests -> Instances \cup {NoInstance}]
  BY DEF RequestTypes
<1>2. pc'[r] = p /\ \A s \in Requests \ {r} : pc'[s] = pc[s] /\ at'[s] = at[s]
  BY DEF RequestTypes
<1>3. Queues'
  <2>1. \A j \in Instances : \A k \in 1 .. Len(waiters[j]) :
          waiters[j][k] # r /\ waiters[j][k] \in Requests
    BY WaitersWait
  <2> QED
    BY <1>2, <2>1 DEF Queues
<1>4. \A j \in Instances : Holders(j)' = Holders(j)
  BY <1>2 DEF Holders
<1>5. PermitsConserved'
  BY <1>4 DEF PermitsConserved
<1> QED
  BY <1>1, <1>3, <1>5

(* Steps that count nobody in or out.                                      *)
CountedPc == {"reading", "leased"}

(* A step that counts no request in or out keeps the account.              *)
LEMMA CountKeeps ==
  ASSUME InFlightAccounted, UNCHANGED <<in_flight, leaked>>,
         \A s \in Requests :
           \/ pc[s] \notin CountedPc /\ pc'[s] \notin CountedPc
           \/ pc[s] \in CountedPc /\ pc'[s] \in CountedPc /\ at'[s] = at[s]
  PROVE  InFlightAccounted'
<1>1. \A j \in Instances : Counted(j)' = Counted(j)
  BY DEF Counted, CountedPc
<1> QED
  BY <1>1 DEF InFlightAccounted

(* Picking, giving up, passing the check and reading move no slot.         *)
LEMMA PickKeeps ==
  ASSUME RequestInv, NEW r \in Requests,
         Pick(r) \/ Answer503(r) \/ StatusPasses(r) \/ ReadBrowser(r)
  PROVE  RequestInv'
<1> USE DEF RequestInv
<1> DEFINE Rest == Queues' /\ PermitsConserved' /\ InFlightAccounted'
<1>1. CASE PickLeastLoaded(r)
  <2>1. PICK a \in Instances : at' = [at EXCEPT ![r] = a]
    BY <1>1 DEF PickLeastLoaded
  <2>2. pc[r] = "idle" /\ pc' = [pc EXCEPT ![r] = "picked"]
        /\ UNCHANGED <<in_flight, available, waiters, leaked, tries>>
    BY <1>1 DEF PickLeastLoaded, instanceVars
  <2>3. /\ pc' \in [Requests -> RequestPc]
        /\ at' \in [Requests -> Instances \cup {NoInstance}]
        /\ Queues' /\ PermitsConserved'
    BY <2>1, <2>2, MoveKeeps DEF HoldingPc, RequestPc
  <2>4. InFlightAccounted'
    BY <2>1, <2>2, CountKeeps DEF CountedPc, RequestTypes
  <2>5. RequestTypes' /\ Placed'
    BY <2>1, <2>2, <2>3 DEF RequestTypes, Placed
  <2> QED
    BY <2>3, <2>4, <2>5
<1>2. CASE NoActiveInstance(r)
  <2>1. pc[r] = "idle" /\ pc' = [pc EXCEPT ![r] = "refused"]
        /\ UNCHANGED <<in_flight, available, waiters, leaked, at, tries>>
    BY <1>2 DEF NoActiveInstance, instanceVars
  <2>2. pc' \in [Requests -> RequestPc] /\ Queues' /\ PermitsConserved'
    BY <2>1, MoveKeeps DEF HoldingPc, RequestPc
  <2>3. InFlightAccounted'
    BY <2>1, CountKeeps DEF CountedPc, RequestTypes
  <2>4. RequestTypes' /\ Placed'
    BY <2>1, <2>2 DEF RequestTypes, Placed
  <2> QED
    BY <2>2, <2>3, <2>4
<1>3. CASE Answer503(r)
  <2>1. pc[r] = "refused" /\ pc' = [pc EXCEPT ![r] = "idle"]
        /\ at' = [at EXCEPT ![r] = NoInstance]
        /\ tries' = [tries EXCEPT ![r] = 0]
        /\ UNCHANGED <<in_flight, available, waiters, leaked>>
    BY <1>3 DEF Answer503, instanceVars
  <2>2. /\ pc' \in [Requests -> RequestPc]
        /\ at' \in [Requests -> Instances \cup {NoInstance}]
        /\ Queues' /\ PermitsConserved'
    BY <2>1, MoveKeeps DEF HoldingPc, RequestPc
  <2>3. InFlightAccounted'
    BY <2>1, CountKeeps DEF CountedPc, RequestTypes
  <2>4. RequestTypes' /\ Placed'
    BY <2>1, <2>2, PoolAssumption DEF RequestTypes, Placed, PoolAssumption
  <2> QED
    BY <2>2, <2>3, <2>4
<1>4. CASE StatusPasses(r) \/ ReadBrowser(r)
  <2>1. PICK p \in HoldingPc :
          /\ pc' = [pc EXCEPT ![r] = p] /\ pc[r] \in HoldingPc
          /\ pc[r] \in CountedPc <=> p \in CountedPc
          /\ UNCHANGED <<in_flight, available, waiters, leaked, at, tries>>
    BY <1>4 DEF StatusPasses, ReadBrowser, instanceVars, HoldingPc, CountedPc
  <2>2. pc' \in [Requests -> RequestPc] /\ Queues' /\ PermitsConserved'
    BY <2>1, MoveKeeps DEF HoldingPc, RequestPc
  <2>3. InFlightAccounted'
    BY <2>1, CountKeeps DEF CountedPc, RequestTypes
  <2>4. RequestTypes' /\ Placed'
    BY <2>1, <2>2 DEF RequestTypes, Placed, HoldingPc
  <2> QED
    BY <2>2, <2>3, <2>4
<1> QED
  BY <1>1, <1>2, <1>3, <1>4 DEF Pick

(* Taking a free permit, or a place in the queue, keeps the account.       *)
LEMMA AcquireKeeps ==
  ASSUME RequestInv, NEW r \in Requests, AcquirePermit(r)
  PROVE  RequestInv'
<1> USE DEF RequestInv
<1>0. PICK i \in Instances : i = at[r]
  BY DEF AcquirePermit, Placed
<1>1. i \in Instances /\ pc[r] = "picked" /\ available[i] \in Nat
  BY <1>0 DEF AcquirePermit, Placed, RequestTypes
<1>2. UNCHANGED <<in_flight, leaked, at, tries>>
  BY DEF AcquirePermit, poolVars
<1>3. \A j \in Instances : \A k \in 1 .. Len(waiters[j]) :
        waiters[j][k] # r /\ waiters[j][k] \in Requests
  BY <1>1, WaitersWait
<1>4. CASE HasPermit(i)
  <2>1. /\ available[i] > 0
        /\ available' = [available EXCEPT ![i] = @ - 1]
        /\ pc' = [pc EXCEPT ![r] = "granted"]
        /\ waiters' = waiters
    BY <1>0, <1>1, <1>4 DEF AcquirePermit, HasPermit
  <2>2. RequestTypes' /\ Placed'
    BY <1>0, <1>1, <1>2, <2>1 DEF RequestTypes, RequestPc, Placed
  <2>3. Queues'
    <3>1. \A s \in Requests \ {r} : pc'[s] = pc[s]
      BY <2>1 DEF RequestTypes
    <3>2. \A j \in Instances : \A k \in 1 .. Len(waiters[j]) :
            pc'[waiters[j][k]] = "queued" /\ at[waiters[j][k]] = j
      BY <1>3, <3>1 DEF Queues
    <3> QED
      BY <1>2, <2>1, <3>2 DEF Queues
  <2>4. InFlightAccounted'
    BY <1>0, <1>1, <1>2, <2>1, CountKeeps DEF CountedPc, RequestTypes
  <2>5. PermitsConserved'
    <3>1. /\ Holders(i)' = Holders(i) \cup {r} /\ r \notin Holders(i)
          /\ \A j \in Instances \ {i} : Holders(j)' = Holders(j)
      BY <1>0, <1>1, <1>2, <2>1 DEF Holders, HoldingPc, RequestTypes
    <3>2. /\ Cardinality(Holders(i)') = Cardinality(Holders(i)) + 1
          /\ Cardinality(Holders(i)) \in Nat
      <4>1. Holders(i) \in SUBSET Requests
        BY DEF Holders
      <4> QED
        BY <3>1, <4>1, RequestSets
    <3> SUFFICES ASSUME NEW j \in Instances
                 PROVE  /\ available'[j] + Cardinality(Holders(j)') = Pages
                        /\ available'[j] > 0 => waiters'[j] = <<>>
      BY DEF PermitsConserved
    <3>3. CASE j = i
      BY <3>2, <3>3, <1>1, <2>1 DEF PermitsConserved, RequestTypes
    <3>4. CASE j # i
      BY <3>1, <3>4, <2>1 DEF PermitsConserved, RequestTypes
    <3> QED
      BY <3>3, <3>4
  <2> QED
    BY <2>2, <2>3, <2>4, <2>5
<1>5. CASE ~HasPermit(i)
  <2>1. /\ available[i] = 0
        /\ waiters' = [waiters EXCEPT ![i] = Append(@, r)]
        /\ pc' = [pc EXCEPT ![r] = "queued"]
        /\ available' = available
    BY <1>0, <1>1, <1>5 DEF AcquirePermit, HasPermit
  <2>2. RequestTypes' /\ Placed'
    <3>1. Append(waiters[i], r) \in Seq(Requests)
      BY <1>1 DEF RequestTypes
    <3> QED
      BY <1>0, <1>1, <1>2, <2>1, <3>1 DEF RequestTypes, RequestPc, Placed
  <2>3. Queues'
    <3>1. /\ Len(waiters[i]) \in Nat
          /\ Len(waiters'[i]) = Len(waiters[i]) + 1
          /\ waiters'[i][Len(waiters'[i])] = r
          /\ \A k \in 1 .. Len(waiters[i]) : waiters'[i][k] = waiters[i][k]
          /\ \A j \in Instances \ {i} : waiters'[j] = waiters[j]
      BY <1>1, <2>1 DEF RequestTypes
    <3>2. pc'[r] = "queued" /\ at'[r] = i /\ at' = at
          /\ \A s \in Requests \ {r} : pc'[s] = pc[s]
      BY <1>0, <1>2, <2>1 DEF RequestTypes
    <3> SUFFICES ASSUME NEW j \in Instances
                 PROVE  /\ \A k \in 1 .. Len(waiters'[j]) :
                             pc'[waiters'[j][k]] = "queued" /\ at'[waiters'[j][k]] = j
                        /\ \A k, l \in 1 .. Len(waiters'[j]) :
                             waiters'[j][k] = waiters'[j][l] => k = l
      BY DEF Queues
    <3>3. CASE j = i
      <4>1. \A k \in 1 .. Len(waiters'[i]) :
              k \in 1 .. Len(waiters[i]) \/ k = Len(waiters[i]) + 1
        BY <3>1
      <4>2. \A k \in 1 .. Len(waiters'[i]) :
              pc'[waiters'[i][k]] = "queued" /\ at'[waiters'[i][k]] = i
        <5>1. \A k \in 1 .. Len(waiters[i]) :
                pc[waiters[i][k]] = "queued" /\ at[waiters[i][k]] = i
          BY <1>1 DEF Queues
        <5>2. \A k \in 1 .. Len(waiters[i]) :
                pc'[waiters'[i][k]] = "queued" /\ at'[waiters'[i][k]] = i
          <6> SUFFICES ASSUME NEW k \in 1 .. Len(waiters[i])
                       PROVE  pc'[waiters'[i][k]] = "queued" /\ at'[waiters'[i][k]] = i
            OBVIOUS
          <6>1. waiters[i][k] \in Requests \ {r}
            BY <1>1, <1>3
          <6> QED
            BY <3>1, <3>2, <5>1, <6>1
        <5> QED
          BY <3>1, <3>2, <4>1, <5>2
      <4>3. \A k, l \in 1 .. Len(waiters'[i]) : waiters'[i][k] = waiters'[i][l] => k = l
        <5>1. \A k \in 1 .. Len(waiters[i]) : waiters'[i][k] # r
          BY <1>1, <1>3, <3>1
        <5>2. \A k, l \in 1 .. Len(waiters[i]) : waiters'[i][k] = waiters'[i][l] => k = l
          BY <1>1, <3>1 DEF Queues
        <5> QED
          BY <3>1, <4>1, <5>1, <5>2
      <4> QED
        BY <3>3, <4>2, <4>3
    <3>4. CASE j # i
      <4>1. waiters'[j] = waiters[j]
        BY <3>1, <3>4
      <4>2. \A k \in 1 .. Len(waiters[j]) :
              pc'[waiters[j][k]] = "queued" /\ at'[waiters[j][k]] = j
        BY <1>3, <3>2 DEF Queues
      <4> QED
        BY <4>1, <4>2 DEF Queues
    <3> QED
      BY <3>3, <3>4
  <2>4. InFlightAccounted'
    BY <1>0, <1>1, <1>2, <2>1, CountKeeps DEF CountedPc, RequestTypes
  <2>5. PermitsConserved'
    <3>1. \A j \in Instances : Holders(j)' = Holders(j)
      BY <1>0, <1>1, <1>2, <2>1 DEF Holders, HoldingPc, RequestTypes
    <3> QED
      BY <1>1, <2>1, <3>1 DEF PermitsConserved, RequestTypes
  <2> QED
    BY <2>2, <2>3, <2>4, <2>5
<1> QED
  BY <1>4, <1>5

(* Counting in raises in_flight by the request's own count.                *)
LEMMA CountInKeeps ==
  ASSUME RequestInv, NEW r \in Requests, CountIn(r)
  PROVE  RequestInv'
<1> USE DEF RequestInv
<1>0. PICK i \in Instances : i = at[r]
  BY DEF CountIn, Placed
<1>1. /\ i \in Instances /\ pc[r] = "passed"
      /\ in_flight' = [in_flight EXCEPT ![i] = @ + 1]
      /\ pc' = [pc EXCEPT ![r] = "reading"]
      /\ UNCHANGED <<available, waiters, leaked, at, tries>>
  BY <1>0 DEF CountIn, Placed, poolVars
<1>2. pc' \in [Requests -> RequestPc] /\ Queues' /\ PermitsConserved'
  BY <1>1, MoveKeeps DEF HoldingPc, RequestPc
<1>3. RequestTypes' /\ Placed'
  BY <1>0, <1>1, <1>2 DEF RequestTypes, Placed
<1>4. /\ Counted(i)' = Counted(i) \cup {r} /\ r \notin Counted(i)
      /\ \A j \in Instances \ {i} : Counted(j)' = Counted(j)
      /\ Counted(i) \in SUBSET Requests
  BY <1>0, <1>1 DEF Counted, RequestTypes
<1>5. /\ Cardinality(Counted(i)') = Cardinality(Counted(i)) + 1
      /\ Cardinality(Counted(i)) \in Nat
  BY <1>4, RequestSets
<1>6. InFlightAccounted'
  <2> SUFFICES ASSUME NEW j \in Instances
               PROVE  in_flight'[j] = Cardinality(Counted(j)') + leaked'[j]
    BY DEF InFlightAccounted
  <2>1. CASE j = i
    BY <2>1, <1>1, <1>5 DEF InFlightAccounted, RequestTypes
  <2>2. CASE j # i
    BY <2>2, <1>1, <1>4 DEF InFlightAccounted, RequestTypes
  <2> QED
    BY <2>1, <2>2
<1> QED
  BY <1>2, <1>3, <1>6

(* Counting out takes the same count back.                                 *)
LEMMA DropCountOutKeeps ==
  ASSUME RequestInv, NEW r \in Requests, DropCountOut(r)
  PROVE  RequestInv'
<1> USE DEF RequestInv
<1>0. PICK i \in Instances : i = at[r]
  BY DEF DropCountOut, Placed
<1>1. /\ i \in Instances /\ pc[r] = "leased"
      /\ in_flight' = [in_flight EXCEPT ![i] = @ - 1]
      /\ pc' = [pc EXCEPT ![r] = "uncounted"]
      /\ UNCHANGED <<available, waiters, leaked, at, tries>>
  BY <1>0 DEF DropCountOut, Placed, poolVars
<1>2. pc' \in [Requests -> RequestPc] /\ Queues' /\ PermitsConserved'
  BY <1>1, MoveKeeps DEF HoldingPc, RequestPc
<1>3. /\ Counted(i)' = Counted(i) \ {r} /\ r \in Counted(i)
      /\ \A j \in Instances \ {i} : Counted(j)' = Counted(j)
      /\ Counted(i) \in SUBSET Requests
  BY <1>0, <1>1 DEF Counted, RequestTypes
<1>4. /\ Cardinality(Counted(i)') = Cardinality(Counted(i)) - 1
      /\ Cardinality(Counted(i)') \in Nat
      /\ Cardinality(Counted(i)) \in Nat
  <2>1. Counted(i)' \in SUBSET Requests
    BY <1>3
  <2> QED
    BY <1>3, <2>1, RequestSets
<1>5. RequestTypes' /\ Placed'
  <2>1. in_flight[i] \in Nat /\ in_flight[i] >= 1
    BY <1>1, <1>4 DEF InFlightAccounted, RequestTypes
  <2>2. in_flight' \in [Instances -> Nat]
    BY <1>1, <2>1 DEF RequestTypes
  <2> QED
    BY <1>0, <1>1, <1>2, <2>2 DEF RequestTypes, Placed
<1>6. InFlightAccounted'
  <2> SUFFICES ASSUME NEW j \in Instances
               PROVE  in_flight'[j] = Cardinality(Counted(j)') + leaked'[j]
    BY DEF InFlightAccounted
  <2>1. CASE j = i
    BY <2>1, <1>1, <1>4 DEF InFlightAccounted, RequestTypes
  <2>2. CASE j # i
    BY <2>2, <1>1, <1>3 DEF InFlightAccounted, RequestTypes
  <2> QED
    BY <2>1, <2>2
<1> QED
  BY <1>2, <1>5, <1>6

(* What is left of RequestInv once a release is known to keep queues and   *)
(* permits: the request is placed again, nobody is counted in or out.      *)
LEMMA LeaveKeeps ==
  ASSUME RequestInv, NEW r \in Requests, NEW i \in Instances,
         pc[r] \in HoldingPc \ CountedPc, at[r] = i,
         NEW next \in {"idle", "refused"},
         ReleasePermit(r, i, next), at' = [at EXCEPT ![r] = NoInstance],
         UNCHANGED <<in_flight, leaked>>,
         NEW n \in 0 .. PickRetries, tries' = [tries EXCEPT ![r] = n],
         n < PickRetries \/ next = "refused"
  PROVE  RequestInv'
<1> USE DEF RequestInv
<1>1. /\ available' \in [Instances -> Nat]
      /\ waiters' \in [Instances -> Seq(Requests)]
      /\ pc' \in [Requests -> RequestPc]
      /\ at' \in [Requests -> Instances \cup {NoInstance}]
      /\ pc'[r] = next
      /\ \A s \in Requests \ {r} :
           /\ at'[s] = at[s]
           /\ pc'[s] = pc[s] \/ (pc[s] = "queued" /\ pc'[s] = "granted")
      /\ Queues' /\ PermitsConserved'
  BY ReleaseKeeps
<1>2. InFlightAccounted'
  <2>1. \A s \in Requests :
          \/ pc[s] \notin CountedPc /\ pc'[s] \notin CountedPc
          \/ pc[s] \in CountedPc /\ pc'[s] \in CountedPc /\ at'[s] = at[s]
    BY <1>1 DEF CountedPc
  <2> QED
    BY <2>1, CountKeeps
<1>3. RequestTypes' /\ Placed'
  BY <1>1 DEF RequestTypes, Placed
<1> QED
  BY <1>1, <1>2, <1>3

(* A request that finds its instance out of service returns its permit.    *)
LEMMA StatusStaleKeeps ==
  ASSUME RequestInv, NEW r \in Requests, StatusStale(r)
  PROVE  RequestInv'
<1>1. PICK i \in Instances : i = at[r]
  BY DEF StatusStale, RequestInv, Placed
<1>2. tries[r] \in 0 .. PickRetries /\ tries[r] < PickRetries /\ pc[r] = "granted"
  BY DEF StatusStale, RequestInv, RequestTypes, Placed
<1>3. PICK n \in 0 .. PickRetries : n = tries[r] + 1
  BY <1>2, PoolAssumption DEF PoolAssumption
<1>4. tries' = [tries EXCEPT ![r] = n] /\ UNCHANGED <<in_flight, leaked>>
  BY <1>3 DEF StatusStale, RequestInv, RequestTypes
<1>5. PICK next \in {"idle", "refused"} :
        next = IF n = PickRetries THEN "refused" ELSE "idle"
  OBVIOUS
<1>6. ReleasePermit(r, i, next) /\ at' = [at EXCEPT ![r] = NoInstance]
  BY <1>1, <1>3, <1>5 DEF StatusStale
<1>7. n < PickRetries \/ next = "refused"
  BY <1>3, <1>5, PoolAssumption DEF PoolAssumption
<1> QED
  BY <1>1, <1>2, <1>4, <1>6, <1>7, LeaveKeeps DEF HoldingPc, CountedPc

(* A permit that comes back goes to the first waiter or is free.           *)
LEMMA ReturnKeeps ==
  ASSUME RequestInv, NEW r \in Requests,
         CancelGranted(r) \/ DropServed(r) \/ DropNotify(r)
  PROVE  RequestInv'
<1>1. PICK i \in Instances : i = at[r]
  BY DEF CancelGranted, DropServed, DropNotify, RequestInv, Placed
<1>2. pc[r] \in HoldingPc \ CountedPc /\ pc[r] # "queued"
  BY DEF CancelGranted, DropServed, DropNotify, HoldingPc, CountedPc
<1>3. UNCHANGED <<in_flight, leaked>>
  BY DEF CancelGranted, DropServed, DropNotify
<1>4. CASE Leave(r, i)
  <2>1. /\ 0 \in 0 .. PickRetries /\ 0 < PickRetries
        /\ "idle" \in {"idle", "refused"}
    BY PoolAssumption DEF PoolAssumption
  <2>2. /\ ReleasePermit(r, i, "idle")
        /\ at' = [at EXCEPT ![r] = NoInstance]
        /\ tries' = [tries EXCEPT ![r] = 0]
    BY <1>4 DEF Leave
  <2> QED
    BY <1>1, <1>2, <1>3, <2>1, <2>2, LeaveKeeps
<1>5. CASE pc' = [pc EXCEPT ![r] = "notify"] /\ UNCHANGED <<available, waiters, at, tries>>
  <2>1. pc' \in [Requests -> RequestPc] /\ Queues' /\ PermitsConserved'
    BY <1>2, <1>5, MoveKeeps DEF HoldingPc, RequestPc
  <2>2. InFlightAccounted'
    BY <1>2, <1>3, <1>5, CountKeeps DEF CountedPc, RequestTypes, RequestInv
  <2>3. RequestTypes' /\ Placed'
    BY <1>2, <1>3, <1>5, <2>1 DEF RequestTypes, Placed, HoldingPc, RequestInv
  <2> QED
    BY <2>1, <2>2, <2>3 DEF RequestInv
<1> QED
  BY <1>1, <1>4, <1>5 DEF CancelGranted, DropServed, DropNotify

(* A checkout cancelled at inner.read() leaks its count, not its permit.   *)
LEMMA CancelReadingKeeps ==
  ASSUME RequestInv, NEW r \in Requests, CancelReading(r)
  PROVE  RequestInv'
<1> USE DEF RequestInv
<1>1. PICK i \in Instances : i = at[r]
  BY DEF CancelReading, Placed
<1>2. /\ pc[r] = "reading"
      /\ leaked' = [leaked EXCEPT ![i] = @ + 1]
      /\ ReleasePermit(r, i, "idle")
      /\ at' = [at EXCEPT ![r] = NoInstance]
      /\ tries' = [tries EXCEPT ![r] = 0]
      /\ UNCHANGED in_flight
  BY <1>1 DEF CancelReading, Leave
<1>3. /\ available' \in [Instances -> Nat]
      /\ waiters' \in [Instances -> Seq(Requests)]
      /\ pc' \in [Requests -> RequestPc]
      /\ at' \in [Requests -> Instances \cup {NoInstance}]
      /\ pc'[r] = "idle"
      /\ \A s \in Requests \ {r} :
           /\ at'[s] = at[s]
           /\ pc'[s] = pc[s] \/ (pc[s] = "queued" /\ pc'[s] = "granted")
      /\ Queues' /\ PermitsConserved'
  BY <1>1, <1>2, ReleaseKeeps DEF HoldingPc
<1>4. /\ Counted(i)' = Counted(i) \ {r} /\ r \in Counted(i)
      /\ \A j \in Instances \ {i} : Counted(j)' = Counted(j)
      /\ Counted(i) \in SUBSET Requests
  BY <1>1, <1>2, <1>3 DEF Counted
<1>5. /\ Cardinality(Counted(i)') = Cardinality(Counted(i)) - 1
      /\ Cardinality(Counted(i)) \in Nat
  BY <1>4, RequestSets
<1>6. RequestTypes' /\ Placed'
  <2>1. 0 \in 0 .. PickRetries /\ 0 < PickRetries
    BY PoolAssumption DEF PoolAssumption
  <2>2. tries' \in [Requests -> 0 .. PickRetries] /\ leaked' \in [Instances -> Nat]
    BY <1>2, <2>1 DEF RequestTypes
  <2>3. RequestTypes'
    BY <1>2, <1>3, <2>2 DEF RequestTypes
  <2>4. Placed'
    BY <1>2, <1>3, <2>1 DEF RequestTypes, Placed
  <2> QED
    BY <2>3, <2>4
<1>7. InFlightAccounted'
  <2> SUFFICES ASSUME NEW j \in Instances
               PROVE  in_flight'[j] = Cardinality(Counted(j)') + leaked'[j]
    BY DEF InFlightAccounted
  <2>1. CASE j = i
    BY <2>1, <1>2, <1>5 DEF InFlightAccounted, RequestTypes
  <2>2. CASE j # i
    BY <2>2, <1>2, <1>4 DEF InFlightAccounted, RequestTypes
  <2> QED
    BY <2>1, <2>2
<1> QED
  BY <1>3, <1>6, <1>7

(* Taking the k-th entry out of a sequence.                                *)
LEMMA WithoutEntry ==
  ASSUME NEW S, NEW q \in Seq(S), NEW k \in 1 .. Len(q)
  PROVE  LET w == SubSeq(q, 1, k - 1) \o SubSeq(q, k + 1, Len(q))
         IN  /\ w \in Seq(S)
             /\ Len(w) = Len(q) - 1
             /\ \A m \in 1 .. Len(w) : w[m] = IF m < k THEN q[m] ELSE q[m + 1]
<1> DEFINE a == SubSeq(q, 1, k - 1)
           b == SubSeq(q, k + 1, Len(q))
<1>1. a \in Seq(S) /\ Len(a) = k - 1 /\ \A m \in 1 .. k - 1 : a[m] = q[m]
  OBVIOUS
<1>2. /\ b \in Seq(S) /\ Len(b) = Len(q) - k
      /\ \A m \in 1 .. Len(q) - k : b[m] = q[m + k]
  OBVIOUS
<1> HIDE DEF a, b
<1>3. /\ a \o b \in Seq(S) /\ Len(a \o b) = Len(q) - 1
      /\ \A m \in 1 .. Len(q) - 1 :
           (a \o b)[m] = IF m <= k - 1 THEN a[m] ELSE b[m - (k - 1)]
  <2>1. a \o b \in Seq(S) /\ Len(a \o b) = Len(a) + Len(b)
    <3> SUFFICES \A x, y \in Seq(S) : x \o y \in Seq(S) /\ Len(x \o y) = Len(x) + Len(y)
      BY <1>1, <1>2
    <3> QED
      OBVIOUS
  <2>2. \A m \in 1 .. Len(a) + Len(b) :
          (a \o b)[m] = IF m <= Len(a) THEN a[m] ELSE b[m - Len(a)]
    BY <1>1, <1>2
  <2> QED
    BY <1>1, <1>2, <2>1, <2>2
<1>4. \A m \in 1 .. Len(q) - 1 : (a \o b)[m] = IF m < k THEN q[m] ELSE q[m + 1]
  <2> SUFFICES ASSUME NEW m \in 1 .. Len(q) - 1
               PROVE  (a \o b)[m] = IF m < k THEN q[m] ELSE q[m + 1]
    OBVIOUS
  <2>0. Len(q) \in Nat /\ k \in Nat /\ m \in Nat
    OBVIOUS
  <2>1. CASE m < k
    <3>1. m <= k - 1 /\ m \in 1 .. k - 1
      BY <2>0, <2>1
    <3> QED
      BY <1>1, <1>3, <2>1, <3>1
  <2>2. CASE ~(m < k)
    <3> DEFINE n == m - (k - 1)
    <3>1. /\ ~(m <= k - 1) /\ n \in 1 .. Len(q) - k /\ n + k = m + 1
      BY <2>0, <2>2
    <3>2. (a \o b)[m] = b[n]
      BY <1>3, <3>1
    <3>3. b[n] = q[n + k]
      BY <1>2, <3>1
    <3> QED
      BY <2>2, <3>1, <3>2, <3>3
  <2> QED
    BY <2>1, <2>2
<1> QED
  BY <1>3, <1>4 DEF a, b

(* A waiter that gives up leaves the queue, and its permit to the next.    *)
LEMMA CancelQueuedKeeps ==
  ASSUME RequestInv, NEW r \in Requests, CancelQueued(r)
  PROVE  RequestInv'
<1> USE DEF RequestInv
<1>1. PICK i \in Instances : i = at[r]
  BY DEF CancelQueued, Placed
<1> DEFINE q == waiters[i]
<1>2. PICK k \in 1 .. Len(q) :
        /\ q[k] = r
        /\ waiters' = [waiters EXCEPT ![i] = SubSeq(q, 1, k - 1) \o SubSeq(q, k + 1, Len(q))]
  <2>1. DOMAIN q = 1 .. Len(q)
    BY DEF RequestTypes
  <2> QED
    BY <1>1, <2>1 DEF CancelQueued
<1>3. /\ pc[r] = "queued" /\ pc' = [pc EXCEPT ![r] = "idle"]
      /\ at' = [at EXCEPT ![r] = NoInstance]
      /\ tries' = [tries EXCEPT ![r] = 0]
      /\ UNCHANGED <<in_flight, available, leaked>>
  BY DEF CancelQueued, poolVars
<1>4. q \in Seq(Requests) /\ Len(q) \in Nat
  BY DEF RequestTypes
<1>5. /\ waiters'[i] \in Seq(Requests)
      /\ Len(waiters'[i]) = Len(q) - 1
      /\ \A m \in 1 .. Len(waiters'[i]) : waiters'[i][m] = IF m < k THEN q[m] ELSE q[m + 1]
      /\ \A j \in Instances \ {i} : waiters'[j] = waiters[j]
      /\ waiters' \in [Instances -> Seq(Requests)]
  BY <1>2, <1>4, WithoutEntry DEF RequestTypes
<1>6. /\ pc'[r] = "idle"
      /\ \A s \in Requests \ {r} : pc'[s] = pc[s] /\ at'[s] = at[s]
  BY <1>3 DEF RequestTypes
<1>7. RequestTypes' /\ Placed'
  <2>1. /\ pc' \in [Requests -> RequestPc]
        /\ at' \in [Requests -> Instances \cup {NoInstance}]
    BY <1>3 DEF RequestTypes, RequestPc
  <2>2. tries' \in [Requests -> 0 .. PickRetries]
    BY <1>3, PoolAssumption DEF RequestTypes, PoolAssumption
  <2>3. Placed'
    BY <1>3, PoolAssumption DEF RequestTypes, Placed, PoolAssumption
  <2> QED
    BY <1>3, <1>5, <2>1, <2>2, <2>3 DEF RequestTypes
<1>8. Queues'
  <2> SUFFICES ASSUME NEW j \in Instances
               PROVE  /\ \A m \in 1 .. Len(waiters'[j]) :
                           pc'[waiters'[j][m]] = "queued" /\ at'[waiters'[j][m]] = j
                      /\ \A m, l \in 1 .. Len(waiters'[j]) :
                           waiters'[j][m] = waiters'[j][l] => m = l
    BY DEF Queues
  <2>1. CASE j = i
    <3>1. \A m \in 1 .. Len(q) : q[m] \in Requests /\ (m # k => q[m] # r)
      BY <1>2, <1>4 DEF Queues
    <3>2. \A m \in 1 .. Len(q) : m # k => pc'[q[m]] = "queued" /\ at'[q[m]] = i
      BY <1>6, <3>1 DEF Queues
    <3>3. \A m \in 1 .. Len(waiters'[i]) :
            \E n \in 1 .. Len(q) : n # k /\ waiters'[i][m] = q[n]
                                  /\ n = IF m < k THEN m ELSE m + 1
      BY <1>4, <1>5
    <3>4. \A m \in 1 .. Len(waiters'[i]) :
            pc'[waiters'[i][m]] = "queued" /\ at'[waiters'[i][m]] = i
      BY <3>2, <3>3
    <3>5. \A m, l \in 1 .. Len(waiters'[i]) : waiters'[i][m] = waiters'[i][l] => m = l
      <4> SUFFICES ASSUME NEW m \in 1 .. Len(waiters'[i]), NEW l \in 1 .. Len(waiters'[i]),
                          waiters'[i][m] = waiters'[i][l]
                   PROVE  m = l
        OBVIOUS
      <4>1. PICK n \in 1 .. Len(q) :
              waiters'[i][m] = q[n] /\ n = IF m < k THEN m ELSE m + 1
        BY <3>3
      <4>2. PICK o \in 1 .. Len(q) :
              waiters'[i][l] = q[o] /\ o = IF l < k THEN l ELSE l + 1
        BY <3>3
      <4>3. n = o
        <5>1. \A a, b \in 1 .. Len(q) : q[a] = q[b] => a = b
          BY DEF Queues
        <5>2. q[n] = q[o]
          BY <4>1, <4>2
        <5> QED
          BY <5>1, <5>2
      <4>4. m \in Nat /\ l \in Nat /\ k \in Nat
        BY <1>4, <1>5
      <4> QED
        BY <4>1, <4>2, <4>3, <4>4
    <3> QED
      BY <2>1, <3>4, <3>5
  <2>2. CASE j # i
    <3>1. waiters'[j] = waiters[j]
      BY <1>5, <2>2
    <3>2. \A m \in 1 .. Len(waiters[j]) : waiters[j][m] \in Requests \ {r}
      BY <1>1, <2>2, WaitersWait
    <3>3. \A m \in 1 .. Len(waiters[j]) :
            pc'[waiters[j][m]] = "queued" /\ at'[waiters[j][m]] = j
      BY <1>6, <3>2 DEF Queues
    <3> QED
      BY <3>1, <3>3 DEF Queues
  <2> QED
    BY <2>1, <2>2
<1>9. PermitsConserved'
  <2>1. \A j \in Instances : Holders(j)' = Holders(j)
    BY <1>3, <1>6 DEF Holders, HoldingPc
  <2>2. available[i] = 0
    BY <1>2, <1>4 DEF PermitsConserved, RequestTypes
  <2> QED
    BY <1>3, <1>5, <2>1, <2>2 DEF PermitsConserved
<1>10. InFlightAccounted'
  BY <1>3, <1>6, CountKeeps DEF CountedPc
<1> QED
  BY <1>7, <1>8, <1>9, <1>10

(* Every step of a request keeps RequestInv.                               *)
LEMMA RequestStepKeeps ==
  ASSUME RequestInv, NEW r \in Requests,
         Pick(r) \/ RequestStep(r) \/ Cancel(r) \/ Answer503(r)
  PROVE  RequestInv'
<1>1. CASE RequestStep(r)
  BY <1>1, PickKeeps, AcquireKeeps, StatusStaleKeeps, CountInKeeps, DropCountOutKeeps,
     ReturnKeeps DEF RequestStep
<1>2. CASE Cancel(r)
  BY <1>2, CancelQueuedKeeps, ReturnKeeps, CancelReadingKeeps DEF Cancel
<1> QED
  BY <1>1, <1>2, PickKeeps

-----------------------------------------------------------------------------
(* The count notification *)

(* A request about to notify does not lose its place to others' steps.     *)
LEMMA NotifierStays ==
  ASSUME RequestInv, NEW r \in Requests,
         Pick(r) \/ RequestStep(r) \/ Cancel(r) \/ Answer503(r)
  PROVE  \A s \in Requests : pc[s] = "notify" =>
           \/ pc'[s] = "notify" /\ at'[s] = at[s]
           \/ s = r /\ DropNotify(r)
<1> USE DEF RequestInv
<1>1. ASSUME NEW i \in Instances, NEW next, ReleasePermit(r, i, next),
             pc[r] \in HoldingPc, at' = [at EXCEPT ![r] = NoInstance]
      PROVE  \A s \in Requests \ {r} :
               pc[s] = "notify" => pc'[s] = "notify" /\ at'[s] = at[s]
  BY <1>1, ReleaseShape DEF RequestTypes
<1>2. CASE StatusStale(r)
  BY <1>1, <1>2 DEF StatusStale, Placed, HoldingPc
<1>3. CASE CancelGranted(r) \/ CancelReading(r) \/ DropNotify(r)
  BY <1>1, <1>3 DEF CancelGranted, CancelReading, DropNotify, Leave, Placed, HoldingPc
<1>4. CASE DropServed(r)
  <2>1. at[r] \in Instances /\ pc[r] = "uncounted" /\ pc[r] \in HoldingPc
    BY <1>4 DEF DropServed, Placed, HoldingPc
  <2>2. CASE Leave(r, at[r])
    BY <1>1, <2>1, <2>2 DEF Leave
  <2>3. CASE pc' = [pc EXCEPT ![r] = "notify"] /\ UNCHANGED at
    BY <2>1, <2>3 DEF RequestTypes
  <2> QED
    BY <1>4, <2>2, <2>3 DEF DropServed
<1>5. CASE Pick(r) \/ Answer503(r)
  BY <1>5 DEF Pick, PickLeastLoaded, NoActiveInstance, Answer503, RequestTypes
<1>6. CASE AcquirePermit(r) \/ StatusPasses(r) \/ CountIn(r) \/ ReadBrowser(r)
           \/ DropCountOut(r)
  BY <1>6 DEF AcquirePermit, StatusPasses, CountIn, ReadBrowser, DropCountOut, RequestTypes
<1>7. CASE CancelQueued(r)
  BY <1>7 DEF CancelQueued, RequestTypes
<1> QED
  BY <1>2, <1>3, <1>4, <1>5, <1>6, <1>7 DEF RequestStep, Cancel

(* No notification is owed at the start.                                   *)
LEMMA RecycleInit == Init => RecycleInv
  BY PoolAssumption DEF Init, RecycleInv, PoolAssumption

(* The steps of a request keep a due notification stored or on its way.    *)
LEMMA RecycleRequestKeeps ==
  ASSUME RequestInv, RecycleInv, NEW r \in Requests,
         Pick(r) \/ RequestStep(r) \/ Cancel(r) \/ Answer503(r)
  PROVE  RecycleInv'
<1>1. UNCHANGED mpc
  BY RequestsKeepManagers DEF managerVars
<1>2. CASE DropServed(r)
  <2>1. PICK i \in Instances : i = at[r]
    BY <1>2 DEF DropServed, RequestInv, Placed
  <2>2. PICK n \in Nat : n = Bumped(served[i])
    BY PoolAssumption DEF RecycleInv, Bumped, PoolAssumption
  <2>3. /\ pc[r] = "uncounted" /\ served' = [served EXCEPT ![i] = n]
        /\ UNCHANGED notified
        /\ OverThreshold(n) => pc' = [pc EXCEPT ![r] = "notify"] /\ UNCHANGED at
    BY <1>2, <2>1, <2>2 DEF DropServed
  <2>4. RecycleAfter > 0 /\ n >= RecycleAfter => pc'[r] = "notify" /\ at'[r] = i
    BY <2>1, <2>3 DEF OverThreshold, RequestInv, RequestTypes
  <2>5. \A s \in Requests : pc[s] = "notify" => pc'[s] = "notify" /\ at'[s] = at[s]
    BY <2>3, NotifierStays DEF DropNotify
  <2> QED
    BY <1>1, <2>3, <2>4, <2>5 DEF RecycleInv
<1>3. CASE DropNotify(r)
  <2>1. PICK i \in Instances : i = at[r]
    BY <1>3 DEF DropNotify, RequestInv, Placed
  <2>2. notified' = [notified EXCEPT ![i] = TRUE] /\ UNCHANGED served
    BY <1>3, <2>1 DEF DropNotify
  <2>3. notified' \in [Instances -> BOOLEAN]
    BY <2>2 DEF RecycleInv
  <2>4. notified'[i] /\ \A j \in Instances \ {i} : notified'[j] = notified[j]
    BY <2>2 DEF RecycleInv
  <2>5. \A s \in Requests :
          pc[s] = "notify" /\ at[s] # i => pc'[s] = "notify" /\ at'[s] = at[s]
    BY <2>1, NotifierStays
  <2> QED
    BY <1>1, <2>2, <2>3, <2>4, <2>5 DEF RecycleInv
<1>4. CASE ~DropServed(r) /\ ~DropNotify(r)
  <2>1. UNCHANGED <<served, notified>>
    BY <1>4 DEF Pick, PickLeastLoaded, NoActiveInstance, RequestStep, AcquirePermit,
       StatusPasses, StatusStale, CountIn, ReadBrowser, DropCountOut, Cancel,
       CancelQueued, CancelGranted, CancelReading, Answer503, instanceVars
  <2>2. \A s \in Requests : pc[s] = "notify" => pc'[s] = "notify" /\ at'[s] = at[s]
    BY <1>4, NotifierStays
  <2> QED
    BY <1>1, <2>1, <2>2 DEF RecycleInv
<1> QED
  BY <1>2, <1>3, <1>4

(* So do the steps of a manager.                                           *)
LEMMA RecycleManagerKeeps ==
  ASSUME ManagerInv, RecycleInv, NEW i \in Instances,
         LaunchReturns \/ LaunchInstance(i) \/ ManagerStep(i) \/ TriggerAge(i)
           \/ ChromiumDies(i)
  PROVE  RecycleInv'
<1>1. UNCHANGED <<pc, at>>
  BY ManagersKeepRequests DEF slotVars
<1>2. CASE LaunchReturns \/ ChromiumDies(i)
  BY <1>1, <1>2 DEF LaunchReturns, ChromiumDies, instanceVars, RecycleInv
<1>3. CASE LaunchInstance(i)
  <2>1. mpc[i] = "unborn"
    BY <1>3, PoolAssumption DEF LaunchInstance, ManagerInv, ManagerTypes, LaunchOrder, Instances
  <2> QED
    BY <1>1, <1>3, <2>1 DEF LaunchInstance, RecycleInv, ManagerInv, ManagerTypes
<1>4. CASE TriggerCrash(i) \/ TriggerAge(i) \/ TriggerCount(i)
  <2>1. /\ mpc' = [mpc EXCEPT ![i] = "acquire"]
        /\ UNCHANGED served
        /\ notified' = notified \/ notified' = [notified EXCEPT ![i] = FALSE]
    BY <1>4 DEF TriggerCrash, TriggerAge, TriggerCount, TakeOutOfService, ManagerAt
  <2>2. notified' \in [Instances -> BOOLEAN]
    BY <2>1 DEF RecycleInv
  <2>3. mpc'[i] = "acquire"
        /\ \A j \in Instances \ {i} : notified'[j] = notified[j] /\ mpc'[j] = mpc[j]
    BY <2>1 DEF RecycleInv, ManagerInv, ManagerTypes
  <2> QED
    BY <1>1, <2>1, <2>2, <2>3 DEF RecycleInv
<1>5. CASE StaleNotification(i)
  <2>1. /\ notified' = [notified EXCEPT ![i] = FALSE]
        /\ ~(RecycleAfter > 0 /\ served[i] >= RecycleAfter)
        /\ UNCHANGED <<served, mpc>>
    BY <1>5 DEF StaleNotification, OverThreshold
  <2>2. notified' \in [Instances -> BOOLEAN]
        /\ \A j \in Instances \ {i} : notified'[j] = notified[j]
    BY <2>1 DEF RecycleInv
  <2> QED
    BY <1>1, <2>1, <2>2 DEF RecycleInv
<1>6. CASE AcquireToken(i) \/ DrainCompletes(i) \/ DrainTimesOut(i) \/ LaunchSucceeds(i)
  <2>1. /\ \E to \in {"tokenwait", "drain", "launch", "overrun", "locked"} : mpc' = [mpc EXCEPT ![i] = to]
        /\ UNCHANGED <<served, notified>>
    BY <1>6 DEF AcquireToken, DrainCompletes, DrainTimesOut, LaunchSucceeds,
                ManagerMoves, ManagerAt, AfterToken
  <2> QED
    BY <1>1, <2>1 DEF RecycleInv, ManagerInv, ManagerTypes
<1>7. CASE SwapBrowser(i)
  BY <1>1, <1>7, PoolAssumption
  DEF SwapBrowser, ManagerAt, RecycleInv, ManagerInv, ManagerTypes, PoolAssumption
<1>8. CASE BackInService(i)
  <2>1. mpc[i] = "swapped" /\ UNCHANGED <<served, notified>>
    BY <1>8 DEF BackInService
  <2>2. \A k \in Instances \ {i} :
          mpc'[k] = mpc[k] \/ mpc'[k] \in {"launch", "drain"}
    BY <1>8 DEF BackInService, AfterToken, ManagerInv, ManagerTypes
  <2> QED
    BY <1>1, <2>1, <2>2 DEF RecycleInv
<1> QED
  BY <1>2, <1>3, <1>4, <1>5, <1>6, <1>7, <1>8 DEF ManagerStep

-----------------------------------------------------------------------------
(* The theorems *)

(* Every step keeps the invariant.                                         *)
LEMMA PoolInvInductive == PoolInv /\ [Next]_vars => PoolInv'
<1> SUFFICES ASSUME PoolInv, [Next]_vars PROVE PoolInv'
  OBVIOUS
<1> USE DEF PoolInv
<1>1. ASSUME NEW r \in Requests,
             Pick(r) \/ RequestStep(r) \/ Cancel(r) \/ Answer503(r)
      PROVE  PoolInv'
  BY <1>1, RequestStepKeeps, RecycleRequestKeeps, RequestsKeepManagers, ManagerStutter
<1>2. ASSUME NEW i \in Instances,
             LaunchReturns \/ LaunchInstance(i) \/ ManagerStep(i) \/ TriggerAge(i)
               \/ ChromiumDies(i)
      PROVE  PoolInv'
  BY <1>2, ManagerStepKeeps, RecycleManagerKeeps, ManagersKeepRequests, RequestStutter
<1>3. CASE UNCHANGED vars
  <2>1. UNCHANGED slotVars /\ UNCHANGED managerVars
    BY <1>3 DEF vars, instanceVars, poolVars, requestVars, slotVars, managerVars
  <2>2. RecycleInv'
    BY <1>3 DEF vars, instanceVars, requestVars, RecycleInv
  <2> QED
    BY <2>1, <2>2, RequestStutter, ManagerStutter
<1>4. 0 \in Instances
  BY PoolAssumption DEF PoolAssumption, Instances
<1> QED
  BY <1>1, <1>2, <1>3, <1>4 DEF Next

(* What holds of the pool (pool.rs) between any two steps: requests and    *)
(* slots, managers and token, and the notification.                        *)
THEOREM PoolInvariant == Spec => []PoolInv
<1>1. Init => PoolInv
  BY RequestInit, ManagerInit, RecycleInit DEF PoolInv
<1> QED
  BY <1>1, PoolInvInductive, PTL DEF Spec

(* The pool is type correct: the unsigned counters in_flight and the       *)
(* semaphore's permits never go below zero, whatever requests and managers *)
(* do.                                                                     *)
THEOREM PoolTypeOK == Spec => []TypeOK
<1>1. PoolInv => TypeOK
  BY DEF PoolInv, RequestInv, ManagerInv, RecycleInv, RequestTypes, ManagerTypes, TypeOK
<1> QED
  BY <1>1, PoolInvariant, PTL

(* No page slot is lost or made up by checkouts, re-picks, cancellations   *)
(* and drops (Semaphore permits of pool.rs).                               *)
THEOREM PoolPermits == Spec => []PermitsConserved
<1>1. PoolInv => PermitsConserved
  BY DEF PoolInv, RequestInv
<1> QED
  BY <1>1, PoolInvariant, PTL

(* in_flight is the number of counted captures plus the leaked counts: a   *)
(* drain that sees zero has no counted capture under it.                   *)
THEOREM PoolInFlight == Spec => []InFlightAccounted
<1>1. PoolInv => InFlightAccounted
  BY DEF PoolInv, RequestInv
<1> QED
  BY <1>1, PoolInvariant, PTL

(* Replacements are serialised by recycle_token, and an instance whose     *)
(* manager watches is in service.                                          *)
THEOREM PoolOneReplacement == Spec => []OneReplacement
<1>1. PoolInv => OneReplacement
  BY DEF PoolInv, ManagerInv, ServiceWatched, TokenHeld, OneReplacement, Replacing
<1> QED
  BY <1>1, PoolInvariant, PTL

(* A drop that reaches the request threshold always has the manager's      *)
(* notification stored or about to be stored: no recycle is lost.          *)
THEOREM PoolNoLostRecycle == Spec => []NoLostRecycle
<1>1. PoolInv => NoLostRecycle
  BY DEF PoolInv, RecycleInv, NoLostRecycle
<1> QED
  BY <1>1, PoolInvariant, PTL

-----------------------------------------------------------------------------
(* Pool implements LeasePool *)

Lessees == [i \in Instances |-> Holders(i)]

(* Giving a permit of i back returns the slot, or hands it to a request    *)
(* that holds none.                                                        *)
LEMMA ReleaseLeases ==
  ASSUME RequestInv,
         NEW r \in Requests, NEW i \in Instances, NEW next \in {"idle", "refused"},
         pc[r] \in HoldingPc, at[r] = i,
         ReleasePermit(r, i, next), at' = [at EXCEPT ![r] = NoInstance],
         Replacing' = Replacing
  PROVE  Leases!Return(r, i) \/ \E s \in Requests : Leases!HandOver(r, s, i)
<1> USE DEF RequestInv
<1>1. r \in Holders(i) /\ i # NoInstance
  BY PoolAssumption DEF Holders, Instances, NoInstance, PoolAssumption
<1>2. CASE pc' = [pc EXCEPT ![r] = next]
  <2>1. Holders(i)' = Holders(i) \ {r}
    BY <1>1, <1>2 DEF Holders, HoldingPc, RequestTypes
  <2>2. \A j \in Instances \ {i} : Holders(j)' = Holders(j)
    BY <1>1, <1>2 DEF Holders, HoldingPc, RequestTypes
  <2>3. Lessees' = [Lessees EXCEPT ![i] = @ \ {r}]
    BY <2>1, <2>2 DEF Lessees
  <2> QED
    BY <1>1, <2>3 DEF Leases!Return, Lessees
<1>3. ASSUME NEW h \in Requests, h # r, pc[h] = "queued", at[h] = i,
             pc' = [pc EXCEPT ![r] = next, ![h] = "granted"]
      PROVE  Leases!HandOver(r, h, i)
  <2>1. Holders(i)' = (Holders(i) \ {r}) \cup {h}
    BY <1>1, <1>3 DEF Holders, HoldingPc, RequestTypes
  <2>2. \A j \in Instances \ {i} : Holders(j)' = Holders(j)
    BY <1>1, <1>3 DEF Holders, HoldingPc, RequestTypes
  <2>3. \A j \in Instances : h \notin Holders(j)
    BY <1>3 DEF Holders, HoldingPc
  <2>4. Lessees' = [Lessees EXCEPT ![i] = (@ \ {r}) \cup {h}]
    BY <2>1, <2>2 DEF Lessees
  <2> QED
    BY <1>1, <2>3, <2>4 DEF Leases!HandOver, Leases!Free, Lessees
<1> QED
  BY <1>2, <1>3, ReleaseShape

(* The Cardinality that LeasePool takes from FiniteSets is the one here.   *)
LEMMA LeasesCardinality == \A S : Leases!Cardinality(S) = Cardinality(S)
  BY DEF Leases!Cardinality, Cardinality

(* The steps of a request lease, return or change nothing of LeasePool.    *)
LEMMA RequestLeases ==
  ASSUME PoolInv, NEW r \in Requests,
         Pick(r) \/ RequestStep(r) \/ Cancel(r) \/ Answer503(r)
  PROVE  Leases!Next \/ UNCHANGED Leases!leaseVars
<1> USE DEF PoolInv, RequestInv
<1>1. Replacing' = Replacing
  BY RequestsKeepManagers DEF managerVars, Replacing
<1>2. ASSUME \A i \in Instances : Holders(i)' = Holders(i)
      PROVE  UNCHANGED Leases!leaseVars
  BY <1>1, <1>2 DEF Leases!leaseVars
<1>3. ASSUME NEW i \in Instances, NEW next \in {"idle", "refused"},
             pc[r] \in HoldingPc, at[r] = i,
             ReleasePermit(r, i, next), at' = [at EXCEPT ![r] = NoInstance]
      PROVE  Leases!Next
  <2>1. Leases!Return(r, i) \/ \E s \in Requests : Leases!HandOver(r, s, i)
    BY <1>1, <1>3, ReleaseLeases
  <2> QED
    BY <2>1 DEF Leases!Next
<1>4. CASE AcquirePermit(r)
  <2>1. PICK i \in Instances : i = at[r]
    BY <1>4 DEF AcquirePermit, Placed
  <2>2. pc[r] = "picked" /\ UNCHANGED at
    BY <1>4 DEF AcquirePermit
  <2>3. CASE HasPermit(i)
    <3>1. pc' = [pc EXCEPT ![r] = "granted"] /\ available[i] > 0
      BY <1>4, <2>1, <2>3 DEF AcquirePermit, HasPermit
    <3>2. Holders(i)' = Holders(i) \cup {r}
      BY <2>1, <2>2, <3>1 DEF Holders, HoldingPc, RequestTypes
    <3>3. \A j \in Instances \ {i} : Holders(j)' = Holders(j)
      BY <2>1, <2>2, <3>1 DEF Holders, HoldingPc, RequestTypes
    <3>4. \A j \in Instances : r \notin Holders(j)
      BY <2>2 DEF Holders, HoldingPc
    <3>5. Cardinality(Holders(i)) < Pages
      <4>1. Holders(i) \in SUBSET Requests
        BY DEF Holders
      <4>2. Cardinality(Holders(i)) \in Nat
        BY <4>1, RequestSets
      <4> QED
        BY <3>1, <4>2, PoolAssumption DEF PermitsConserved, RequestTypes, PoolAssumption
    <3>6. Lessees' = [Lessees EXCEPT ![i] = @ \cup {r}]
      BY <3>2, <3>3 DEF Lessees
    <3>7. Leases!Lease(r, i)
      <4>1. Leases!Free(r)
        BY <3>4 DEF Leases!Free
      <4>2. Leases!Cardinality([j \in Instances |-> Holders(j)][i]) < Pages
        BY <3>5, LeasesCardinality
      <4> QED
        BY <1>1, <3>6, <4>1, <4>2 DEF Leases!Lease, Lessees
    <3> QED
      BY <3>7 DEF Leases!Next
  <2>4. CASE ~HasPermit(i)
    <3>1. pc' = [pc EXCEPT ![r] = "queued"]
      BY <1>4, <2>1, <2>4 DEF AcquirePermit
    <3>2. \A j \in Instances : Holders(j)' = Holders(j)
      BY <2>2, <3>1 DEF Holders, HoldingPc, RequestTypes
    <3> QED
      BY <1>2, <3>2
  <2> QED
    BY <2>3, <2>4
<1>5. CASE StatusStale(r)
  <2>1. PICK i \in Instances : i = at[r]
    BY <1>5 DEF StatusStale, Placed
  <2>2. PICK next \in {"idle", "refused"} :
          next = IF tries[r] + 1 = PickRetries THEN "refused" ELSE "idle"
    OBVIOUS
  <2>3. pc[r] \in HoldingPc /\ ReleasePermit(r, i, next) /\ at' = [at EXCEPT ![r] = NoInstance]
    BY <1>5, <2>1, <2>2 DEF StatusStale, HoldingPc
  <2> QED
    BY <1>3, <2>1, <2>3
<1>6. CASE CancelGranted(r) \/ CancelReading(r) \/ DropNotify(r) \/ DropServed(r)
  <2>1. PICK i \in Instances : i = at[r]
    BY <1>6 DEF CancelGranted, CancelReading, DropNotify, DropServed, Placed
  <2>2. pc[r] \in HoldingPc
    BY <1>6 DEF CancelGranted, CancelReading, DropNotify, DropServed, HoldingPc
  <2>3. CASE Leave(r, i)
    BY <1>3, <2>1, <2>2, <2>3 DEF Leave
  <2>4. CASE pc' = [pc EXCEPT ![r] = "notify"] /\ UNCHANGED at
    <3>1. \A j \in Instances : Holders(j)' = Holders(j)
      BY <2>2, <2>4 DEF Holders, HoldingPc, RequestTypes
    <3> QED
      BY <1>2, <3>1
  <2> QED
    BY <1>6, <2>1, <2>3, <2>4 DEF CancelGranted, CancelReading, DropNotify, DropServed
<1>7. CASE StatusPasses(r) \/ CountIn(r) \/ ReadBrowser(r) \/ DropCountOut(r)
  <2>1. \A j \in Instances : Holders(j)' = Holders(j)
    BY <1>7 DEF StatusPasses, CountIn, ReadBrowser, DropCountOut, Holders, HoldingPc,
                RequestTypes
  <2> QED
    BY <1>2, <2>1
<1>8. CASE Pick(r) \/ Answer503(r) \/ CancelQueued(r)
  <2>1. pc[r] \notin HoldingPc /\ \E p \in {"idle", "picked", "refused"} :
          pc' = [pc EXCEPT ![r] = p]
    BY <1>8 DEF Pick, PickLeastLoaded, NoActiveInstance, Answer503, CancelQueued, HoldingPc
  <2>2. \A s \in Requests \ {r} : at'[s] = at[s]
    BY <1>8 DEF Pick, PickLeastLoaded, NoActiveInstance, Answer503, CancelQueued, RequestTypes
  <2>3. \A j \in Instances : Holders(j)' = Holders(j)
    BY <2>1, <2>2 DEF Holders, HoldingPc, RequestTypes
  <2> QED
    BY <1>2, <2>3
<1> QED
  BY <1>4, <1>5, <1>6, <1>7, <1>8 DEF RequestStep, Cancel

(* The steps of a manager replace, restore or change nothing of LeasePool. *)
LEMMA ManagerLeases ==
  ASSUME PoolInv, NEW i \in Instances,
         LaunchReturns \/ LaunchInstance(i) \/ ManagerStep(i) \/ TriggerAge(i)
           \/ ChromiumDies(i)
  PROVE  Leases!Next \/ UNCHANGED Leases!leaseVars
<1> USE DEF PoolInv, ManagerInv
<1>1. \A j \in Instances : Holders(j)' = Holders(j)
  BY ManagersKeepRequests DEF slotVars, Holders
<1>2. ASSUME Replacing' = Replacing
      PROVE  UNCHANGED Leases!leaseVars
  BY <1>1, <1>2 DEF Leases!leaseVars
<1>3. CASE LaunchReturns \/ LaunchInstance(i) \/ ChromiumDies(i) \/ StaleNotification(i)
           \/ TriggerCrash(i) \/ TriggerAge(i) \/ TriggerCount(i)
  <2>1. CASE LaunchInstance(i)
    <3>1. mpc[i] = "unborn"
      BY <2>1, PoolAssumption DEF LaunchInstance, LaunchOrder, PoolAssumption, Instances
    <3> QED
      BY <1>2, <2>1, <3>1 DEF LaunchInstance, ManagerTypes, Replacing
  <2> QED
    BY <1>2, <1>3, <2>1
    DEF LaunchReturns, ChromiumDies, StaleNotification, TriggerCrash, TriggerAge,
        TriggerCount, TakeOutOfService, ManagerAt, instanceVars, ManagerTypes, Replacing
<1>4. CASE DrainCompletes(i) \/ DrainTimesOut(i) \/ LaunchSucceeds(i) \/ SwapBrowser(i)
  <2>1. Replacing' = Replacing
    BY <1>4 DEF DrainCompletes, DrainTimesOut, LaunchSucceeds, ManagerMoves, SwapBrowser,
                ManagerAt, ManagerTypes, Replacing
  <2> QED
    BY <1>2, <2>1
<1>5. CASE AcquireToken(i)
  <2>1. CASE TokenFree(i)
    <3>1. Replacing = {}
      BY <2>1, PoolAssumption
      DEF TokenFree, TokenHeld, Replacing, Instances, NoInstance, PoolAssumption
    <3>2. Replacing' = {i}
      BY <1>5, <2>1, <3>1 DEF AcquireToken, ManagerAt, AfterToken, ManagerTypes, Replacing
    <3>3. Leases!BeginReplace(i)
      BY <1>1, <3>1, <3>2 DEF Leases!BeginReplace
    <3> QED
      BY <3>3 DEF Leases!Next
  <2>2. CASE ~TokenFree(i)
    <3>1. Replacing' = Replacing
      BY <1>5, <2>2 DEF AcquireToken, ManagerAt, ManagerTypes, Replacing
    <3> QED
      BY <1>2, <3>1
  <2> QED
    BY <2>1, <2>2
<1>6. CASE BackInService(i)
  <2>1. Replacing = {i}
    BY <1>6 DEF BackInService, TokenHeld, Replacing
  <2>2. Replacing' \in {{}} \cup {{j} : j \in Instances \ {i}}
    <3>1. CASE tokenQueue = <<>>
      <4>1. mpc' = [mpc EXCEPT ![i] = "watch"]
        BY <1>6, <3>1 DEF BackInService
      <4>2. Replacing' = {}
        BY <2>1, <4>1 DEF Replacing, ManagerTypes
      <4> QED
        BY <4>2
    <3>2. CASE tokenQueue # <<>>
      <4>1. PICK j \in Instances \ {i} : j = Head(tokenQueue)
        BY <1>6, <3>2 DEF BackInService, ManagerTypes, TokenQueued
      <4>2. mpc' = [mpc EXCEPT ![i] = "watch", ![j] = AfterToken(j)]
        BY <1>6, <3>2, <4>1 DEF BackInService
      <4>3. Replacing' = {j}
        BY <2>1, <4>2 DEF Replacing, ManagerTypes, AfterToken
      <4> QED
        BY <4>3
    <3> QED
      BY <3>1, <3>2
  <2>3. Leases!EndReplace(i)
    BY <1>1, <2>1, <2>2 DEF Leases!EndReplace
  <2> QED
    BY <2>3 DEF Leases!Next
<1> QED
  BY <1>3, <1>4, <1>5, <1>6 DEF ManagerStep

(* The pool implements what LeasePool promises its callers: never more     *)
(* than Pages requests on an instance, one slot per request, and one       *)
(* replacement at a time.                                                  *)
THEOREM PoolImplementsLeases == Spec => ImplementsLeases
<1>1. Init => Leases!Init
  <2> SUFFICES ASSUME Init PROVE Leases!Init
    OBVIOUS
  <2>1. \A i \in Instances : Holders(i) = {}
    BY DEF Init, Holders, HoldingPc
  <2>2. Replacing = {}
    BY DEF Init, Replacing
  <2> QED
    BY <2>1, <2>2 DEF Leases!Init
<1>2. PoolInv /\ [Next]_vars => [Leases!Next]_Leases!leaseVars
  <2> SUFFICES ASSUME PoolInv, [Next]_vars PROVE Leases!Next \/ UNCHANGED Leases!leaseVars
    OBVIOUS
  <2>1. CASE UNCHANGED vars
    BY <2>1 DEF vars, instanceVars, requestVars, Leases!leaseVars, Holders, Replacing
  <2>2. 0 \in Instances
    BY PoolAssumption DEF PoolAssumption, Instances
  <2> QED
    BY <2>1, <2>2, RequestLeases, ManagerLeases DEF Next
<1> QED
  BY <1>1, <1>2, PoolInvariant, PTL DEF Spec, ImplementsLeases, Leases!Spec
=============================================================================
