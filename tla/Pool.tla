-------------------------------- MODULE Pool --------------------------------
(***************************************************************************)
(* The browser pool of src/src/pool.rs: checkout and drop of page slots by *)
(* concurrent requests, one manager task per chromium instance, the        *)
(* recycle token, the count notification and start-up.                     *)
(*                                                                         *)
(* tokio's Semaphore, Notify, RwLock and oneshot are modelled by what the  *)
(* pool relies on: FIFO permits handed to the first waiter, one stored     *)
(* notification, a writer that excludes readers, a disconnect that stays   *)
(* signalled until it is read.                                             *)
(***************************************************************************)
EXTENDS Integers, Sequences, FiniteSets

CONSTANTS
  PoolSize,       \* chromium instances
  Pages,          \* pages_per_instance
  Requests,       \* tasks that call checkout, over and over
  RecycleAfter,   \* recycle_after_requests, 0 = count recycling off
  AgeRecycle,     \* TRUE when recycle_after is set
  CrashPossible,  \* TRUE when chromium may die by itself
  PickRetries,    \* CHECKOUT_PICK_RETRIES
  MaxLeaks        \* bound: cancellations that leak an in_flight count

ASSUME PoolAssumption ==
  /\ PoolSize \in Nat \ {0}
  /\ Pages \in Nat \ {0}
  /\ RecycleAfter \in Nat
  /\ PickRetries \in Nat \ {0}
  /\ MaxLeaks \in Nat
  /\ AgeRecycle \in BOOLEAN
  /\ CrashPossible \in BOOLEAN
  /\ IsFiniteSet(Requests)

Instances == 0 .. PoolSize - 1
NoInstance == -1

VARIABLES
  \* one value per instance
  status,     \* Instance.status
  in_flight,  \* Instance.in_flight
  served,     \* Instance.served, saturating at the threshold
  notified,   \* recycle_notify holds a notification
  available,  \* permits.available_permits()
  waiters,    \* tasks queued on permits, first in first out
  crashed,    \* disconnect_rx is signalled
  mpc,        \* where the manager task stands in manage_instance
  leaked,     \* history: counts that no Checkout will ever give back
  \* the pool
  token,      \* the instance whose manager holds recycle_token
  tokenQueue, \* managers queued on recycle_token
  launched,   \* instances BrowserPool::launch has started
  ready,      \* launch has returned; callers may check out
  \* one value per request
  pc,         \* where the request stands in checkout / drop
  at,         \* the instance it picked
  tries       \* picks used up by this checkout

instanceVars == <<status, in_flight, served, notified, available, waiters,
                  crashed, mpc, leaked>>
poolVars == <<token, tokenQueue, launched, ready>>
requestVars == <<pc, at, tries>>
vars == <<instanceVars, poolVars, requestVars>>

Status == {"Active", "Draining", "Down"}
ManagerPc == {"unborn", "watch", "acquire", "tokenwait", "drain", "launch",
              "overrun", "locked", "swapped"}
RequestPc == {"idle", "picked", "queued", "granted", "passed", "reading",
              "leased", "uncounted", "notify", "refused"}

Init ==
  /\ status = [i \in Instances |-> "Down"]
  /\ in_flight = [i \in Instances |-> 0]
  /\ served = [i \in Instances |-> 0]
  /\ notified = [i \in Instances |-> FALSE]
  /\ available = [i \in Instances |-> Pages]
  /\ waiters = [i \in Instances |-> <<>>]
  /\ crashed = [i \in Instances |-> FALSE]
  /\ mpc = [i \in Instances |-> "unborn"]
  /\ leaked = [i \in Instances |-> 0]
  /\ token = NoInstance
  /\ tokenQueue = <<>>
  /\ launched = 0
  /\ ready = FALSE
  /\ pc = [r \in Requests |-> "idle"]
  /\ at = [r \in Requests |-> NoInstance]
  /\ tries = [r \in Requests |-> 0]

-----------------------------------------------------------------------------
(* Start-up: instances one after the other, each with its manager already  *)
(* running; checkout has no pool to call before launch returns.            *)

LaunchInstance(i) ==
  /\ launched = i
  /\ launched' = i + 1
  /\ status' = [status EXCEPT ![i] = "Active"]
  /\ mpc' = [mpc EXCEPT ![i] = "watch"]
  /\ UNCHANGED <<in_flight, served, notified, available, waiters, crashed,
                 leaked, token, tokenQueue, ready, requestVars>>

LaunchReturns ==
  /\ launched = PoolSize
  /\ ~ready
  /\ ready' = TRUE
  /\ UNCHANGED <<instanceVars, token, tokenQueue, launched, requestVars>>

-----------------------------------------------------------------------------
(* checkout and Checkout::drop *)

ActiveInstances == {i \in Instances : status[i] = "Active"}

(* max_by_key over available_permits keeps the last of several maxima. *)
LeastLoaded(i) ==
  /\ i \in ActiveInstances
  /\ \A j \in ActiveInstances :
       \/ available[j] < available[i]
       \/ available[j] = available[i] /\ j <= i

MutReleasePermit(r, i, next) ==    \* mutant: the waiter is not woken
  /\ available' = [available EXCEPT ![i] = @ + 1]
  /\ pc' = [pc EXCEPT ![r] = next]
  /\ UNCHANGED waiters

(* Request r gives a permit of i back and goes on at "next": the first      *)
(* waiter gets the permit, without one it is free again.                    *)
ReleasePermit(r, i, next) ==
  IF waiters[i] = <<>>
  THEN /\ available' = [available EXCEPT ![i] = @ + 1]
       /\ pc' = [pc EXCEPT ![r] = next]
       /\ UNCHANGED waiters
  ELSE /\ waiters' = [waiters EXCEPT ![i] = Tail(@)]
       /\ pc' = [pc EXCEPT ![r] = next, ![Head(waiters[i])] = "granted"]
       /\ UNCHANGED available

(* r gives its permit of i back and is done with this checkout. *)
Leave(r, i) ==
  /\ ReleasePermit(r, i, "idle")
  /\ at' = [at EXCEPT ![r] = NoInstance]
  /\ tries' = [tries EXCEPT ![r] = 0]

PickLeastLoaded(r) ==
  /\ ready
  /\ pc[r] = "idle"
  /\ \E i \in Instances :
       /\ LeastLoaded(i)
       /\ at' = [at EXCEPT ![r] = i]
  /\ pc' = [pc EXCEPT ![r] = "picked"]
  /\ UNCHANGED <<instanceVars, poolVars, tries>>

NoActiveInstance(r) ==
  /\ ready
  /\ pc[r] = "idle"
  /\ ActiveInstances = {}
  /\ pc' = [pc EXCEPT ![r] = "refused"]
  /\ UNCHANGED <<instanceVars, poolVars, at, tries>>

(* The caller turns Err(()) into a 503; the task may come back later. *)
Answer503(r) ==
  /\ pc[r] = "refused"
  /\ pc' = [pc EXCEPT ![r] = "idle"]
  /\ at' = [at EXCEPT ![r] = NoInstance]
  /\ tries' = [tries EXCEPT ![r] = 0]
  /\ UNCHANGED <<instanceVars, poolVars>>

MutHasPermit(i) == available[i] >= 0    \* mutant: off by one
HasPermit(i) == available[i] > 0

AcquirePermit(r) ==
  LET i == at[r] IN
  /\ pc[r] = "picked"
  /\ IF HasPermit(i)
     THEN /\ available' = [available EXCEPT ![i] = @ - 1]
          /\ pc' = [pc EXCEPT ![r] = "granted"]
          /\ UNCHANGED waiters
     ELSE /\ waiters' = [waiters EXCEPT ![i] = Append(@, r)]
          /\ pc' = [pc EXCEPT ![r] = "queued"]
          /\ UNCHANGED available
  /\ UNCHANGED <<status, in_flight, served, notified, crashed, mpc,
                 leaked, poolVars, at, tries>>

StatusPasses(r) ==
  /\ pc[r] = "granted"
  /\ status[at[r]] = "Active"
  /\ pc' = [pc EXCEPT ![r] = "passed"]
  /\ UNCHANGED <<instanceVars, poolVars, at, tries>>

MutStatusStale(r) ==    \* mutant: picks again and keeps the permit
  /\ pc[r] = "granted"
  /\ status[at[r]] # "Active"
  /\ pc' = [pc EXCEPT ![r] = "idle"]
  /\ at' = [at EXCEPT ![r] = NoInstance]
  /\ UNCHANGED <<instanceVars, poolVars, tries>>

(* The instance left service while the request waited: give the permit     *)
(* back and pick again, at most PickRetries times in all.                  *)
StatusStale(r) ==
  /\ pc[r] = "granted"
  /\ status[at[r]] # "Active"
  /\ ReleasePermit(r, at[r],
                   IF tries[r] + 1 = PickRetries THEN "refused" ELSE "idle")
  /\ tries' = [tries EXCEPT ![r] = @ + 1]
  /\ at' = [at EXCEPT ![r] = NoInstance]
  /\ UNCHANGED <<status, in_flight, served, notified, crashed, mpc, leaked, poolVars>>

CountIn(r) ==
  /\ pc[r] = "passed"
  /\ in_flight' = [in_flight EXCEPT ![at[r]] = @ + 1]
  /\ pc' = [pc EXCEPT ![r] = "reading"]
  /\ UNCHANGED <<status, served, notified, available, waiters, crashed, mpc,
                 leaked, poolVars, at, tries>>

(* inner.read() waits while the manager swaps the browser under inner.write() *)
WriteLocked(i) == mpc[i] = "locked"

ReadBrowser(r) ==
  /\ pc[r] = "reading"
  /\ ~WriteLocked(at[r])
  /\ pc' = [pc EXCEPT ![r] = "leased"]
  /\ UNCHANGED <<instanceVars, poolVars, at, tries>>

(* The checkout future is dropped (admission timeout, client gone) while it *)
(* waits for a permit, or with a permit it was handed and has not yet seen  *)
(* (a permit taken at once is not seen by anybody else before it goes back). *)
CancelQueued(r) ==
  /\ pc[r] = "queued"
  /\ LET q == waiters[at[r]]
     IN  \E k \in DOMAIN q :
           /\ q[k] = r
           /\ waiters' = [waiters EXCEPT ![at[r]] =
                SubSeq(q, 1, k - 1) \o SubSeq(q, k + 1, Len(q))]
  /\ pc' = [pc EXCEPT ![r] = "idle"]
  /\ at' = [at EXCEPT ![r] = NoInstance]
  /\ tries' = [tries EXCEPT ![r] = 0]
  /\ UNCHANGED <<status, in_flight, served, notified, available, crashed, mpc,
                 leaked, poolVars>>

CancelGranted(r) ==
  /\ pc[r] = "granted"
  /\ Leave(r, at[r])
  /\ UNCHANGED <<status, in_flight, served, notified, crashed, mpc, leaked, poolVars>>

(* Dropped at inner.read().await: the permit goes back, but in_flight was  *)
(* counted and no Checkout exists to count it out again.                   *)
CancelReading(r) ==
  /\ pc[r] = "reading"
  /\ WriteLocked(at[r])
  /\ leaked[at[r]] < MaxLeaks
  /\ leaked' = [leaked EXCEPT ![at[r]] = @ + 1]
  /\ Leave(r, at[r])
  /\ UNCHANGED <<status, in_flight, served, notified, crashed, mpc, poolVars>>

MutDropCountOut(r) ==    \* mutant: in_flight is not counted down
  /\ pc[r] = "leased"
  /\ pc' = [pc EXCEPT ![r] = "uncounted"]
  /\ UNCHANGED <<instanceVars, poolVars, at, tries>>

(* Checkout::drop, on every way out of a capture. *)
DropCountOut(r) ==
  /\ pc[r] = "leased"
  /\ in_flight' = [in_flight EXCEPT ![at[r]] = @ - 1]
  /\ pc' = [pc EXCEPT ![r] = "uncounted"]
  /\ UNCHANGED <<status, served, notified, available, waiters, crashed, mpc,
                 leaked, poolVars, at, tries>>

Bumped(n) == IF n < RecycleAfter THEN n + 1 ELSE n
MutOverThreshold(n) == RecycleAfter > 0 /\ n > RecycleAfter    \* mutant: off by one
OverThreshold(n) == RecycleAfter > 0 /\ n >= RecycleAfter

(* served.fetch_add; below the threshold the permit goes back at once.     *)
DropServed(r) ==
  LET i == at[r]
      n == Bumped(served[i])
  IN
  /\ pc[r] = "uncounted"
  /\ served' = [served EXCEPT ![i] = n]
  /\ IF OverThreshold(n)
     THEN pc' = [pc EXCEPT ![r] = "notify"] /\ UNCHANGED <<available, waiters, at, tries>>
     ELSE Leave(r, i)
  /\ UNCHANGED <<status, in_flight, notified, crashed, mpc, leaked, poolVars>>

DropNotify(r) ==
  /\ pc[r] = "notify"
  /\ notified' = [notified EXCEPT ![at[r]] = TRUE]
  /\ Leave(r, at[r])
  /\ UNCHANGED <<status, in_flight, served, crashed, mpc, leaked, poolVars>>

-----------------------------------------------------------------------------
(* manage_instance: one task per instance *)

ManagerAt(i, from, to) ==
  /\ mpc[i] = from
  /\ mpc' = [mpc EXCEPT ![i] = to]

(* wait_for_trigger returns and set_status takes the instance out of       *)
(* service: Down after a crash, Draining for an age or a count recycle.    *)
TakeOutOfService(i, new) ==
  /\ ManagerAt(i, "watch", "acquire")
  /\ status' = [status EXCEPT ![i] = new]
  /\ UNCHANGED <<in_flight, served, available, waiters, crashed, leaked,
                 poolVars, requestVars>>

TriggerCrash(i) == crashed[i] /\ TakeOutOfService(i, "Down") /\ UNCHANGED notified
TriggerAge(i) == AgeRecycle /\ TakeOutOfService(i, "Draining") /\ UNCHANGED notified

TriggerCount(i) ==
  /\ notified[i]
  /\ notified' = [notified EXCEPT ![i] = FALSE]
  /\ OverThreshold(served[i])
  /\ TakeOutOfService(i, "Draining")

(* A notification from before the last replacement: keep waiting. *)
StaleNotification(i) ==
  /\ mpc[i] = "watch"
  /\ notified[i]
  /\ ~OverThreshold(served[i])
  /\ notified' = [notified EXCEPT ![i] = FALSE]
  /\ UNCHANGED <<status, in_flight, served, available, waiters, crashed, mpc,
                 leaked, poolVars, requestVars>>

(* A crashed browser (the one whose instance is Down) has nothing to drain. *)
AfterToken(i) == IF status[i] = "Down" THEN "launch" ELSE "drain"

MutTokenFree(i) ==    \* mutant: the token is taken for the launch, not for the drain
  token = NoInstance \/ mpc[token] = "drain"
TokenFree(i) == token = NoInstance

AcquireToken(i) ==
  /\ IF TokenFree(i)
     THEN /\ ManagerAt(i, "acquire", AfterToken(i))
          /\ token' = i
          /\ UNCHANGED tokenQueue
     ELSE /\ ManagerAt(i, "acquire", "tokenwait")
          /\ tokenQueue' = Append(tokenQueue, i)
          /\ UNCHANGED token
  /\ UNCHANGED <<status, in_flight, served, notified, available, waiters,
                 crashed, leaked, launched, ready, requestVars>>

(* A step of the manager that changes nothing but its own position. *)
ManagerMoves(i, from, to) ==
  /\ ManagerAt(i, from, to)
  /\ UNCHANGED <<status, in_flight, served, notified, available, waiters,
                 crashed, leaked, poolVars, requestVars>>

(* drain polls in_flight until it is zero or drain_timeout is over; in the *)
(* latter case the launch goes ahead over requests in flight.              *)
DrainCompletes(i) == in_flight[i] = 0 /\ ManagerMoves(i, "drain", "launch")
DrainTimesOut(i)  == in_flight[i] > 0 /\ ManagerMoves(i, "drain", "overrun")

(* A launch that fails backs off and tries again, which changes no state   *)
(* here; the one that succeeds goes on to take inner.write().              *)
LaunchSucceeds(i) == \E from \in {"launch", "overrun"} : ManagerMoves(i, from, "locked")

MutSwapBrowser(i) ==    \* mutant: the old disconnect receiver is kept
  /\ ManagerAt(i, "locked", "swapped")
  /\ served' = [served EXCEPT ![i] = 0]
  /\ UNCHANGED <<status, in_flight, notified, available, waiters, crashed,
                 leaked, poolVars, requestVars>>

(* The new browser and its disconnect receiver replace the old ones, and   *)
(* served restarts.                                                        *)
SwapBrowser(i) ==
  /\ ManagerAt(i, "locked", "swapped")
  /\ crashed' = [crashed EXCEPT ![i] = FALSE]
  /\ served' = [served EXCEPT ![i] = 0]
  /\ UNCHANGED <<status, in_flight, notified, available, waiters, leaked,
                 poolVars, requestVars>>

MutBackInService(i) ==    \* mutant: the permit is freed and nobody in line gets it
  /\ ManagerAt(i, "swapped", "watch")
  /\ status' = [status EXCEPT ![i] = "Active"]
  /\ token' = NoInstance
  /\ UNCHANGED <<in_flight, served, notified, available, waiters, crashed,
                 leaked, tokenQueue, launched, ready, requestVars>>

(* Back in service; the token goes to the next manager in line, if any.    *)
BackInService(i) ==
  /\ mpc[i] = "swapped"
  /\ status' = [status EXCEPT ![i] = "Active"]
  /\ IF tokenQueue = <<>>
     THEN /\ token' = NoInstance
          /\ mpc' = [mpc EXCEPT ![i] = "watch"]
          /\ UNCHANGED tokenQueue
     ELSE LET j == Head(tokenQueue) IN
          /\ token' = j
          /\ mpc' = [mpc EXCEPT ![i] = "watch", ![j] = AfterToken(j)]
          /\ tokenQueue' = Tail(tokenQueue)
  /\ UNCHANGED <<in_flight, served, notified, available, waiters, crashed,
                 leaked, launched, ready, requestVars>>

(* Chromium dies. Only a browser the manager has not given up on matters: *)
(* the disconnect of one about to be replaced is never read.              *)
ChromiumDies(i) ==
  /\ CrashPossible
  /\ ~crashed[i]
  /\ mpc[i] \in {"watch", "swapped"}
  /\ crashed' = [crashed EXCEPT ![i] = TRUE]
  /\ UNCHANGED <<status, in_flight, served, notified, available, waiters, mpc,
                 leaked, poolVars, requestVars>>

-----------------------------------------------------------------------------
ManagerStep(i) ==
  \/ TriggerCrash(i) \/ TriggerCount(i) \/ StaleNotification(i)
  \/ AcquireToken(i) \/ DrainCompletes(i) \/ DrainTimesOut(i)
  \/ LaunchSucceeds(i) \/ SwapBrowser(i) \/ BackInService(i)

(* What a request does once it has begun, up to giving its slot back. *)
RequestStep(r) ==
  \/ AcquirePermit(r) \/ StatusPasses(r) \/ StatusStale(r)
  \/ CountIn(r) \/ ReadBrowser(r)
  \/ DropCountOut(r) \/ DropServed(r) \/ DropNotify(r)

Pick(r) == PickLeastLoaded(r) \/ NoActiveInstance(r)
Cancel(r) == CancelQueued(r) \/ CancelGranted(r) \/ CancelReading(r)

Next ==
  \/ LaunchReturns
  \/ \E i \in Instances :
       \/ LaunchInstance(i)
       \/ ManagerStep(i) \/ TriggerAge(i) \/ ChromiumDies(i)
  \/ \E r \in Requests :
       Pick(r) \/ RequestStep(r) \/ Cancel(r) \/ Answer503(r)

Spec == Init /\ [][Next]_vars

(* The runtime polls every task that can make progress; captures end by    *)
(* their total deadline; a launch that is retried for ever succeeds in the *)
(* end. Requests need not arrive, chromium need not die, nobody need       *)
(* cancel.                                                                 *)
Fairness ==
  /\ WF_vars(LaunchReturns)
  /\ \A i \in Instances :
       /\ WF_vars(LaunchInstance(i))
       /\ WF_vars(ManagerStep(i))
  /\ \A r \in Requests :
       /\ WF_vars(RequestStep(r))
       /\ SF_vars(ReadBrowser(r))    \* a fair RwLock
       /\ WF_vars(tries[r] > 0 /\ Pick(r))

FairSpec == Spec /\ Fairness

-----------------------------------------------------------------------------
(* Properties *)

HoldingPc == {"granted", "passed", "reading", "leased", "uncounted", "notify"}
Holders(i) == {r \in Requests : pc[r] \in HoldingPc /\ at[r] = i}
Counted(i) == {r \in Requests : pc[r] \in {"reading", "leased"} /\ at[r] = i}
Replacing ==
  {i \in Instances : mpc[i] \in {"drain", "launch", "overrun", "locked", "swapped"}}

(* The type invariant: every counter stays in range, in particular the     *)
(* unsigned in_flight and available never go below zero.                   *)
TypeOK ==
  /\ status \in [Instances -> Status]
  /\ in_flight \in [Instances -> Nat]
  /\ served \in [Instances -> Nat]
  /\ notified \in [Instances -> BOOLEAN]
  /\ available \in [Instances -> Nat]
  /\ waiters \in [Instances -> Seq(Requests)]
  /\ crashed \in [Instances -> BOOLEAN]
  /\ mpc \in [Instances -> ManagerPc]
  /\ leaked \in [Instances -> Nat]
  /\ token \in Instances \cup {NoInstance}
  /\ tokenQueue \in Seq(Instances)
  /\ launched \in 0 .. PoolSize
  /\ ready \in BOOLEAN
  /\ pc \in [Requests -> RequestPc]
  /\ at \in [Requests -> Instances \cup {NoInstance}]
  /\ tries \in [Requests -> 0 .. PickRetries]

(* No page slot is lost or made up: through hand-over, stale re-picks,     *)
(* cancellations and recycles, the free permits of an instance and the     *)
(* requests that hold one add up to Pages, and nobody queues while a       *)
(* permit is free.                                                         *)
PermitsConserved ==
  \A i \in Instances :
    /\ available[i] + Cardinality(Holders(i)) = Pages
    /\ available[i] > 0 => waiters[i] = <<>>

(* in_flight counts the captures on the instance, and the counts leaked by *)
(* checkouts cancelled at inner.read(): drain can never see zero while a   *)
(* counted capture still runs, and sees more than zero only for a capture  *)
(* or a leak.                                                              *)
InFlightAccounted ==
  \A i \in Instances : in_flight[i] = Cardinality(Counted(i)) + leaked[i]

(* recycle_token serialises replacements: whoever drains, relaunches or    *)
(* swaps holds the token, is alone in doing so, and is out of service.     *)
OneReplacement ==
  /\ \A i \in Replacing : token = i /\ status[i] # "Active"
  /\ \A i \in Instances : mpc[i] = "watch" => status[i] = "Active"

(* No lost wake-up of a manager: when an instance in service is over its   *)
(* request threshold, a notification is stored, or a drop is about to      *)
(* store it.                                                               *)
NoLostRecycle ==
  \A i \in Instances :
    mpc[i] = "watch" /\ RecycleAfter > 0 /\ served[i] >= RecycleAfter
      => notified[i] \/ \E r \in Requests : pc[r] = "notify" /\ at[r] = i

(* The pool implements the lease promise: holders of a permit are the      *)
(* lessees, managers past the token are the replacements under way.        *)
Leases == INSTANCE LeasePool
            WITH lessees <- [i \in Instances |-> Holders(i)],
                 replacing <- Replacing
ImplementsLeases == Leases!Spec

(* Every instance taken out of service comes back.                         *)
ComesBack ==
  \A i \in Instances : ready /\ status[i] # "Active" ~> status[i] = "Active"

(* An instance over its request threshold is recycled: the count restarts. *)
RecycledAtThreshold ==
  \A i \in Instances :
    RecycleAfter > 0 /\ served[i] >= RecycleAfter ~> served[i] < RecycleAfter

(* A browser that died is replaced.                                        *)
CrashRepaired == \A i \in Instances : crashed[i] ~> ~crashed[i]

(* A checkout returns: with a slot, with an error, or because its caller   *)
(* gave up. Nobody starves in the permit queue, nor by re-picking.         *)
InCheckout(r) ==
  \/ pc[r] \in {"picked", "queued", "granted", "passed", "reading"}
  \/ pc[r] = "idle" /\ tries[r] > 0
CheckoutReturns == \A r \in Requests : InCheckout(r) ~> ~InCheckout(r)

(* pool.rs:14-15: "with pool_size >= 2 callers never observe a recycle".   *)
(* Refuted: both instances may be out of service at once.                  *)
CallersNeverObserveRecycle ==
  PoolSize >= 2 => \A r \in Requests : pc[r] # "refused"

(* capture.rs:533-534: a cancelled capture leaves the counters accurate.   *)
(* Refuted: in_flight is left one too high.                                *)
InFlightAccurate ==
  \A i \in Instances : in_flight[i] = Cardinality(Counted(i))

(* pool.rs:459-460: "Last Arc<Browser> ref ... (after drain there are no   *)
(* other holders)". Refuted: a request that passed the status check before *)
(* the drain began counts itself in after the drain saw zero, takes the    *)
(* old browser, and loses its profile directory at the swap.               *)
DrainedHasNoHolders ==
  \A i \in Instances :
    mpc[i] = "launch" /\ status[i] = "Draining"
      => \A r \in Requests : pc[r] = "leased" => at[r] # i
=============================================================================
