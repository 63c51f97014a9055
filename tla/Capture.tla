------------------------------- MODULE Capture -------------------------------
(***************************************************************************)
(* One capture from end to end (src/src/browser/mod.rs, capture): a fresh  *)
(* browser context, a page in it, the overrides, the collect loop, the     *)
(* caller's waits and script, the reads, and the detached teardown; all of *)
(* it under the deadline that src/src/capture.rs puts around the future.   *)
(* A CDP command may fail wherever one is sent; then the future returns    *)
(* early, and when the deadline passes it is dropped where it stands.      *)
(***************************************************************************)
EXTENDS Collect

CONSTANT Options   \* the requests to consider

ASSUME OptionsAssumption ==
  Options \subseteq [page : SUBSET Ids, reports : Nat, lean : BOOLEAN,
                     untilLoad : BOOLEAN, initiators : BOOLEAN,
                     httpErrors : BOOLEAN, resources : BOOLEAN,
                     har : BOOLEAN, imageSizing : BOOLEAN, securityScan : BOOLEAN,
                     waitFor : Seq(Patterns), waits : Nat]

VARIABLES
  context,    \* the browser context of this capture
  teardown,   \* the detached task that closes the page and the context
  waits_left, \* wait_for_element and wait_for_function still to come
  stat        \* what the capture knows of its resources

captureVars == <<context, teardown, waits_left, stat>>
localVars == <<pageVars, loopVars>>
vars == <<opts, now, pc, deadline, localVars, captureVars>>

TotalDeadline == Timeout + Buffer
Running == {"context", "page", "apply", "goto", "select", "finalize", "waits", "read"}
Ended == {"returned", "failed", "cut"}

(* The stages of phase B that derive from the list, each under a flag of   *)
(* its own, and how many resources each has seen.                          *)
Readers == {"cors", "images", "har"}
Wanted(reader) == CASE reader = "cors"   -> opts.securityScan
                    [] reader = "images" -> opts.imageSizing
                    [] reader = "har"    -> opts.har
NoStat == [count |-> 0, failed |-> 0, listed |-> 0, seen |-> [r \in Readers |-> 0]]

Init ==
  /\ opts \in Options
  /\ now = 0 /\ pc = "context" /\ deadline = 0
  /\ LocalsAtStart
  /\ context = "none" /\ teardown = "none"
  /\ waits_left = opts.waits
  /\ stat = NoStat

-----------------------------------------------------------------------------
(* The stages.                                                             *)

GoTo(from, to) == pc = from /\ pc' = to

CreateContext ==
  /\ GoTo("context", "page")
  /\ context' = "open"
  /\ UNCHANGED <<deadline, localVars, teardown, waits_left, stat>>

NewPage ==
  /\ GoTo("page", "apply")
  /\ UNCHANGED <<deadline, localVars, captureVars>>

(* All overrides are set before the navigation starts. *)
Apply ==
  /\ GoTo("apply", "goto")
  /\ UNCHANGED <<deadline, localVars, captureVars>>

Navigated ==
  /\ pc = "goto"
  /\ deadline' = now + Timeout
  /\ UNCHANGED <<streams, pending, gateVars, resources, abortVars, httpVars,
                 heard, satisfied, pageVars, captureVars>>
  /\ LoopTop

(* Cookies, screenshot and coverage are read, then the list is summed up   *)
(* and freed if no later stage reads it.                                   *)
FinalizeCollect ==
  /\ GoTo("finalize", "waits")
  /\ deadline' = now + Timeout
  /\ stat' = IF opts.lean THEN NoStat
             ELSE [stat EXCEPT !.count = Cardinality(Retained),
                               !.failed = IF opts.httpErrors THEN FailedCount ELSE 0,
                               !.listed = IF FreeResources THEN 0
                                          ELSE Cardinality(Retained)]
  /\ DropLocals
  /\ UNCHANGED <<context, teardown, waits_left>>

MutWaitMatches ==    \* mutant: waits once more than asked
  /\ pc = "waits" /\ waits_left >= 0
  /\ waits_left' = waits_left - 1
  /\ deadline' = now + Timeout
  /\ UNCHANGED <<pc, localVars, context, teardown, stat>>

(* wait_for_selector and wait_for_function: each has the whole timeout. *)
WaitMatches ==
  /\ pc = "waits" /\ waits_left > 0
  /\ waits_left' = waits_left - 1
  /\ deadline' = now + Timeout
  /\ UNCHANGED <<pc, localVars, context, teardown, stat>>

WaitTimesOut ==
  /\ waits_left > 0 /\ now >= deadline
  /\ GoTo("waits", "failed")
  /\ UNCHANGED <<deadline, localVars, captureVars>>

WaitsDone ==
  /\ waits_left = 0
  /\ GoTo("waits", "read")
  /\ UNCHANGED <<deadline, localVars, captureVars>>

(* Each stage that was asked for sees the list as it is; then the list is  *)
(* cleared unless the caller asked for it.                                 *)
Derived == [stat EXCEPT !.seen = [r \in Readers |-> IF Wanted(r) THEN stat.listed ELSE 0],
                        !.listed = IF opts.resources THEN @ ELSE 0]

MutFormat ==    \* mutant: the page is dropped, no teardown is spawned
  /\ GoTo("read", "returned")
  /\ stat' = Derived
  /\ UNCHANGED <<deadline, localVars, context, teardown, waits_left>>

(* The user script ran, the reads of phase A are in, phase B derives from  *)
(* the list, and the teardown is spawned.                                  *)
Format ==
  /\ GoTo("read", "returned")
  /\ stat' = Derived
  /\ teardown' = "close"
  /\ UNCHANGED <<deadline, localVars, context, waits_left>>

(* A CDP command fails and `?` returns its error. *)
CommandFails ==
  /\ \E stage \in {"context", "page", "apply", "goto", "finalize", "read"} :
       GoTo(stage, "failed")
  /\ DropLocals
  /\ UNCHANGED <<deadline, captureVars>>

(* tokio::time::timeout drops the future. *)
CutOff ==
  /\ pc \in Running /\ now >= TotalDeadline
  /\ pc' = "cut"
  /\ DropLocals
  /\ UNCHANGED <<deadline, captureVars>>

(* The detached task; what fails there is ignored. *)
ClosePage ==
  /\ teardown = "close" /\ teardown' = "dispose"
  /\ UNCHANGED <<pc, deadline, localVars, context, waits_left, stat>>

DisposeContext ==
  /\ teardown = "dispose" /\ teardown' = "done"
  /\ context' \in {"disposed", "orphaned"}
  /\ UNCHANGED <<pc, deadline, localVars, waits_left, stat>>

Teardown == (ClosePage \/ DisposeContext) /\ UNCHANGED <<opts, now>>
Cut == CutOff /\ UNCHANGED <<opts, now>>

Stage == /\ \/ CreateContext \/ NewPage \/ Apply \/ Navigated \/ FinalizeCollect
            \/ WaitMatches \/ WaitTimesOut \/ WaitsDone \/ Format \/ CommandFails
         /\ UNCHANGED <<opts, now>>

Tick == /\ now < TotalDeadline /\ now' = now + 1
        /\ UNCHANGED <<opts, pc, deadline, localVars, captureVars>>

Stopped == /\ pc \in Ended /\ teardown \in {"none", "done"} /\ now = TotalDeadline
           /\ UNCHANGED vars

Next == \/ Stage \/ Cut \/ Teardown \/ Tick \/ Stopped
        \/ CollectStep /\ UNCHANGED captureVars
        \/ PageStep /\ UNCHANGED <<opts, now, pc, deadline, captureVars>>

(* Time passes, the timer of the deadline fires, and a detached task's     *)
(* commands are answered or fail.  Nothing is owed by the page.            *)
Fairness == WF_vars(Tick) /\ WF_vars(Cut) /\ WF_vars(Teardown)

Spec == Init /\ [][Next]_vars
FairSpec == Spec /\ Fairness

-----------------------------------------------------------------------------
Entries == [url : Ids \cup {None}, status : Statuses \cup {0},
            sized : BOOLEAN, initiator : BOOLEAN]
Times == 0 .. TotalDeadline

(* Every variable keeps its type; in particular the streams that are not   *)
(* registered stay empty.                                                  *)
TypeOK ==
  /\ opts \in Options /\ now \in Times
  /\ pc \in Running \cup Ended
  /\ wire \in [Ids -> {"unused", "new", "sent", "moved", "resent",
                   "answered", "finished", "failed"}]
  /\ \A s \in StreamNames : s \notin Subscribed => streams[s] = << >>
  /\ Len(pending) <= Len(opts.waitFor)
  /\ last_event_at \in Times /\ stop_at \in 0 .. TotalDeadline + Timeout
  /\ {load_at, idle_at} \subseteq Times \cup {Never}
  /\ DOMAIN resources \subseteq Ids
  /\ \A id \in DOMAIN resources : resources[id] \in Entries
  /\ sent_at \in [Ids -> Times \cup {Never}]
  /\ quick_aborts \subseteq Ids
  /\ document.id \in Documents \cup {None}
  /\ final_url \in Documents \cup {None} /\ redirects \in Nat
  /\ context \in {"none", "open", "disposed", "orphaned"}
  /\ teardown \in {"none", "close", "dispose", "done"}
  /\ waits_left \in 0 .. opts.waits

(* The loop never leaves early: when it stops of itself, the timeout has   *)
(* passed, or the gate has fired, every pattern has been taken, and the    *)
(* streams have been quiet since the last event or the tail is used up.    *)
ExitIsEarned ==
  [][pc' = "finalize" /\ pc # pc' =>
       \/ now >= deadline'
       \/ /\ GateAt' # Never /\ pending' = << >>
          /\ \/ now >= GateAt' + PostIdleGrace
             \/ now >= Later(last_event_at', GateAt') + QuietGrace]_vars

(* A page that keeps chattering cannot hold the loop: once an event has    *)
(* been handled at or after the end of the tail, or of the timeout, no     *)
(* other one is handled.                                                   *)
TailBounded ==
  [][HandleEvent =>
       /\ last_event_at < deadline
       /\ GateAt # Never /\ pending = << >> =>
            last_event_at < GateAt + PostIdleGrace]_vars

(* What a history of handled events says of its request.  The size is kept *)
(* when something had been recorded before; an abort is quick when it came *)
(* soon after the last send the loop had handled by then.                  *)
Heard(h, kinds) == \E k \in DOMAIN h : h[k].kind \in kinds
HeardBefore(h, k, kinds) == \E m \in DOMAIN h : m < k /\ h[m].kind \in kinds
LatestOf(h, k, kind) == /\ k \in DOMAIN h /\ h[k].kind = kind
                        /\ \A m \in DOMAIN h : k < m => h[m].kind # kind
LastBefore(h, m, k, kind) == /\ m \in DOMAIN h /\ m < k /\ h[m].kind = kind
                             /\ \A n \in DOMAIN h : m < n /\ n < k => h[n].kind # kind
Starts == {"request", "response"}
Sized(h) == \E k \in DOMAIN h : h[k].kind = "finished" /\ HeardBefore(h, k, Starts)
Aborted(h) ==
  \E k \in DOMAIN h :
    /\ h[k].kind = "failed" /\ h[k].event.canceled
    /\ \E m \in DOMAIN h : /\ LastBefore(h, m, k, "request")
                           /\ h[k].event.ts - h[m].event.ts < QuickAbort
FailuresOf(id) == {k \in DOMAIN failures : failures[k].id = id}

Count(seq, x) == Cardinality({k \in DOMAIN seq : seq[k] = x})

(* A pattern is pending until one response that contains it takes it, and  *)
(* a response takes one pattern: those pending and those taken are the     *)
(* ones asked for, duplicates included, and no pseudo URL takes any.       *)
PatternsAccounted ==
  /\ \A p \in Patterns :
       Count(pending, p) + Cardinality({k \in DOMAIN satisfied : satisfied[k].pattern = p})
         = Count(opts.waitFor, p)
  /\ \A k \in DOMAIN satisfied :
       /\ satisfied[k].pattern \in Matching[satisfied[k].id]
       /\ satisfied[k].id \in Real
       /\ Heard(heard[satisfied[k].id], {"response"})

(* The list is what the handled events say, taken in the order they were   *)
(* handled.  An entry is there when its request or response was seen and   *)
(* it was not aborted quickly; it has the status of the last response and  *)
(* an initiator when a request was seen, in whatever order these came.     *)
(* The order decides three things: the size (kept by an entry that was     *)
(* there), whether an abort was quick, and whether a failure has a URL.    *)
(* Every other failure of a real request is counted, once.                 *)
ReportFollowsEvents ==
  ~opts.lean =>
    \A id \in Real : LET h == heard[id] IN
      /\ id \in Retained <=> Heard(h, Starts) /\ ~Aborted(h)
      /\ Recorded(id) =>
           /\ resources[id].url = id
           /\ resources[id].status # 0 <=> Heard(h, {"response"})
           /\ \A k \in DOMAIN h :
                LatestOf(h, k, "response") => resources[id].status = h[k].event.status
           /\ resources[id].initiator <=> Heard(h, {"request"})
           /\ resources[id].sized <=> Sized(h)
      /\ Cardinality(FailuresOf(id))
           = IF Heard(h, {"failed"}) /\ ~Aborted(h) THEN 1 ELSE 0
      /\ \A j \in FailuresOf(id), k \in DOMAIN h :
           h[k].kind = "failed" =>
             failures[j].url = IF HeardBefore(h, k, Starts) THEN id ELSE None

(* Freeing the list early starves nobody: every stage that was asked for,  *)
(* alone or with others, saw every resource that was counted, and a caller *)
(* who asked for the list gets it whole.                                   *)
ListKept ==
  pc = "returned" /\ ~opts.lean =>
    /\ \A r \in Readers : stat.seen[r] = IF Wanted(r) THEN stat.count ELSE 0
    /\ stat.listed = IF opts.resources THEN stat.count ELSE 0

(* Every capture ends, whatever hangs, and one that returned its page is   *)
(* cleaned up behind the caller's back.                                    *)
CaptureEnds == <>(/\ pc \in Ended
                  /\ pc = "returned" => teardown = "done")

(* The context is torn down when the capture ends (mod.rs:6078-6080); one  *)
(* that returned early, or was cut, leaves it open.                        *)
ContextTornDown == pc \in Ended ~> context # "open"
=============================================================================
