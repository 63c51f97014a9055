------------------------------- MODULE Collect -------------------------------
(***************************************************************************)
(* The collect loop of src/src/browser/mod.rs (collect_summary and         *)
(* collect_summary_lean): after the navigation it listens to the page's    *)
(* event streams, in whatever order select! picks them, and decides when   *)
(* the page has loaded.  This module holds the loop's state, the page that *)
(* feeds it, and the loop's actions; Capture embeds them in a capture.     *)
(*                                                                         *)
(* An event is a record; a stream is the sequence of events the handler    *)
(* has queued and the loop has not yet taken.  A stream keeps its order;   *)
(* two streams keep none between them.  Time is discrete and passes        *)
(* whenever it likes, so a loop that is polled late is included.           *)
(***************************************************************************)
EXTENDS Integers, Sequences, FiniteSets, Functions

CONSTANTS
  Ids,            \* request ids of the page
  Documents,      \* the ids whose resource type is Document
  Pseudo,         \* the ids with a data:, blob:, about: or extension URL
  Patterns,       \* patterns a caller may wait for
  Matching,       \* Matching[id]: the patterns its URL contains
  Statuses,       \* HTTP statuses of the responses
  Timeout,        \* the caller's timeout
  QuietGrace,     \* QUIET_GRACE
  PostIdleGrace,  \* POST_IDLE_GRACE
  QuickAbort,     \* QUICK_ABORT_THRESHOLD_S
  Buffer,         \* BROWSER_HEADLESS_DEADLINE_BUFFER_MS
  Backlog         \* bound: events queued at any time, over all streams

ASSUME IdsAssumption == /\ Documents \subseteq Ids
                        /\ Pseudo \subseteq Ids
                        /\ Documents \cap Pseudo = {}
                        /\ Matching \in [Ids -> SUBSET Patterns]
                        /\ Statuses \subseteq 100 .. 599
                        /\ "none" \notin Ids    \* None, said of a URL
ASSUME TimeAssumption == /\ {Timeout, QuickAbort, Buffer, Backlog} \subseteq Nat
                         /\ QuietGrace \in Nat \ {0}
                         /\ PostIdleGrace \in Nat \ {0}

VARIABLES
  opts,         \* the request's options: CollectCaptures and wait_until_load
                \* (and which requests the page makes, how many reports)
  now,          \* Instant::now()
  pc,           \* where the capture stands; the loop waits in "select"
  wire,         \* per id: how far its request has got in the browser
  emitted,      \* how many lifecycle events and notes the page has sent
  streams,      \* the event listeners' queues
  pending,      \* pending_patterns
  deadline,     \* the deadline of the current wait
  last_event_at, stop_at, load_at, idle_at,
  resources,    \* resources: id -> what has been recorded of it
  sent_at,      \* request_sent_at
  quick_aborts, \* quick_abort_ids
  failures,     \* http_network_failures, in order
  document,     \* document_timing: the document that won, and its status
  final_url, redirects,   \* http_final_url, http_redirect_count
  heard,        \* history, per id: the events the loop has handled, in order
  satisfied     \* history: the responses that took a pattern, with it

pageVars == <<wire, emitted>>
exitVars == <<last_event_at, stop_at>>
gateVars == <<load_at, idle_at>>
httpVars == <<document, final_url, redirects>>
abortVars == <<sent_at, quick_aborts, failures>>
loopVars == <<streams, pending, exitVars, gateVars, resources, abortVars,
              httpVars, heard, satisfied>>

Never == -1
None == "none"
Real == Ids \ Pseudo
Earlier(s, t) == IF s < t THEN s ELSE t
Later(s, t) == IF s < t THEN t ELSE s
Min3(s, t, u) == Earlier(s, Earlier(t, u))

StreamNames == {"lifecycle", "response", "finished", "failed", "request", "note"}

(* The streams that are registered for this request; the others are        *)
(* replaced by stream::pending().                                          *)
Subscribed == {"lifecycle", "response"}
                \cup (IF opts.lean THEN {} ELSE {"finished", "note"})
                \cup (IF opts.initiators /\ ~opts.lean THEN {"request"} ELSE {})
                \cup (IF opts.httpErrors /\ ~opts.lean THEN {"failed"} ELSE {})

Event(id, status, canceled) == [id |-> id, status |-> status, canceled |-> canceled]
(* The two kinds of events whose timestamps are compared. *)
Timed(id, canceled) == [id |-> id, status |-> 0, canceled |-> canceled, ts |-> now]

NoStreams == [n \in StreamNames |-> << >>]
NotSent == [id \in Ids |-> Never]
Unheard == [id \in Ids |-> << >>]
NoDocument == [id |-> None, status |-> 0]

LocalsAtStart ==
  /\ streams = NoStreams /\ pending = opts.waitFor
  /\ last_event_at = 0 /\ stop_at = 0 /\ load_at = Never /\ idle_at = Never
  /\ resources = << >>
  /\ sent_at = NotSent /\ quick_aborts = {} /\ failures = << >>
  /\ document = NoDocument /\ final_url = None /\ redirects = 0
  /\ heard = Unheard /\ satisfied = << >>
  /\ wire = [id \in Ids |-> IF id \in opts.page THEN "new" ELSE "unused"]
  /\ emitted = 0

(* The locals go when collect_summary returns or the future is dropped,    *)
(* and nothing listens to the page any more.                               *)
DropLocals ==
  /\ streams' = NoStreams /\ pending' = opts.waitFor
  /\ last_event_at' = 0 /\ stop_at' = 0 /\ load_at' = Never /\ idle_at' = Never
  /\ resources' = << >>
  /\ sent_at' = NotSent /\ quick_aborts' = {} /\ failures' = << >>
  /\ document' = NoDocument /\ final_url' = None /\ redirects' = 0
  /\ heard' = Unheard /\ satisfied' = << >>
  /\ wire' = [id \in Ids |-> "unused"] /\ emitted' = 0

-----------------------------------------------------------------------------
(* The page.  It sends what it likes, within the protocol's order for one  *)
(* request: sent, answered (or redirected and sent again under the same    *)
(* id), then finished or failed; a request may also stay unanswered.       *)

Listening == pc \in {"goto", "select"}

Queued == SumFunction([s \in StreamNames |-> Len(streams[s])])

Emit(s, e) == IF s \in Subscribed
                THEN /\ Queued < Backlog
                     /\ streams' = [streams EXCEPT ![s] = Append(@, e)]
                ELSE UNCHANGED streams

PageSends(id) ==
  /\ Listening /\ wire[id] \in {"new", "moved"}
  /\ wire' = [wire EXCEPT ![id] = IF @ = "new" THEN "sent" ELSE "resent"]
  /\ Emit("request", Timed(id, FALSE))
  /\ UNCHANGED emitted

IsRedirect(status) == status \in 300 .. 399

PageAnswers(id, status) ==
  /\ Listening
  /\ \/ wire[id] = "sent"
     \/ wire[id] = "resent" /\ ~IsRedirect(status)
  /\ IsRedirect(status) => id \in Documents
  /\ wire' = [wire EXCEPT ![id] = IF IsRedirect(status) THEN "moved" ELSE "answered"]
  /\ Emit("response", Event(id, status, FALSE))
  /\ UNCHANGED emitted

PageFinishes(id) ==
  /\ Listening /\ wire[id] = "answered"
  /\ wire' = [wire EXCEPT ![id] = "finished"]
  /\ Emit("finished", Event(id, 0, FALSE))
  /\ UNCHANGED emitted

PageFails(id, canceled) ==
  /\ Listening /\ wire[id] \in {"sent", "resent", "answered"}
  /\ wire' = [wire EXCEPT ![id] = "failed"]
  /\ Emit("failed", Timed(id, canceled))
  /\ UNCHANGED emitted

(* Lifecycle events, whichever and as often as the page has them, and      *)
(* exceptions, console calls and style sheets.                             *)
PageReports(s, name) ==
  /\ Listening /\ s \in Subscribed /\ emitted < opts.reports
  /\ emitted' = emitted + 1
  /\ Emit(s, Event(name, 0, FALSE))
  /\ UNCHANGED wire

PageStep ==
  /\ \/ \E id \in Ids : PageSends(id) \/ PageFinishes(id)
     \/ \E id \in Ids, status \in Statuses : PageAnswers(id, status)
     \/ \E id \in Ids, canceled \in BOOLEAN : PageFails(id, canceled)
     \/ \E name \in {"load", "networkIdle", "other"} : PageReports("lifecycle", name)
     \/ PageReports("note", "other")
  /\ UNCHANGED <<pending, exitVars, gateVars, resources, abortVars, httpVars,
                 heard, satisfied>>

-----------------------------------------------------------------------------
(* The exit policy.                                                        *)

MutCollectStopAt(end, gate, patterns_pending, last_event) ==    \* mutant: patterns do not hold it
  IF gate # Never
    THEN Min3(end, gate + PostIdleGrace, Later(last_event, gate) + QuietGrace)
    ELSE end

(* collect_stop_at *)
CollectStopAt(end, gate, patterns_pending, last_event) ==
  IF gate # Never /\ ~patterns_pending
    THEN Min3(end, gate + PostIdleGrace, Later(last_event, gate) + QuietGrace)
    ELSE end

(* The lifecycle event the caller waits for. *)
Gate(load, idle) == IF opts.untilLoad THEN load ELSE idle
GateAt == Gate(load_at, idle_at)

MutLoopTop ==    \* mutant: always sleeps, even for no time at all
  /\ last_event_at' = now
  /\ stop_at' = CollectStopAt(deadline', Gate(load_at', idle_at'),
                              pending' # << >>, now)
  /\ pc' = "select"

(* The top of the loop, reached without an await from the navigation and   *)
(* from every handler: stamp the time, compute when to stop, leave at once *)
(* when that time has come.  It reads the state the handler leaves behind. *)
LoopTop ==
  /\ last_event_at' = now
  /\ stop_at' = CollectStopAt(deadline', Gate(load_at', idle_at'),
                                pending' # << >>, now)
  /\ pc' = IF stop_at' <= now THEN "finalize" ELSE "select"

SleepFires ==
  /\ pc = "select" /\ now >= stop_at
  /\ pc' = "finalize"
  /\ UNCHANGED <<loopVars, deadline>>

-----------------------------------------------------------------------------
(* The handlers: select! takes the head of any stream that has one.        *)

Take(s) == /\ pc = "select" /\ streams[s] # << >>
           /\ streams' = [streams EXCEPT ![s] = Tail(@)]
Hear(kind, e) ==
  heard' = [heard EXCEPT ![e.id] = Append(@, [kind |-> kind, event |-> e])]

First(t, name, wanted) == IF name = wanted /\ t = Never THEN now ELSE t

HandleLifecycle ==
  /\ Take("lifecycle")
  /\ LET name == Head(streams["lifecycle"]).id
     IN  /\ load_at' = First(load_at, name, "load")
         /\ idle_at' = First(idle_at, name, "networkIdle")
  /\ UNCHANGED <<pending, deadline, resources, abortVars, httpVars, heard, satisfied>>
  /\ LoopTop

(* Exceptions, console calls and style sheets are only collected. *)
HandleNote ==
  /\ Take("note")
  /\ UNCHANGED <<pending, deadline, gateVars, resources, abortVars, httpVars,
                 heard, satisfied>>
  /\ LoopTop

Blank == [url |-> None, status |-> 0, sized |-> FALSE, initiator |-> FALSE]
Recorded(id) == id \in DOMAIN resources
Entry(id) == IF Recorded(id) THEN resources[id] ELSE Blank
Record(id, entry) == [i \in DOMAIN resources \cup {id} |->
                        IF i = id THEN entry ELSE resources[i]]

(* pending_patterns.iter().position(..) and swap_remove(pos) *)
Position(id) == {k \in 1 .. Len(pending) : pending[k] \in Matching[id]}
FirstPosition(id) == CHOOSE k \in Position(id) : \A m \in Position(id) : k <= m
MutSwapRemove(s, pos) == SubSeq(s, 1, Len(s) - 1)    \* mutant: forgets the last pattern
SwapRemove(s, pos) == [k \in 1 .. Len(s) - 1 |-> IF k = pos THEN s[Len(s)] ELSE s[k]]

Success(status) == status \in 200 .. 399

(* A response of a data: or blob: URL is left out. *)
HandlePseudoResponse ==
  /\ Take("response")
  /\ Head(streams["response"]).id \in Pseudo
  /\ UNCHANGED <<pending, deadline, gateVars, resources, abortVars, httpVars,
                 heard, satisfied>>
  /\ LoopTop

(* The response takes the first pattern it contains; a failed one ends the *)
(* capture with UpstreamFailure.                                           *)
UpstreamFailure ==
  /\ pc = "select" /\ streams["response"] # << >>
  /\ LET e == Head(streams["response"])
     IN  e.id \in Real /\ Position(e.id) # {} /\ ~Success(e.status)
  /\ pc' = "failed"
  /\ UNCHANGED deadline
  /\ DropLocals

TakePattern(e) ==
  IF Position(e.id) = {}
    THEN UNCHANGED <<pending, satisfied>>
    ELSE /\ Success(e.status)
         /\ pending' = SwapRemove(pending, FirstPosition(e.id))
         /\ satisfied' = Append(satisfied, [pattern |-> pending[FirstPosition(e.id)],
                                            id |-> e.id])

(* document_timing takes a Document response below 400 that has a CDP      *)
(* timing or came from a cache; the HTTP error roll-up counts the 3xx ones *)
(* as hops and takes the URL of those below 300.                           *)
NoteDocument(e) ==
  /\ \/ UNCHANGED document
     \/ /\ e.id \in Documents /\ e.status < 400
        /\ document' = [id |-> e.id, status |-> e.status]
  /\ IF e.id \in Documents /\ opts.httpErrors /\ ~opts.lean
       THEN /\ redirects' = IF IsRedirect(e.status) THEN redirects + 1 ELSE redirects
            /\ final_url' = IF e.status < 300 THEN e.id ELSE final_url
       ELSE UNCHANGED <<redirects, final_url>>

HandleResponse ==
  /\ Take("response")
  /\ LET e == Head(streams["response"])
     IN  /\ e.id \in Real
         /\ TakePattern(e)
         /\ resources' = IF opts.lean THEN resources
                         ELSE Record(e.id, [Entry(e.id) EXCEPT !.url = e.id,
                                                               !.status = e.status])
         /\ NoteDocument(e)
         /\ Hear("response", e)
  /\ UNCHANGED <<deadline, gateVars, abortVars>>
  /\ LoopTop

(* The size belongs to a response that has been recorded; no stub is made. *)
HandleFinished ==
  /\ Take("finished")
  /\ LET e == Head(streams["finished"])
     IN  /\ resources' = IF Recorded(e.id) THEN [resources EXCEPT ![e.id].sized = TRUE]
                         ELSE resources
         /\ Hear("finished", e)
  /\ UNCHANGED <<pending, deadline, gateVars, abortVars, httpVars, satisfied>>
  /\ LoopTop

MutHandleRequest ==    \* mutant: insert, not or_insert
  /\ Take("request")
  /\ LET e == Head(streams["request"])
     IN  IF e.id \in Pseudo
           THEN UNCHANGED <<resources, sent_at, heard>>
           ELSE /\ resources' = Record(e.id, [Blank EXCEPT !.url = e.id, !.initiator = TRUE])
                /\ sent_at' = [sent_at EXCEPT ![e.id] = e.ts]
                /\ Hear("request", e)
  /\ UNCHANGED <<pending, deadline, gateVars, quick_aborts, failures, httpVars,
                 satisfied>>
  /\ LoopTop

(* The request makes a stub when its response has not been seen, and never *)
(* touches the URL of one that has.                                        *)
HandleRequest ==
  /\ Take("request")
  /\ LET e == Head(streams["request"])
     IN  IF e.id \in Pseudo
           THEN UNCHANGED <<resources, sent_at, heard>>
           ELSE /\ resources' = Record(e.id,
                     [Entry(e.id) EXCEPT !.url = IF @ = None THEN e.id ELSE @,
                                         !.initiator = TRUE])
                /\ sent_at' = [sent_at EXCEPT ![e.id] = e.ts]
                /\ Hear("request", e)
  /\ UNCHANGED <<pending, deadline, gateVars, quick_aborts, failures, httpVars,
                 satisfied>>
  /\ LoopTop

IsQuickAbort(e) == /\ e.canceled
                   /\ sent_at[e.id] # Never
                   /\ e.ts - sent_at[e.id] < QuickAbort

(* The URL of a failure is the recorded one, or none at all; a failure of  *)
(* a recorded pseudo URL would be left out.                                *)
HandleFailed ==
  /\ Take("failed")
  /\ LET e == Head(streams["failed"])
         url == Entry(e.id).url
     IN  IF url \in Pseudo
           THEN UNCHANGED <<quick_aborts, failures, heard>>
           ELSE /\ Hear("failed", e)
                /\ IF IsQuickAbort(e)
                     THEN /\ quick_aborts' = quick_aborts \cup {e.id}
                          /\ UNCHANGED failures
                     ELSE /\ failures' = Append(failures, [id |-> e.id, url |-> url])
                          /\ UNCHANGED quick_aborts
  /\ UNCHANGED <<pending, deadline, gateVars, resources, sent_at, httpVars, satisfied>>
  /\ LoopTop

HandleEvent == \/ HandleLifecycle \/ HandleNote
               \/ HandlePseudoResponse \/ HandleResponse
               \/ HandleFinished \/ HandleRequest \/ HandleFailed

CollectStep == /\ \/ UpstreamFailure
                  \/ (HandleEvent \/ SleepFires) /\ UNCHANGED pageVars
               /\ UNCHANGED <<opts, now>>

-----------------------------------------------------------------------------
(* What the loop hands on.                                                 *)

(* resources.retain(..): entries without a URL and quick aborts go. *)
Retained == {id \in DOMAIN resources : resources[id].url # None
                                        /\ id \notin quick_aborts}

(* The roll-up of HTTP errors. *)
Failed4xx == {id \in Retained : resources[id].status \in 400 .. 499}
Failed5xx == {id \in Retained : resources[id].status \in 500 .. 599}
FailedCount == Cardinality(Failed4xx) + Cardinality(Failed5xx) + Len(failures)

MutFreeResources ==    \* mutant: the CORS stage is forgotten
  ~(opts.resources \/ opts.har \/ opts.imageSizing)

(* free_resources: no later stage needs the list. *)
FreeResources == ~(opts.resources \/ opts.har \/ opts.imageSizing \/ opts.securityScan)
=============================================================================
