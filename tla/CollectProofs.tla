--------------------------- MODULE CollectProofs ---------------------------
(***************************************************************************)
(* What the collect loop hands on, for every page, request and order of    *)
(* events: the types, the account of the awaited patterns, and the list of *)
(* resources with the failures, which are what the handled events say.     *)
(***************************************************************************)
EXTENDS CaptureProofs, SequenceTheorems, WellFoundedInduction

Stamped == [id : Ids, status : {0}, canceled : BOOLEAN, ts : Times]
Answers == [id : Ids, status : Statuses \cup {0}, canceled : BOOLEAN]
Reports == [id : {"load", "networkIdle", "other"}, status : {0}, canceled : BOOLEAN]

(* What may wait in each stream. *)
Signal(s) == IF s \in {"request", "failed"} THEN Stamped
             ELSE IF s \in {"response", "finished"} THEN Answers ELSE Reports

Queues ==
  /\ DOMAIN streams = StreamNames
  /\ \A s \in StreamNames : /\ streams[s] \in Seq(Signal(s))
                            /\ s \notin Subscribed => streams[s] = << >>
  /\ \A k \in DOMAIN streams["response"] : streams["response"][k].status \in Statuses

Clocks ==
  /\ opts \in Options /\ now \in Times
  /\ deadline \in 0 .. TotalDeadline + Timeout
  /\ last_event_at \in Times /\ stop_at \in 0 .. TotalDeadline + Timeout
  /\ load_at \in Times \cup {Never} /\ idle_at \in Times \cup {Never}

Wires == {"unused", "new", "sent", "moved", "resent", "answered", "finished", "failed"}
Kinds == {"request", "response", "finished", "failed"}
Happening == [kind : Kinds, event : Stamped \cup Answers]

Lists ==
  /\ wire \in [Ids -> Wires]
  /\ pending \in Seq(Patterns) /\ Len(pending) <= Len(opts.waitFor)
  /\ DOMAIN resources \subseteq Ids
  /\ \A id \in DOMAIN resources : resources[id] \in Entries
  /\ sent_at \in [Ids -> Times \cup {Never}]
  /\ quick_aborts \subseteq Ids
  /\ failures \in Seq([id : Ids, url : Ids \cup {None}])
  /\ document \in [id : Documents \cup {None}, status : Nat]
  /\ final_url \in Documents \cup {None} /\ redirects \in Nat
  /\ heard \in [Ids -> Seq(Happening)]
  /\ satisfied \in Seq([pattern : Patterns, id : Ids])

Cleanup ==
  /\ pc \in Running \cup Ended
  /\ context \in {"none", "open", "disposed", "orphaned"}
  /\ teardown \in {"none", "close", "dispose", "done"}
  /\ waits_left \in 0 .. opts.waits

Typed == Queues /\ Clocks /\ Lists /\ Cleanup

(* The kinds of events the loop has been told of, per request.             *)
KindsIn(h) == {h[k].kind : k \in DOMAIN h}
told == [id \in Ids |-> KindsIn(heard[id])]

(* What has been recorded of a resource is what has been told of it.       *)
Recorder(id) ==
  /\ sent_at[id] # Never => "request" \in told[id]
  /\ id \in quick_aborts => {"request", "failed"} \subseteq told[id]
  /\ ~opts.lean =>
       /\ Recorded(id) <=> id \in Real /\ told[id] \cap {"request", "response"} # {}
       /\ Recorded(id) =>
            /\ resources[id].url = id
            /\ resources[id].status # 0 <=> "response" \in told[id]
            /\ resources[id].initiator <=> "request" \in told[id]
            /\ resources[id].sized => "finished" \in told[id]

(* A request fails at most once, whichever of its events comes first: the  *)
(* failure is under way, or it has been told and then noted once, unless  *)
(* it was a quick abort.                                                   *)
FailsOnce ==
  /\ \A k \in DOMAIN streams["failed"] :
       /\ wire[streams["failed"][k].id] = "failed"
       /\ "failed" \notin told[streams["failed"][k].id]
       /\ \A m \in DOMAIN streams["failed"] :
            streams["failed"][m].id = streams["failed"][k].id => m = k
  /\ \A id \in Ids : "failed" \in told[id] => wire[id] = "failed"
  /\ \A k \in DOMAIN failures :
       /\ "failed" \in told[failures[k].id] /\ failures[k].id \notin quick_aborts
       /\ \A m \in DOMAIN failures : failures[m].id = failures[k].id => m = k
  /\ \A id \in Ids : "failed" \in told[id] /\ id \notin quick_aborts =>
       \E k \in DOMAIN failures : failures[k].id = id

(* What the order of the events decides.                                   *)
Traced(id) ==
  LET h == heard[id]
  IN  /\ sent_at[id] # Never => \E m \in DOMAIN h : LatestOf(h, m, "request")
      /\ \A m \in DOMAIN h : LatestOf(h, m, "request") =>
           sent_at[id] # Never /\ sent_at[id] = h[m].event.ts
      /\ id \in quick_aborts <=> Aborted(h)
      /\ ~opts.lean /\ id \in Real =>
           /\ Recorded(id) =>
                /\ resources[id].sized <=> Sized(h)
                /\ \A k \in DOMAIN h : LatestOf(h, k, "response") =>
                     resources[id].status = h[k].event.status
           /\ \A j \in FailuresOf(id), k \in DOMAIN h :
                h[k].kind = "failed" =>
                  failures[j].url = IF HeardBefore(h, k, Starts) THEN id ELSE None

Reported == FailsOnce /\ \A id \in Ids : Recorder(id)

-----------------------------------------------------------------------------
(* What a step may do to the page, the streams and the loop's lists.       *)

coreVars == <<streams, pending, gateVars, resources, abortVars, httpVars,
              heard, satisfied>>

(* A step of the capture drops the locals, leaves page and loop alone, or  *)
(* is one of the page or of the loop.                                      *)
LEMMA Shapes ==
  ASSUME [Next]_vars
  PROVE  /\ opts' = opts
         /\ \/ DropLocals
            \/ UNCHANGED <<pageVars, coreVars>>
            \/ PageStep /\ UNCHANGED <<now, exitVars>>
            \/ HandleEvent /\ UNCHANGED <<pageVars, now>>
  <1> USE DEF coreVars
  <1>1. CASE UNCHANGED vars
    BY <1>1 DEF vars, localVars, loopVars
  <1>2. CASE Stage
    BY <1>2 DEF Stage, CreateContext, NewPage, Apply, Navigated, FinalizeCollect,
       WaitMatches, WaitTimesOut, WaitsDone, Format, CommandFails, localVars, loopVars
  <1>3. CASE Cut \/ Teardown \/ Tick \/ Stopped
    BY <1>1, <1>3 DEF Cut, CutOff, Teardown, ClosePage, DisposeContext, Tick, Stopped,
                      localVars, loopVars
  <1>4. CASE CollectStep
    BY <1>4 DEF CollectStep, UpstreamFailure, SleepFires, loopVars
  <1>5. CASE PageStep /\ UNCHANGED <<opts, now, pc, deadline, captureVars>>
    BY <1>5 DEF PageStep
  <1> QED  BY <1>1, <1>2, <1>3, <1>4, <1>5 DEF Next

(* Durations and statuses are numbers.                                     *)
LEMMA Numbered ==
  /\ Timeout \in Nat /\ Buffer \in Nat /\ QuietGrace \in Nat /\ PostIdleGrace \in Nat
  /\ TotalDeadline \in Nat /\ Statuses \subseteq Nat \ {0}
  BY IdsAssumption, TimeAssumption DEF IdsAssumption, TimeAssumption, TotalDeadline

(* Every event the page sends is one its stream may carry.  It fails a     *)
(* request once, and a failed one does nothing more.                       *)
LEMMA PageEmits ==
  ASSUME Typed, PageStep
  PROVE  /\ wire' \in [Ids -> Wires]
         /\ \E s \in StreamNames : \E e \in Signal(s) :
              /\ Emit(s, e)
              /\ s = "response" => e.status \in Statuses
              /\ s = "failed" => wire[e.id] # "failed" /\ wire'[e.id] = "failed"
              /\ \A id \in Ids : wire[id] = "failed" => wire'[id] = "failed"
  <1> USE DEF StreamNames, Signal, Event
  <1>0. now \in Times /\ wire \in [Ids -> Wires]
    BY DEF Typed, Clocks, Lists
  <1>1. ASSUME NEW id \in Ids, PageSends(id)
        PROVE  /\ wire' \in [Ids -> Wires] /\ Emit("request", Timed(id, FALSE))
               /\ \A i \in Ids : wire[i] = "failed" => wire'[i] = "failed"
    BY <1>0, <1>1 DEF PageSends, Wires
  <1>2. ASSUME NEW id \in Ids, PageFinishes(id)
        PROVE  /\ wire' \in [Ids -> Wires] /\ Emit("finished", Event(id, 0, FALSE))
               /\ \A i \in Ids : wire[i] = "failed" => wire'[i] = "failed"
    BY <1>0, <1>2 DEF PageFinishes, Wires
  <1>3. ASSUME NEW id \in Ids, NEW status \in Statuses, PageAnswers(id, status)
        PROVE  /\ wire' \in [Ids -> Wires] /\ Emit("response", Event(id, status, FALSE))
               /\ \A i \in Ids : wire[i] = "failed" => wire'[i] = "failed"
    BY <1>0, <1>3 DEF PageAnswers, Wires
  <1>4. ASSUME NEW id \in Ids, NEW canceled \in BOOLEAN, PageFails(id, canceled)
        PROVE  /\ wire' \in [Ids -> Wires] /\ Emit("failed", Timed(id, canceled))
               /\ wire[id] # "failed" /\ wire'[id] = "failed"
               /\ \A i \in Ids : wire[i] = "failed" => wire'[i] = "failed"
    BY <1>0, <1>4 DEF PageFails, Wires
  <1>5. ASSUME NEW s \in {"lifecycle", "note"}, NEW name \in {"load", "networkIdle", "other"},
               PageReports(s, name)
        PROVE  wire' = wire /\ Emit(s, Event(name, 0, FALSE))
    BY <1>5 DEF PageReports
  <1>6. \A id \in Ids, canceled \in BOOLEAN :
          Timed(id, canceled) \in Stamped /\ Timed(id, canceled).id = id
    BY <1>0 DEF Timed, Stamped
  <1>7. /\ \A id \in Ids, status \in Statuses \cup {0} :
             Event(id, status, FALSE) \in Answers /\ Event(id, status, FALSE).status = status
        /\ \A name \in {"load", "networkIdle", "other"} : Event(name, 0, FALSE) \in Reports
    BY DEF Answers, Reports
  <1> HIDE DEF Event
  <1>8. CASE \E id \in Ids : PageSends(id)
    <2>1. PICK id \in Ids : PageSends(id)  BY <1>8
    <2> QED  BY <1>1, <1>6, <2>1
  <1>9. CASE \E id \in Ids : PageFinishes(id)
    <2>1. PICK id \in Ids : PageFinishes(id)  BY <1>9
    <2> QED  BY <1>2, <1>7, <2>1
  <1>10. CASE \E id \in Ids, status \in Statuses : PageAnswers(id, status)
    <2>1. PICK id \in Ids, status \in Statuses : PageAnswers(id, status)  BY <1>10
    <2>2. /\ Event(id, status, FALSE) \in Signal("response")
          /\ Event(id, status, FALSE).status \in Statuses
      BY <1>7
    <2>3. "response" \in StreamNames /\ "response" # "failed"  OBVIOUS
    <2> HIDE DEF Signal, StreamNames
    <2> QED  BY <1>3, <2>1, <2>2, <2>3
  <1>11. CASE \E id \in Ids, canceled \in BOOLEAN : PageFails(id, canceled)
    <2>1. PICK id \in Ids, canceled \in BOOLEAN : PageFails(id, canceled)  BY <1>11
    <2> QED  BY <1>4, <1>6, <2>1
  <1>12. CASE \/ \E name \in {"load", "networkIdle", "other"} : PageReports("lifecycle", name)
              \/ PageReports("note", "other")
    <2>1. PICK s \in {"lifecycle", "note"}, name \in {"load", "networkIdle", "other"} :
            PageReports(s, name)
      BY <1>12
    <2> QED  BY <1>0, <1>5, <1>7, <2>1
  <1> QED  BY <1>8, <1>9, <1>10, <1>11, <1>12 DEF PageStep

(* One event in, and what each stream may carry stays true. *)
LEMMA EmitKeepsQueues ==
  ASSUME Queues, UNCHANGED opts, NEW s \in StreamNames, NEW e \in Signal(s), Emit(s, e),
         s = "response" => e.status \in Statuses
  PROVE  Queues'
  <1>1. Subscribed' = Subscribed  BY DEF Subscribed
  <1>2. \A n \in StreamNames : Signal(n)' = Signal(n)
    BY DEF Signal, Stamped, Answers, Reports, Times, TotalDeadline
  <1>3. CASE UNCHANGED streams
    BY <1>1, <1>2, <1>3 DEF Queues
  <1>4. CASE s \in Subscribed /\ streams' = [streams EXCEPT ![s] = Append(@, e)]
    <2>1. /\ DOMAIN streams' = StreamNames /\ streams'[s] = Append(streams[s], e)
          /\ \A n \in StreamNames \ {s} : streams'[n] = streams[n]
      BY <1>4 DEF Queues
    <2>2. /\ streams[s] \in Seq(Signal(s))
      BY DEF Queues
    <2>3. streams'[s] \in Seq(Signal(s)) /\ Len(streams'[s]) = Len(streams[s]) + 1
          /\ \A k \in DOMAIN streams'[s] :
               \/ k \in DOMAIN streams[s] /\ streams'[s][k] = streams[s][k]
               \/ streams'[s][k] = e
      BY <2>1, <2>2
    <2>4. \A n \in StreamNames : streams'[n] \in Seq(Signal(n))
                                 /\ (n \notin Subscribed => streams'[n] = << >>)
      BY <1>4, <2>1, <2>3 DEF Queues
    <2>5. "response" \in StreamNames  BY DEF StreamNames
    <2>6. \A k \in DOMAIN streams'["response"] : streams'["response"][k].status \in Statuses
      BY <2>1, <2>3, <2>5 DEF Queues
    <2> QED  BY <1>1, <1>2, <2>1, <2>4, <2>6 DEF Queues
  <1> QED  BY <1>3, <1>4 DEF Emit

(* One event out. *)
LEMMA TakeKeepsQueues ==
  ASSUME Queues, UNCHANGED opts, NEW s \in StreamNames, Take(s)
  PROVE  /\ Queues' /\ Head(streams[s]) \in Signal(s) /\ s \in Subscribed
         /\ s = "response" => Head(streams[s]).status \in Statuses
         /\ \A k \in DOMAIN streams'[s] : k + 1 \in DOMAIN streams[s]
                                          /\ streams'[s][k] = streams[s][k + 1]
         /\ \A n \in StreamNames \ {s} : streams'[n] = streams[n]
         /\ 1 \in DOMAIN streams[s] /\ Head(streams[s]) = streams[s][1]
         /\ DOMAIN streams[s] = 1 .. Len(streams[s]) /\ Len(streams[s]) \in Nat
  <1>1. Subscribed' = Subscribed  BY DEF Subscribed
  <1>2. \A n \in StreamNames : Signal(n)' = Signal(n)
    BY DEF Signal, Stamped, Answers, Reports, Times, TotalDeadline
  <1>3. /\ DOMAIN streams' = StreamNames /\ streams'[s] = Tail(streams[s])
        /\ \A n \in StreamNames \ {s} : streams'[n] = streams[n]
    BY DEF Queues, Take
  <1>4. streams[s] \in Seq(Signal(s)) /\ streams[s] # << >>
    BY DEF Queues, Take
  <1>5. /\ Tail(streams[s]) \in Seq(Signal(s)) /\ Head(streams[s]) \in Signal(s)
        /\ DOMAIN streams[s] = 1 .. Len(streams[s]) /\ Len(streams[s]) \in Nat
        /\ 1 \in DOMAIN streams[s] /\ Head(streams[s]) = streams[s][1]
        /\ \A k \in DOMAIN Tail(streams[s]) : k + 1 \in DOMAIN streams[s]
                                              /\ Tail(streams[s])[k] = streams[s][k + 1]
    BY <1>4
  <1>6. s \in Subscribed  BY <1>4 DEF Queues
  <1>7. "response" \in StreamNames  BY DEF StreamNames
  <1>8. \A n \in StreamNames : streams'[n] \in Seq(Signal(n))
                               /\ (n \notin Subscribed => streams'[n] = << >>)
    BY <1>3, <1>5, <1>6 DEF Queues
  <1>9. \A k \in DOMAIN streams'["response"] : streams'["response"][k].status \in Statuses
    BY <1>3, <1>5, <1>7 DEF Queues
  <1>10. Queues'
    BY <1>1, <1>2, <1>3, <1>8, <1>9 DEF Queues
  <1>11. s = "response" => Head(streams[s]).status \in Statuses
    BY <1>5 DEF Queues
  <1> QED  BY <1>3, <1>5, <1>6, <1>10, <1>11

-----------------------------------------------------------------------------
(* The types.                                                              *)

(* The fields of the options that are lists, numbers and flags.            *)
LEMMA OptionFacts ==
  ASSUME opts \in Options
  PROVE  opts.waitFor \in Seq(Patterns) /\ opts.waits \in Nat /\ opts.lean \in BOOLEAN
  BY OptionsAssumption DEF OptionsAssumption

(* Every step keeps what waits in the streams typed.                       *)
LEMMA QueuesKept ==
  ASSUME Typed, [Next]_vars
  PROVE  Queues'
  <1>1. opts' = opts  BY Shapes
  <1>2. Subscribed' = Subscribed /\ \A n \in StreamNames : Signal(n)' = Signal(n)
    BY <1>1 DEF Subscribed, Signal, Stamped, Answers, Reports, Times, TotalDeadline
  <1>3. ASSUME UNCHANGED streams PROVE Queues'
    BY <1>2, <1>3 DEF Typed, Queues
  <1>4. CASE DropLocals
    <2>1. streams' = [n \in StreamNames |-> << >>]
      BY <1>4 DEF DropLocals, NoStreams
    <2>2. \A S : << >> \in Seq(S)  OBVIOUS
    <2>3. "response" \in StreamNames  BY DEF StreamNames
    <2>4. \A n \in StreamNames : streams'[n] = << >> /\ streams'[n] \in Seq(Signal(n))
      BY <2>1, <2>2
    <2>5. \A k \in DOMAIN streams'["response"] : streams'["response"][k].status \in Statuses
      <3>1. streams'["response"] = << >>  BY <2>3, <2>4
      <3>2. DOMAIN << >> = {}  OBVIOUS
      <3> QED  BY <3>1, <3>2
    <2>6. DOMAIN streams' = StreamNames  BY <2>1
    <2> QED  BY <1>2, <2>4, <2>5, <2>6 DEF Queues
  <1>5. CASE UNCHANGED <<pageVars, coreVars>>
    BY <1>3, <1>5 DEF coreVars
  <1>6. CASE PageStep
    <2>1. PICK s \in StreamNames : \E e \in Signal(s) :
            Emit(s, e) /\ (s = "response" => e.status \in Statuses)
      BY <1>6, PageEmits
    <2> QED  BY <1>1, <2>1, EmitKeepsQueues DEF Typed
  <1>7. CASE HandleEvent
    <2>1. \E s \in StreamNames : Take(s)
      BY <1>7 DEF HandleEvent, HandleLifecycle, HandleNote, HandlePseudoResponse,
         HandleResponse, HandleFinished, HandleRequest, HandleFailed, StreamNames
    <2> QED  BY <1>1, <2>1, TakeKeepsQueues DEF Typed
  <1> QED  BY <1>4, <1>5, <1>6, <1>7, Shapes

(* The timer that the top of the loop sets lies within its range.          *)
LEMMA LoopTopTyped ==
  ASSUME LoopTop, UNCHANGED <<opts, now>>, now \in Times,
         deadline' \in 0 .. TotalDeadline + Timeout,
         load_at' \in Times \cup {Never}, idle_at' \in Times \cup {Never}
  PROVE  last_event_at' \in Times /\ stop_at' \in 0 .. TotalDeadline + Timeout
  <1> DEFINE gate == Gate(load_at', idle_at')
             waiting == pending' # << >>
  <1>1. gate \in Times \cup {Never} /\ waiting \in BOOLEAN  BY DEF Gate
  <1>2. stop_at' = CollectStopAt(deadline', gate, waiting, now) /\ last_event_at' = now
    BY DEF LoopTop
  <1> HIDE DEF gate, waiting
  <1>3. CASE gate # Never /\ ~waiting
    <2>1. gate \in Nat /\ now \in Nat /\ deadline' \in Nat /\ deadline' <= TotalDeadline + Timeout
      BY <1>1, <1>3, Numbered DEF Times
    <2>2. stop_at' = Min3(deadline', gate + PostIdleGrace, Later(now, gate) + QuietGrace)
      BY <1>2, <1>3 DEF CollectStopAt
    <2>3. stop_at' \in Nat /\ stop_at' <= deadline'
      BY <2>1, <2>2, Numbered DEF Min3, Earlier, Later
    <2> QED  BY <1>2, <2>1, <2>3, Numbered
  <1>4. CASE ~(gate # Never /\ ~waiting)
    <2>1. stop_at' = deadline'  BY <1>2, <1>4 DEF CollectStopAt
    <2> QED  BY <1>2, <2>1
  <1> QED  BY <1>3, <1>4

(* Every step keeps the clocks in their ranges.                            *)
LEMMA ClocksKept ==
  ASSUME Typed, [Next]_vars
  PROVE  Clocks'
  <1> USE DEF Times
  <1>0. Clocks /\ now \in Nat /\ now <= TotalDeadline  BY Numbered DEF Typed, Clocks
  <1>1. now + Timeout \in 0 .. TotalDeadline + Timeout  BY <1>0, Numbered
  <1>2. opts' \in Options  BY <1>0, Shapes DEF Clocks
  <1>3. ASSUME DropLocals, now' = now, deadline' \in 0 .. TotalDeadline + Timeout
        PROVE  Clocks'
    <2>1. /\ last_event_at' = 0 /\ stop_at' = 0 /\ load_at' = Never /\ idle_at' = Never
      BY <1>3 DEF DropLocals
    <2> QED  BY <1>0, <1>2, <1>3, <2>1, Numbered DEF Clocks
  <1>4. ASSUME UNCHANGED <<exitVars, gateVars>>, now' \in Times,
               deadline' \in 0 .. TotalDeadline + Timeout
        PROVE  Clocks'
    BY <1>0, <1>2, <1>4 DEF Clocks, exitVars, gateVars
  <1>5. ASSUME LoopTop, now' = now, opts' = opts, deadline' \in 0 .. TotalDeadline + Timeout,
               load_at' \in Times \cup {Never}, idle_at' \in Times \cup {Never}
        PROVE  Clocks'
    BY <1>0, <1>2, <1>5, LoopTopTyped DEF Clocks
  <1>6. CASE Stage
    <2>0. now' = now /\ opts' = opts  BY <1>6 DEF Stage
    <2>1. CASE Navigated
      BY <1>0, <1>1, <1>5, <2>0, <2>1 DEF Navigated, Clocks, gateVars
    <2>2. CASE FinalizeCollect \/ CommandFails
      BY <1>0, <1>1, <1>3, <2>0, <2>2 DEF FinalizeCollect, CommandFails, Clocks
    <2>3. CASE CreateContext \/ NewPage \/ Apply \/ WaitMatches \/ WaitTimesOut \/ WaitsDone \/ Format
      BY <1>0, <1>1, <1>4, <2>0, <2>3 DEF CreateContext, NewPage, Apply, WaitMatches,
         WaitTimesOut, WaitsDone, Format, localVars, loopVars, Clocks
    <2> QED  BY <1>6, <2>1, <2>2, <2>3 DEF Stage
  <1>7. CASE Cut
    BY <1>0, <1>3, <1>7 DEF Cut, CutOff, Clocks
  <1>8. CASE Teardown \/ Stopped \/ UNCHANGED vars
    BY <1>0, <1>4, <1>8 DEF Teardown, ClosePage, DisposeContext, Stopped, vars, localVars,
                            loopVars, Clocks
  <1>9. CASE Tick
    <2>1. now' \in Times  BY <1>0, <1>9, Numbered DEF Tick
    <2> QED  BY <1>0, <1>4, <1>9, <2>1 DEF Tick, localVars, loopVars, Clocks
  <1>10. CASE CollectStep
    <2>0. now' = now /\ opts' = opts  BY <1>10 DEF CollectStep
    <2>1. CASE UpstreamFailure
      BY <1>0, <1>3, <2>0, <2>1 DEF UpstreamFailure, Clocks
    <2>2. CASE SleepFires
      BY <1>0, <1>4, <2>0, <2>2 DEF SleepFires, loopVars, Clocks
    <2>3. CASE HandleLifecycle
      <3>1. load_at' \in Times \cup {Never} /\ idle_at' \in Times \cup {Never}
        BY <1>0, <2>3 DEF HandleLifecycle, First, Clocks
      <3> QED  BY <1>0, <1>5, <2>0, <2>3, <3>1 DEF HandleLifecycle, Clocks
    <2>4. CASE \/ HandleNote \/ HandlePseudoResponse \/ HandleResponse
               \/ HandleFinished \/ HandleRequest \/ HandleFailed
      BY <1>0, <1>5, <2>0, <2>4 DEF HandleNote, HandlePseudoResponse, HandleResponse,
         HandleFinished, HandleRequest, HandleFailed, gateVars, Clocks
    <2> QED  BY <1>10, <2>1, <2>2, <2>3, <2>4 DEF CollectStep, HandleEvent
  <1>11. CASE PageStep /\ UNCHANGED <<opts, now, pc, deadline, captureVars>>
    BY <1>0, <1>4, <1>11 DEF PageStep, Clocks
  <1> QED  BY <1>6, <1>7, <1>8, <1>9, <1>10, <1>11 DEF Next

(* Every step keeps the capture's place, its context and its teardown      *)
(* typed.                                                                  *)
LEMMA CleanupKept ==
  ASSUME Typed, [Next]_vars
  PROVE  Cleanup'
  <1> USE DEF Running, Ended
  <1>0. Cleanup /\ opts \in Options /\ opts.waits \in Nat /\ opts' = opts
    BY OptionFacts, Shapes DEF Typed, Clocks
  <1>1. CASE Stage
    <2>1. CASE Navigated
      BY <1>0, <2>1 DEF Navigated, LoopTop, Cleanup, captureVars
    <2>2. CASE WaitMatches
      BY <1>0, <2>2 DEF WaitMatches, Cleanup
    <2>3. CASE \/ CreateContext \/ NewPage \/ Apply \/ FinalizeCollect \/ WaitTimesOut
               \/ WaitsDone \/ Format \/ CommandFails
      BY <1>0, <2>3 DEF CreateContext, NewPage, Apply, FinalizeCollect, WaitTimesOut,
         WaitsDone, Format, CommandFails, GoTo, captureVars, Cleanup
    <2> QED  BY <1>1, <2>1, <2>2, <2>3 DEF Stage
  <1>2. CASE Cut \/ Teardown \/ Tick \/ Stopped \/ UNCHANGED vars
    BY <1>0, <1>2 DEF Cut, CutOff, Teardown, ClosePage, DisposeContext, Tick, Stopped,
                      vars, captureVars, Cleanup
  <1>3. CASE CollectStep /\ UNCHANGED captureVars
    <2>1. pc' \in {"select", "finalize", "failed"}
      BY <1>3 DEF CollectStep, HandleEvent, HandleLifecycle, HandleNote, HandlePseudoResponse,
         HandleResponse, HandleFinished, HandleRequest, HandleFailed, UpstreamFailure,
         SleepFires, LoopTop
    <2> QED  BY <1>0, <1>3, <2>1 DEF captureVars, Cleanup
  <1>4. CASE PageStep /\ UNCHANGED <<opts, now, pc, deadline, captureVars>>
    BY <1>0, <1>4 DEF captureVars, Cleanup
  <1> QED  BY <1>1, <1>2, <1>3, <1>4 DEF Next

(* The position found is the first pattern the URL contains. *)
LEMMA FirstPositionIs ==
  ASSUME pending \in Seq(Patterns), NEW id, Position(id) # {}
  PROVE  FirstPosition(id) \in 1 .. Len(pending)
         /\ pending[FirstPosition(id)] \in Matching[id]
  <1>1. Position(id) \subseteq Nat  BY DEF Position
  <1> DEFINE Less == {ss \in Nat \X Nat : ss[1] < ss[2]}
  <1>w. IsWellFoundedOn(Less, Nat)
    BY NatLessThanWellFounded, Zenon DEF OpToRel
  <1>2. PICK k \in Position(id) : \A m \in Position(id) : <<m, k>> \notin Less
    <2> HIDE DEF Less
    <2> QED  BY <1>1, <1>w, WFMin
  <1>3. \A m \in Position(id) : k <= m
    <2> SUFFICES ASSUME NEW m \in Position(id) PROVE k <= m  OBVIOUS
    <2>1. m \in Nat /\ k \in Nat /\ ~ m < k  BY <1>1, <1>2
    <2> QED  BY <2>1
  <1>4. FirstPosition(id) \in Position(id)
    BY <1>3 DEF FirstPosition
  <1> QED  BY <1>4 DEF Position

(* What swap_remove leaves. *)
LEMMA SwapRemoveIs ==
  ASSUME NEW S, NEW s \in Seq(S), NEW pos \in 1 .. Len(s)
  PROVE  /\ SwapRemove(s, pos) \in Seq(S)
         /\ Len(SwapRemove(s, pos)) = Len(s) - 1
         /\ DOMAIN SwapRemove(s, pos) = 1 .. Len(s) - 1
         /\ \A k \in 1 .. Len(s) - 1 :
              SwapRemove(s, pos)[k] = IF k = pos THEN s[Len(s)] ELSE s[k]
  <1>1. Len(s) \in Nat /\ Len(s) - 1 \in Nat /\ \A k \in 1 .. Len(s) : s[k] \in S
    OBVIOUS
  <1>2. SwapRemove(s, pos) \in [1 .. Len(s) - 1 -> S]
    BY <1>1 DEF SwapRemove
  <1>3. SwapRemove(s, pos) \in Seq(S) /\ Len(SwapRemove(s, pos)) = Len(s) - 1
    BY <1>1, <1>2, SeqDef
  <1> QED  BY <1>1, <1>2, <1>3 DEF SwapRemove

(* Taking a pattern leaves the pending ones a shorter list of patterns.    *)
LEMMA TakePatternTyped ==
  ASSUME Lists, opts \in Options, NEW e, e.id \in Ids, TakePattern(e)
  PROVE  /\ pending' \in Seq(Patterns) /\ Len(pending') <= Len(opts.waitFor)
         /\ satisfied' \in Seq([pattern : Patterns, id : Ids])
  <1>1. /\ pending \in Seq(Patterns) /\ Len(pending) <= Len(opts.waitFor)
        /\ satisfied \in Seq([pattern : Patterns, id : Ids])
        /\ Len(pending) \in Nat /\ Len(opts.waitFor) \in Nat
    BY OptionFacts DEF Lists
  <1>2. CASE Position(e.id) = {}
    BY <1>1, <1>2 DEF TakePattern
  <1>3. CASE Position(e.id) # {}
    <2> DEFINE pos == FirstPosition(e.id)
               took == [pattern |-> pending[pos], id |-> e.id]
    <2>1. pos \in 1 .. Len(pending)  BY <1>1, <1>3, FirstPositionIs
    <2>2. pending' = SwapRemove(pending, pos) /\ satisfied' = Append(satisfied, took)
      BY <1>3 DEF TakePattern
    <2> HIDE DEF pos
    <2>3. pending[pos] \in Patterns  BY <1>1, <2>1
    <2>4. took \in [pattern : Patterns, id : Ids]  BY <2>3
    <2> HIDE DEF took
    <2>5. satisfied' \in Seq([pattern : Patterns, id : Ids])  BY <1>1, <2>2, <2>4
    <2>6. pending' \in Seq(Patterns) /\ Len(pending') = Len(pending) - 1
      BY <1>1, <2>1, <2>2, SwapRemoveIs
    <2> QED  BY <1>1, <2>5, <2>6
  <1> QED  BY <1>2, <1>3

(* Recording a typed entry leaves the list typed.                          *)
LEMMA RecordTyped ==
  ASSUME Lists, NEW id \in Ids, NEW entry \in Entries, resources' = Record(id, entry)
  PROVE  /\ DOMAIN resources' \subseteq Ids
         /\ \A i \in DOMAIN resources' : resources'[i] \in Entries
  BY DEF Lists, Record

(* What is on record of a request, or is begun for it, is an entry.        *)
LEMMA EntryTyped ==
  ASSUME Lists, NEW id \in Ids
  PROVE  Entry(id) \in Entries
  <1>1. Blank \in Entries  BY DEF Blank, Entries
  <1> QED  BY <1>1 DEF Entry, Recorded, Lists

(* Noting a document keeps document, final URL and redirects typed.        *)
LEMMA NoteDocumentTyped ==
  ASSUME Lists, NEW e, e.id \in Ids, e.status \in Statuses, NoteDocument(e)
  PROVE  /\ document' \in [id : Documents \cup {None}, status : Nat]
         /\ final_url' \in Documents \cup {None} /\ redirects' \in Nat
  <1>1. e.status \in Nat  BY Numbered
  <1>2. document' \in [id : Documents \cup {None}, status : Nat]
    BY <1>1 DEF NoteDocument, Lists
  <1>3. final_url' \in Documents \cup {None} /\ redirects' \in Nat
    BY DEF NoteDocument, Lists
  <1> QED  BY <1>2, <1>3

(* Hearing an event adds it, under one of the four kinds.                  *)
LEMMA HearTyped ==
  ASSUME Lists, NEW e \in Stamped \cup Answers, e.id \in Ids, NEW kind \in Kinds,
         Hear(kind, e)
  PROVE  heard' \in [Ids -> Seq(Happening)]
  <1> DEFINE it == [kind |-> kind, event |-> e]
  <1>1. it \in Happening  BY DEF Happening
  <1>2. heard \in [Ids -> Seq(Happening)]  BY DEF Lists
  <1>3. heard' = [heard EXCEPT ![e.id] = Append(@, it)]  BY DEF Hear
  <1> HIDE DEF it
  <1>4. Append(heard[e.id], it) \in Seq(Happening)  BY <1>1, <1>2
  <1> QED  BY <1>2, <1>3, <1>4

(* Every handler leaves what the loop collects typed.                      *)
LEMMA HandlersKeepLists ==
  ASSUME Typed, HandleEvent, UNCHANGED <<pageVars, opts>>
  PROVE  Lists'
  <1>0. /\ Lists /\ Queues /\ opts \in Options /\ wire' = wire /\ opts' = opts
        /\ {"response", "finished", "request", "failed"} \subseteq StreamNames
    BY DEF Typed, Clocks, pageVars, StreamNames
  <1>c. Times' = Times /\ Entries' = Entries
    BY DEF Times, TotalDeadline, Entries
  <1>1. CASE HandleLifecycle \/ HandleNote \/ HandlePseudoResponse
    BY <1>0, <1>1, <1>c DEF HandleLifecycle, HandleNote, HandlePseudoResponse, abortVars,
                      httpVars, Lists
  <1>2. CASE HandleResponse
    <2> DEFINE e == Head(streams["response"])
    <2>1. e.id \in Ids /\ e.status \in Statuses /\ e \in Answers
      BY <1>0, <1>2, TakeKeepsQueues DEF HandleResponse, Signal, Answers
    <2>2. /\ TakePattern(e) /\ NoteDocument(e) /\ Hear("response", e)
          /\ UNCHANGED abortVars
          /\ resources' = IF opts.lean THEN resources
                          ELSE Record(e.id, [Entry(e.id) EXCEPT !.url = e.id, !.status = e.status])
      BY <1>2 DEF HandleResponse
    <2> HIDE DEF e
    <2>3. [Entry(e.id) EXCEPT !.url = e.id, !.status = e.status] \in Entries
      BY <1>0, <2>1, EntryTyped DEF Entries
    <2>4. /\ DOMAIN resources' \subseteq Ids
          /\ \A i \in DOMAIN resources' : resources'[i] \in Entries
      BY <1>0, <2>1, <2>2, <2>3, RecordTyped DEF Lists
    <2>5. heard' \in [Ids -> Seq(Happening)]
      BY <1>0, <2>1, <2>2, HearTyped DEF Kinds
    <2>6. /\ sent_at' = sent_at /\ quick_aborts' = quick_aborts /\ failures' = failures
      BY <2>2 DEF abortVars
    <2> QED  BY <1>0, <1>c, <2>1, <2>2, <2>4, <2>5, <2>6, TakePatternTyped, NoteDocumentTyped
             DEF Lists
  <1>3. CASE HandleFinished
    <2> DEFINE e == Head(streams["finished"])
    <2>1. e.id \in Ids /\ e \in Answers
      BY <1>0, <1>3, TakeKeepsQueues DEF HandleFinished, Signal, Answers
    <2>2. /\ Hear("finished", e) /\ UNCHANGED <<pending, abortVars, httpVars, satisfied>>
          /\ resources' = IF Recorded(e.id) THEN [resources EXCEPT ![e.id].sized = TRUE]
                          ELSE resources
      BY <1>3 DEF HandleFinished
    <2> HIDE DEF e
    <2>3. /\ DOMAIN resources' \subseteq Ids
          /\ \A i \in DOMAIN resources' : resources'[i] \in Entries
      <3> DEFINE id == e.id
      <3>1. resources' = IF Recorded(id) THEN [resources EXCEPT ![id].sized = TRUE]
                         ELSE resources
        BY <2>2
      <3> HIDE DEF id
      <3>2. DOMAIN resources \subseteq Ids /\ \A i \in DOMAIN resources : resources[i] \in Entries
        BY <1>0 DEF Lists
      <3>3. /\ DOMAIN resources' = DOMAIN resources
            /\ \A i \in DOMAIN resources : \/ resources'[i] = resources[i]
                                           \/ resources'[i] = [resources[i] EXCEPT !.sized = TRUE]
        BY ONLY <3>1
      <3>4. \A entry \in Entries : [entry EXCEPT !.sized = TRUE] \in Entries
        BY DEF Entries
      <3> QED  BY ONLY <3>2, <3>3, <3>4
    <2>4. heard' \in [Ids -> Seq(Happening)]
      BY <1>0, <2>1, <2>2, HearTyped DEF Kinds
    <2> QED  BY <1>0, <1>c, <2>2, <2>3, <2>4 DEF Lists, abortVars, httpVars
  <1>4. CASE HandleRequest
    <2> DEFINE e == Head(streams["request"])
               entry == [Entry(e.id) EXCEPT !.url = IF @ = None THEN e.id ELSE @,
                                            !.initiator = TRUE]
    <2>1. e.id \in Ids /\ e.ts \in Times /\ e \in Stamped
      BY <1>0, <1>4, TakeKeepsQueues DEF HandleRequest, Signal, Stamped
    <2>2. /\ UNCHANGED <<pending, quick_aborts, failures, httpVars, satisfied>>
          /\ \/ UNCHANGED <<resources, sent_at, heard>>
             \/ /\ resources' = Record(e.id, entry)
                /\ sent_at' = [sent_at EXCEPT ![e.id] = e.ts]
                /\ Hear("request", e)
      BY <1>4 DEF HandleRequest
    <2> HIDE DEF e
    <2>3. entry \in Entries
      BY <1>0, <2>1, EntryTyped DEF Entries
    <2> HIDE DEF entry
    <2>4. /\ DOMAIN resources' \subseteq Ids
          /\ \A i \in DOMAIN resources' : resources'[i] \in Entries
      BY <1>0, <2>1, <2>2, <2>3, RecordTyped DEF Lists
    <2>5. heard' \in [Ids -> Seq(Happening)]
      BY <1>0, <2>1, <2>2, HearTyped DEF Kinds, Lists
    <2>6. sent_at' \in [Ids -> Times \cup {Never}]
      BY <1>0, <2>1, <2>2 DEF Lists
    <2> QED  BY <1>0, <1>c, <2>2, <2>4, <2>5, <2>6 DEF Lists, httpVars
  <1>5. CASE HandleFailed
    <2> DEFINE e == Head(streams["failed"])
               url == Entry(e.id).url
    <2>1. e.id \in Ids /\ e \in Stamped
      BY <1>0, <1>5, TakeKeepsQueues DEF HandleFailed, Signal, Stamped
    <2>2. /\ UNCHANGED <<pending, resources, sent_at, httpVars, satisfied>>
          /\ \/ UNCHANGED <<quick_aborts, failures, heard>>
             \/ /\ Hear("failed", e)
                /\ \/ quick_aborts' = quick_aborts \cup {e.id} /\ UNCHANGED failures
                   \/ failures' = Append(failures, [id |-> e.id, url |-> url])
                      /\ UNCHANGED quick_aborts
      BY <1>5 DEF HandleFailed
    <2>3. url \in Ids \cup {None}
      BY <1>0, <2>1, EntryTyped DEF Entries
    <2> HIDE DEF e, url
    <2>4. heard' \in [Ids -> Seq(Happening)]
      BY <1>0, <2>1, <2>2, HearTyped DEF Kinds, Lists
    <2>5. [id |-> e.id, url |-> url] \in [id : Ids, url : Ids \cup {None}]
      BY <2>1, <2>3
    <2>6. failures' \in Seq([id : Ids, url : Ids \cup {None}]) /\ quick_aborts' \subseteq Ids
      <3> DEFINE note == [id |-> e.id, url |-> url]
                 Notes == [id : Ids, url : Ids \cup {None}]
      <3>1. note \in Notes /\ failures \in Seq(Notes) /\ quick_aborts \subseteq Ids
        BY <1>0, <2>5 DEF Lists
      <3>2. failures' \in {failures, Append(failures, note)}
            /\ quick_aborts' \in {quick_aborts, quick_aborts \cup {e.id}}
        BY <2>2
      <3> HIDE DEF note, Notes
      <3>3. failures' \in Seq(Notes) /\ quick_aborts' \subseteq Ids
        BY <2>1, <3>1, <3>2
      <3> QED  BY <3>3 DEF Notes
    <2>7. /\ pending' = pending /\ resources' = resources /\ sent_at' = sent_at
          /\ document' = document /\ final_url' = final_url /\ redirects' = redirects
          /\ satisfied' = satisfied
      BY <2>2 DEF httpVars
    <2> QED  BY <1>0, <1>c, <2>4, <2>6, <2>7 DEF Lists
  <1> QED  BY <1>1, <1>2, <1>3, <1>4, <1>5 DEF HandleEvent

(* Every step leaves what the loop collects typed.                         *)
LEMMA ListsKept ==
  ASSUME Typed, [Next]_vars
  PROVE  Lists'
  <1>0. /\ Lists /\ opts \in Options /\ opts' = opts /\ Times' = Times /\ Entries' = Entries
        /\ opts.waitFor \in Seq(Patterns)
    BY Shapes, OptionFacts DEF Typed, Clocks, Times, TotalDeadline, Entries
  <1>1. CASE DropLocals
    <2>1. /\ wire' = [id \in Ids |-> "unused"] /\ pending' = opts.waitFor /\ resources' = << >>
          /\ sent_at' = [id \in Ids |-> Never] /\ quick_aborts' = {} /\ failures' = << >>
          /\ document' = [id |-> None, status |-> 0] /\ final_url' = None /\ redirects' = 0
          /\ heard' = [id \in Ids |-> << >>] /\ satisfied' = << >>
      BY <1>1 DEF DropLocals, NotSent, NoDocument, Unheard
    <2>2. DOMAIN resources' = {}  BY <2>1
    <2>3. wire' \in [Ids -> Wires] /\ sent_at' \in [Ids -> Times \cup {Never}]
          /\ heard' \in [Ids -> Seq(Happening)]
      BY <2>1 DEF Wires
    <2>4. Len(opts.waitFor) <= Len(opts.waitFor)  BY <1>0
    <2>5. document' \in [id : Documents \cup {None}, status : Nat]  BY <2>1
    <2> QED  BY <1>0, <2>1, <2>2, <2>3, <2>4, <2>5 DEF Lists
  <1>2. CASE UNCHANGED <<pageVars, coreVars>>
    BY <1>0, <1>2 DEF Lists, pageVars, coreVars, abortVars, httpVars
  <1>3. CASE PageStep
    BY <1>0, <1>3, PageEmits DEF PageStep, Lists, abortVars, httpVars
  <1>4. CASE HandleEvent /\ UNCHANGED pageVars
    BY <1>0, <1>4, HandlersKeepLists
  <1> QED  BY <1>1, <1>2, <1>3, <1>4, Shapes

(* A capture starts typed.                                                 *)
LEMMA TypedStarts == Init => Typed
  <1> SUFFICES ASSUME Init PROVE Typed  OBVIOUS
  <1>0. opts \in Options /\ opts.waitFor \in Seq(Patterns) /\ opts.waits \in Nat
    BY OptionFacts DEF Init
  <1>1. Queues
    <2>1. streams = [n \in StreamNames |-> << >>]
      BY DEF Init, LocalsAtStart, NoStreams
    <2>2. "response" \in StreamNames  BY DEF StreamNames
    <2>3. \A S : << >> \in Seq(S)  OBVIOUS
    <2>4. DOMAIN << >> = {}  OBVIOUS
    <2>5. \A n \in StreamNames : streams[n] = << >> /\ streams[n] \in Seq(Signal(n))
      BY <2>1, <2>3
    <2> QED  BY <2>1, <2>2, <2>4, <2>5 DEF Queues
  <1>2. Clocks
    <2>1. /\ now = 0 /\ deadline = 0 /\ last_event_at = 0 /\ stop_at = 0
          /\ load_at = Never /\ idle_at = Never
      BY DEF Init, LocalsAtStart
    <2> QED  BY <1>0, <2>1, Numbered DEF Clocks, Times
  <1>3. Lists
    <2>1. /\ wire = [id \in Ids |-> IF id \in opts.page THEN "new" ELSE "unused"]
          /\ pending = opts.waitFor /\ resources = << >>
          /\ sent_at = [id \in Ids |-> Never] /\ quick_aborts = {} /\ failures = << >>
          /\ document = [id |-> None, status |-> 0] /\ final_url = None /\ redirects = 0
          /\ heard = [id \in Ids |-> << >>] /\ satisfied = << >>
      BY DEF Init, LocalsAtStart, NotSent, NoDocument, Unheard
    <2>2. DOMAIN resources = {}  BY <2>1
    <2>3. wire \in [Ids -> Wires] /\ sent_at \in [Ids -> Times \cup {Never}]
          /\ heard \in [Ids -> Seq(Happening)]
      BY <2>1 DEF Wires
    <2>4. Len(opts.waitFor) <= Len(opts.waitFor)  BY <1>0
    <2>5. document \in [id : Documents \cup {None}, status : Nat]  BY <2>1
    <2> QED  BY <1>0, <2>1, <2>2, <2>3, <2>4, <2>5 DEF Lists
  <1>4. Cleanup
    BY <1>0 DEF Init, Cleanup, Running
  <1> QED  BY <1>1, <1>2, <1>3, <1>4 DEF Typed

(* A capture stays typed.                                                  *)
LEMMA AlwaysTyped == Spec => []Typed
  <1>1. Typed /\ [Next]_vars => Typed'
    BY QueuesKept, ClocksKept, ListsKept, CleanupKept DEF Typed
  <1> QED  BY <1>1, TypedStarts, PTL DEF Spec

(* Every variable of a capture keeps its type; in particular a stream that *)
(* was not registered stays empty, and the waits stay within their number. *)
THEOREM CaptureTypeOK == Spec => []TypeOK
  <1>1. Typed => TypeOK
    BY DEF Typed, Queues, Clocks, Lists, Cleanup, TypeOK, Wires
  <1> QED  BY <1>1, AlwaysTyped, PTL

-----------------------------------------------------------------------------
(* The list of resources.                                                  *)

(* Nothing of this id has changed. *)
LEMMA RecorderElsewhere ==
  ASSUME NEW id \in Ids, Recorder(id), opts' = opts, told'[id] = told[id],
         sent_at'[id] = sent_at[id], id \in quick_aborts' => id \in quick_aborts,
         id \in DOMAIN resources' <=> id \in DOMAIN resources,
         Recorded(id) => resources'[id] = resources[id]
  PROVE  Recorder(id)'
  BY DEF Recorder, Recorded

(* Hearing an event adds to its own request's history only.                *)
LEMMA HeardIs ==
  ASSUME Lists, NEW e, e.id \in Ids, NEW kind, Hear(kind, e)
  PROVE  /\ heard'[e.id] = Append(heard[e.id], [kind |-> kind, event |-> e])
         /\ \A i \in Ids \ {e.id} : heard'[i] = heard[i]
         /\ told'[e.id] = told[e.id] \cup {kind}
         /\ \A i \in Ids \ {e.id} : told'[i] = told[i]
  <1> DEFINE h == heard[e.id]
             it == [kind |-> kind, event |-> e]
  <1>1. /\ heard' = [heard EXCEPT ![e.id] = Append(@, it)]
        /\ DOMAIN heard = Ids /\ h \in Seq(Happening)
    BY DEF Hear, Lists
  <1>2. heard'[e.id] = Append(h, it) /\ \A i \in Ids \ {e.id} : heard'[i] = heard[i]
    BY <1>1
  <1>3. it.kind = kind  OBVIOUS
  <1> HIDE DEF it
  <1>4. /\ DOMAIN h = 1 .. Len(h) /\ Len(h) \in Nat
        /\ DOMAIN Append(h, it) = 1 .. Len(h) + 1
        /\ \A k \in 1 .. Len(h) : Append(h, it)[k] = h[k]
        /\ Append(h, it)[Len(h) + 1] = it
    BY <1>1
  <1>5. KindsIn(Append(h, it)) = KindsIn(h) \cup {kind}
    BY <1>3, <1>4 DEF KindsIn
  <1> QED  BY <1>2, <1>5 DEF told, it

(* What has been told of a request is what its history holds.              *)
LEMMA ToldIs ==
  ASSUME NEW id \in Ids
  PROVE  /\ \A kind : kind \in told[id] <=> Heard(heard[id], {kind})
         /\ told[id] \cap Starts # {} <=> Heard(heard[id], Starts)
  BY DEF told, KindsIn, Heard

(* What is not heard is not told.                                          *)
LEMMA ToldSame == ASSUME UNCHANGED heard PROVE told' = told
  BY DEF told

(* A handler hears at most one event, and only HandleFailed a failure.     *)
LEMMA HandlersHear ==
  ASSUME Typed, HandleEvent, UNCHANGED opts
  PROVE  \/ UNCHANGED heard
         \/ \E kind \in Kinds, e \in Stamped \cup Answers :
              e.id \in Ids /\ Hear(kind, e) /\ (kind = "failed" => HandleFailed)
  <1>0. Queues /\ {"response", "finished", "request", "failed"} \subseteq StreamNames
    BY DEF Typed, StreamNames
  <1>1. CASE HandleResponse
    <2> DEFINE e == Head(streams["response"])
    <2>1. e \in Answers /\ e.id \in Ids
      BY <1>0, <1>1, TakeKeepsQueues DEF HandleResponse, Signal, Answers
    <2>2. Hear("response", e)  BY <1>1 DEF HandleResponse
    <2> HIDE DEF e
    <2> QED  BY <2>1, <2>2 DEF Kinds
  <1>2. CASE HandleFinished
    <2> DEFINE e == Head(streams["finished"])
    <2>1. e \in Answers /\ e.id \in Ids
      BY <1>0, <1>2, TakeKeepsQueues DEF HandleFinished, Signal, Answers
    <2>2. Hear("finished", e)  BY <1>2 DEF HandleFinished
    <2> HIDE DEF e
    <2> QED  BY <2>1, <2>2 DEF Kinds
  <1>3. CASE HandleRequest
    <2> DEFINE e == Head(streams["request"])
    <2>1. e \in Stamped /\ e.id \in Ids
      BY <1>0, <1>3, TakeKeepsQueues DEF HandleRequest, Signal, Stamped
    <2>2. UNCHANGED heard \/ Hear("request", e)  BY <1>3 DEF HandleRequest
    <2> HIDE DEF e
    <2> QED  BY <2>1, <2>2 DEF Kinds
  <1>4. CASE HandleFailed
    <2> DEFINE e == Head(streams["failed"])
    <2>1. e \in Stamped /\ e.id \in Ids
      BY <1>0, <1>4, TakeKeepsQueues DEF HandleFailed, Signal, Stamped
    <2>2. UNCHANGED heard \/ Hear("failed", e)  BY <1>4 DEF HandleFailed
    <2> HIDE DEF e
    <2> QED  BY <1>4, <2>1, <2>2 DEF Kinds
  <1>5. CASE HandleLifecycle \/ HandleNote \/ HandlePseudoResponse
    BY <1>5 DEF HandleLifecycle, HandleNote, HandlePseudoResponse
  <1> QED  BY <1>1, <1>2, <1>3, <1>4, <1>5 DEF HandleEvent

(* Recording an entry touches its own request's only.                      *)
LEMMA RecordIs ==
  ASSUME NEW id, NEW entry, resources' = Record(id, entry)
  PROVE  /\ id \in DOMAIN resources' /\ resources'[id] = entry
         /\ \A i : i # id => /\ i \in DOMAIN resources' <=> i \in DOMAIN resources
                             /\ i \in DOMAIN resources => resources'[i] = resources[i]
  BY DEF Record

(* The fields of an entry.                                                 *)
LEMMA EntryFields ==
  ASSUME NEW entry \in Entries
  PROVE  /\ DOMAIN entry = {"url", "status", "sized", "initiator"}
         /\ entry.sized \in BOOLEAN /\ entry.initiator \in BOOLEAN
  BY DEF Entries

(* A response records its status, before or after its request.             *)
LEMMA ResponseKeepsRecorder ==
  ASSUME Typed, \A id \in Ids : Recorder(id), HandleResponse, UNCHANGED opts, NEW id \in Ids
  PROVE  Recorder(id)'
  <1> DEFINE e == Head(streams["response"])
             entry == [Entry(e.id) EXCEPT !.url = e.id, !.status = e.status]
  <1>0. Queues /\ Lists /\ "response" \in StreamNames
    BY DEF Typed, StreamNames
  <1>1. e.id \in Real /\ e.id \in Ids /\ e.status \in Statuses
    BY <1>0, TakeKeepsQueues DEF HandleResponse, Signal, Answers
  <1>2. /\ Hear("response", e) /\ UNCHANGED abortVars
        /\ resources' = IF opts.lean THEN resources ELSE Record(e.id, entry)
    BY DEF HandleResponse
  <1>3. Entry(e.id) \in Entries  BY <1>0, <1>1, EntryTyped
  <1>4. /\ entry.url = e.id /\ entry.status = e.status /\ entry.sized = Entry(e.id).sized
        /\ entry.initiator = Entry(e.id).initiator
    BY <1>3, EntryFields
  <1> HIDE DEF e, entry
  <1>5. /\ told'[e.id] = told[e.id] \cup {"response"}
        /\ \A i \in Ids \ {e.id} : told'[i] = told[i]
    BY <1>0, <1>1, <1>2, HeardIs
  <1>6. sent_at' = sent_at /\ quick_aborts' = quick_aborts
    BY <1>2 DEF abortVars
  <1>7. Recorder(id) /\ Recorder(e.id)  BY <1>1
  <1>8. CASE opts.lean
    BY <1>5, <1>6, <1>7, <1>8 DEF Recorder
  <1>9. CASE ~opts.lean /\ id = e.id
    <2>1. id \in DOMAIN resources' /\ resources'[id] = entry
      BY <1>2, <1>9, RecordIs
    <2>2. /\ Entry(e.id).sized => "finished" \in told[e.id]
          /\ Entry(e.id).initiator <=> "request" \in told[e.id]
      BY <1>1, <1>7, <1>9 DEF Recorder, Entry, Blank, Recorded
    <2>3. e.status # 0  BY <1>1, Numbered
    <2> QED  BY <1>1, <1>4, <1>5, <1>6, <1>7, <1>9, <2>1, <2>2, <2>3 DEF Recorder, Recorded
  <1>10. CASE ~opts.lean /\ id # e.id
    BY <1>2, <1>5, <1>6, <1>7, <1>10, RecordIs, RecorderElsewhere DEF Recorded
  <1> QED  BY <1>8, <1>9, <1>10

(* A request records its initiator, before or after its response.          *)
LEMMA RequestKeepsRecorder ==
  ASSUME Typed, \A id \in Ids : Recorder(id), HandleRequest, UNCHANGED opts, NEW id \in Ids
  PROVE  Recorder(id)'
  <1> DEFINE e == Head(streams["request"])
             entry == [Entry(e.id) EXCEPT !.url = IF @ = None THEN e.id ELSE @,
                                          !.initiator = TRUE]
  <1>0. Queues /\ Lists /\ "request" \in StreamNames
    BY DEF Typed, StreamNames
  <1>1. e.id \in Ids
    BY <1>0, TakeKeepsQueues DEF HandleRequest, Signal, Stamped
  <1>2. /\ quick_aborts' = quick_aborts
        /\ \/ UNCHANGED <<resources, sent_at, heard>>
           \/ /\ e.id \in Real /\ resources' = Record(e.id, entry)
              /\ sent_at' = [sent_at EXCEPT ![e.id] = e.ts]
              /\ Hear("request", e)
    BY <1>1 DEF HandleRequest, Real
  <1>3. Entry(e.id) \in Entries  BY <1>0, <1>1, EntryTyped
  <1>4. /\ entry.url = IF Entry(e.id).url = None THEN e.id ELSE Entry(e.id).url
        /\ entry.status = Entry(e.id).status /\ entry.sized = Entry(e.id).sized
        /\ entry.initiator = TRUE
    BY <1>3, EntryFields
  <1> HIDE DEF e, entry
  <1>7. Recorder(id) /\ Recorder(e.id)  BY <1>1
  <1>8. CASE UNCHANGED <<resources, sent_at, heard>>
    BY <1>2, <1>7, <1>8, ToldSame, RecorderElsewhere
  <1>9. CASE /\ e.id \in Real /\ resources' = Record(e.id, entry)
             /\ sent_at' = [sent_at EXCEPT ![e.id] = e.ts]
             /\ Hear("request", e)
    <2>1. /\ told'[e.id] = told[e.id] \cup {"request"}
          /\ \A i \in Ids \ {e.id} : told'[i] = told[i]
      BY <1>0, <1>1, <1>9, HeardIs
    <2>2. \A i \in Ids \ {e.id} : sent_at'[i] = sent_at[i]
      BY <1>0, <1>9 DEF Lists
    <2>3. CASE id = e.id
      <3>1. id \in DOMAIN resources' /\ resources'[id] = entry
        BY <1>9, <2>3, RecordIs
      <3>2. ~opts.lean =>
              /\ Entry(e.id).url = None \/ Entry(e.id).url = e.id
              /\ Entry(e.id).sized => "finished" \in told[e.id]
              /\ Entry(e.id).status # 0 <=> "response" \in told[e.id]
        BY <1>7, <1>9 DEF Recorder, Entry, Blank, Recorded
      <3> QED  BY <1>2, <1>4, <1>7, <1>9, <2>1, <2>3, <3>1, <3>2 DEF Recorder, Recorded
    <2>4. CASE id # e.id
      BY <1>2, <1>7, <1>9, <2>1, <2>2, <2>4, RecordIs, RecorderElsewhere DEF Recorded
    <2> QED  BY <2>3, <2>4
  <1> QED  BY <1>2, <1>8, <1>9

(* Every handler keeps record and history of a request in step.            *)
LEMMA HandlersKeepRecorder ==
  ASSUME Typed, \A id \in Ids : Recorder(id), HandleEvent, UNCHANGED opts, NEW id \in Ids
  PROVE  Recorder(id)'
  <1>0. /\ Queues /\ Lists /\ {"finished", "failed"} \subseteq StreamNames
        /\ Recorder(id)
    BY DEF Typed, StreamNames
  <1>1. CASE HandleLifecycle \/ HandleNote \/ HandlePseudoResponse
    BY <1>0, <1>1, ToldSame DEF HandleLifecycle, HandleNote, HandlePseudoResponse,
                                abortVars, Recorder, Recorded
  <1>2. CASE HandleResponse
    BY <1>2, ResponseKeepsRecorder
  <1>3. CASE HandleRequest
    BY <1>3, RequestKeepsRecorder
  <1>4. CASE HandleFinished
    <2> DEFINE e == Head(streams["finished"])
               i == e.id
    <2>1. e.id \in Ids
      BY <1>0, <1>4, TakeKeepsQueues DEF HandleFinished, Signal, Answers
    <2>2. /\ Hear("finished", e) /\ UNCHANGED abortVars
          /\ resources' = IF Recorded(i) THEN [resources EXCEPT ![i].sized = TRUE]
                          ELSE resources
      BY <1>4 DEF HandleFinished
    <2> HIDE DEF e
    <2>3. /\ told'[i] = told[i] \cup {"finished"}
          /\ \A j \in Ids \ {i} : told'[j] = told[j]
      BY <1>0, <2>1, <2>2, HeardIs
    <2> HIDE DEF i
    <2>4. /\ DOMAIN resources' = DOMAIN resources
          /\ \A j \in DOMAIN resources \ {i} : resources'[j] = resources[j]
      BY <2>2
    <2>5. CASE id = i /\ Recorded(i)
      <3>1. resources[i] \in Entries  BY <1>0, <2>5 DEF Lists, Recorded
      <3>2. resources'[i] = [resources[i] EXCEPT !.sized = TRUE]
        BY <2>2, <2>5 DEF Recorded
      <3>3. /\ resources'[i].url = resources[i].url /\ resources'[i].status = resources[i].status
            /\ resources'[i].initiator = resources[i].initiator
        BY <3>1, <3>2, EntryFields
      <3> QED  BY <1>0, <2>2, <2>3, <2>4, <2>5, <3>3 DEF Recorder, Recorded, abortVars
    <2>6. CASE id = i /\ ~Recorded(i)
      BY <1>0, <2>2, <2>3, <2>4, <2>6 DEF Recorder, Recorded, abortVars
    <2>7. CASE id # i
      BY <1>0, <2>2, <2>3, <2>4, <2>7, RecorderElsewhere DEF Recorded, abortVars
    <2> QED  BY <2>5, <2>6, <2>7
  <1>5. CASE HandleFailed
    <2> DEFINE e == Head(streams["failed"])
    <2>1. e.id \in Ids
      BY <1>0, <1>5, TakeKeepsQueues DEF HandleFailed, Signal, Stamped
    <2>2. /\ UNCHANGED <<resources, sent_at>>
          /\ \/ UNCHANGED <<quick_aborts, heard>>
             \/ /\ Hear("failed", e)
                /\ \/ sent_at[e.id] # Never /\ quick_aborts' = quick_aborts \cup {e.id}
                   \/ UNCHANGED quick_aborts
      BY <1>5 DEF HandleFailed, IsQuickAbort
    <2> HIDE DEF e
    <2>3. Recorder(e.id)  BY <2>1
    <2>4. CASE UNCHANGED <<quick_aborts, heard>>
      BY <1>0, <2>2, <2>4, ToldSame, RecorderElsewhere
    <2>5. CASE /\ Hear("failed", e)
               /\ \/ sent_at[e.id] # Never /\ quick_aborts' = quick_aborts \cup {e.id}
                  \/ UNCHANGED quick_aborts
      <3>1. /\ told'[e.id] = told[e.id] \cup {"failed"}
            /\ \A j \in Ids \ {e.id} : told'[j] = told[j]
        BY <1>0, <2>1, <2>5, HeardIs
      <3>2. CASE id = e.id
        BY <2>2, <2>3, <2>5, <3>1, <3>2 DEF Recorder, Recorded
      <3>3. CASE id # e.id
        BY <1>0, <2>2, <2>5, <3>1, <3>3, RecorderElsewhere
      <3> QED  BY <3>2, <3>3
    <2> QED  BY <2>2, <2>4, <2>5
  <1> QED  BY <1>1, <1>2, <1>3, <1>4, <1>5 DEF HandleEvent

(* Every failure that was noted is one of a request.                       *)
LEMMA FailureIds ==
  ASSUME Lists
  PROVE  \A k \in DOMAIN failures : failures[k].id \in Ids
  <1> DEFINE Notes == [id : Ids, url : Ids \cup {None}]
  <1>1. failures \in Seq(Notes)  BY DEF Lists
  <1> HIDE DEF Notes
  <1>2. \A k \in DOMAIN failures : failures[k] \in Notes  BY <1>1
  <1> QED  BY <1>2 DEF Notes

(* A step that neither sends, takes nor hears a failure. *)
LEMMA NoFailureMoves ==
  ASSUME FailsOnce, Lists, streams'["failed"] = streams["failed"],
         \A id \in Ids : wire[id] = "failed" => wire'[id] = "failed",
         \A k \in DOMAIN streams["failed"] : streams["failed"][k].id \in Ids,
         \A id \in Ids : "failed" \in told'[id] <=> "failed" \in told[id],
         UNCHANGED <<failures, quick_aborts>>
  PROVE  FailsOnce'
  <1>1. \A k \in DOMAIN failures : failures[k].id \in Ids
    BY FailureIds
  <1>2. \A k \in DOMAIN streams'["failed"] :
          /\ wire'[streams'["failed"][k].id] = "failed"
          /\ "failed" \notin told'[streams'["failed"][k].id]
          /\ \A m \in DOMAIN streams'["failed"] :
               streams'["failed"][m].id = streams'["failed"][k].id => m = k
    BY DEF FailsOnce
  <1>3. \A id \in Ids : "failed" \in told'[id] => wire'[id] = "failed"
    BY DEF FailsOnce
  <1>4. \A k \in DOMAIN failures' :
          /\ "failed" \in told'[failures'[k].id] /\ failures'[k].id \notin quick_aborts'
          /\ \A m \in DOMAIN failures' : failures'[m].id = failures'[k].id => m = k
    BY <1>1 DEF FailsOnce
  <1> QED  BY <1>2, <1>3, <1>4 DEF FailsOnce

(* The page fails a request at most once.                                  *)
LEMMA PageKeepsFailsOnce ==
  ASSUME Typed, FailsOnce, PageStep
  PROVE  FailsOnce'
  <1>0. Queues /\ Lists /\ "failed" \in StreamNames
    BY DEF Typed, StreamNames
  <1>1. told' = told /\ UNCHANGED <<failures, quick_aborts>>
    BY ToldSame DEF PageStep, abortVars
  <1>2. PICK s \in StreamNames : \E e \in Signal(s) :
          /\ Emit(s, e)
          /\ s = "failed" => wire[e.id] # "failed" /\ wire'[e.id] = "failed"
          /\ \A id \in Ids : wire[id] = "failed" => wire'[id] = "failed"
    BY <1>0, PageEmits
  <1>3. PICK e \in Signal(s) :
          /\ Emit(s, e)
          /\ s = "failed" => wire[e.id] # "failed" /\ wire'[e.id] = "failed"
          /\ \A id \in Ids : wire[id] = "failed" => wire'[id] = "failed"
    BY <1>2
  <1>4. /\ streams["failed"] \in Seq(Stamped)
        /\ \A k \in DOMAIN streams["failed"] : streams["failed"][k].id \in Ids
    <2>1. streams["failed"] \in Seq(Stamped)  BY <1>0 DEF Queues, Signal
    <2>2. \A k \in DOMAIN streams["failed"] : streams["failed"][k] \in Stamped  BY <2>1
    <2> QED  BY <2>1, <2>2 DEF Stamped
  <1>5. CASE streams'["failed"] = streams["failed"]
    BY <1>0, <1>1, <1>3, <1>4, <1>5, NoFailureMoves
  <1>6. CASE s = "failed" /\ streams' = [streams EXCEPT !["failed"] = Append(@, e)]
    <2>1. e \in Stamped /\ e.id \in Ids
      BY <1>6 DEF Signal, Stamped
    <2>2. streams'["failed"] = Append(streams["failed"], e)
      BY <1>0, <1>6 DEF Queues
    <2>3. /\ \A k \in DOMAIN streams'["failed"] :
               \/ k \in DOMAIN streams["failed"] /\ streams'["failed"][k] = streams["failed"][k]
               \/ k = Len(streams["failed"]) + 1 /\ streams'["failed"][k] = e
      BY <1>4, <2>1, <2>2
    <2>4. \A k \in DOMAIN streams["failed"] : streams["failed"][k].id # e.id
      BY <1>3, <1>6 DEF FailsOnce
    <2>5. "failed" \notin told[e.id]
      BY <1>3, <1>6, <2>1 DEF FailsOnce
    <2>6. \A k \in DOMAIN streams'["failed"] :
            /\ wire'[streams'["failed"][k].id] = "failed"
            /\ "failed" \notin told'[streams'["failed"][k].id]
      BY <1>1, <1>3, <1>4, <1>6, <2>3, <2>5 DEF FailsOnce
    <2>7. \A k, m \in DOMAIN streams'["failed"] :
            streams'["failed"][m].id = streams'["failed"][k].id => m = k
      BY <2>3, <2>4 DEF FailsOnce
    <2>8. \A id \in Ids : "failed" \in told'[id] => wire'[id] = "failed"
      BY <1>1, <1>3 DEF FailsOnce
    <2> QED  BY <1>1, <2>6, <2>7, <2>8 DEF FailsOnce
  <1>7. s # "failed" \/ UNCHANGED streams => streams'["failed"] = streams["failed"]
    BY <1>0, <1>3 DEF Emit, Queues
  <1> QED  BY <1>3, <1>5, <1>6, <1>7 DEF Emit

(* The handler notes a failure once, or takes it for a quick abort.        *)
LEMMA HandleFailedKeepsFailsOnce ==
  ASSUME Typed, Reported, HandleFailed, UNCHANGED <<pageVars, opts>>
  PROVE  FailsOnce'
  <1> DEFINE e == Head(streams["failed"])
             note == [id |-> e.id, url |-> Entry(e.id).url]
             queue == streams["failed"]
  <1>f. FailsOnce  BY DEF Reported
  <1>0. /\ Queues /\ Lists /\ "failed" \in StreamNames /\ wire' = wire
        /\ \A k \in DOMAIN failures : failures[k].id \in Ids
        /\ failures \in Seq([id : Ids, url : Ids \cup {None}])
    <2>1. Lists  BY DEF Typed
    <2> QED  BY <2>1, FailureIds DEF Typed, StreamNames, pageVars, Lists
  <1>1. /\ e \in Stamped /\ e = queue[1] /\ 1 \in DOMAIN queue
        /\ DOMAIN queue = 1 .. Len(queue) /\ Len(queue) \in Nat
        /\ \A k \in DOMAIN queue' : k + 1 \in DOMAIN queue /\ queue'[k] = queue[k + 1]
    BY <1>0, TakeKeepsQueues DEF HandleFailed, Signal
  <1>2. \A k \in DOMAIN queue : queue[k].id \in Ids
    <2>1. queue \in Seq(Stamped)  BY <1>0 DEF Queues, Signal
    <2>2. \A k \in DOMAIN queue : queue[k] \in Stamped  BY <2>1
    <2> QED  BY <2>2 DEF Stamped
  <1>3. \/ UNCHANGED <<quick_aborts, failures, heard>>
        \/ /\ Hear("failed", e)
           /\ \/ quick_aborts' = quick_aborts \cup {e.id} /\ UNCHANGED failures
              \/ failures' = Append(failures, note) /\ UNCHANGED quick_aborts
    BY DEF HandleFailed
  <1>4. DOMAIN queue' \subseteq Nat \ {0}
    <2>1. queue' \in Seq(Signal("failed")')
      <3>1. Queues'  BY <1>0, TakeKeepsQueues DEF HandleFailed
      <3> QED  BY <1>0, <3>1 DEF Queues
    <2> QED  BY <2>1
  <1>5. /\ wire[e.id] = "failed" /\ "failed" \notin told[e.id] /\ e.id \in Ids
        /\ \A k \in DOMAIN queue : queue[k].id = e.id => k = 1
    BY <1>f, <1>1, <1>2 DEF FailsOnce
  <1>6. note.id = e.id  OBVIOUS
  <1>7. /\ \A k \in DOMAIN queue' : /\ queue'[k].id \in Ids /\ queue'[k].id # e.id
                                    /\ wire[queue'[k].id] = "failed"
                                    /\ "failed" \notin told[queue'[k].id]
        /\ \A k, m \in DOMAIN queue' : queue'[m].id = queue'[k].id => m = k
    <2>1. ASSUME NEW k \in DOMAIN queue'
          PROVE  /\ queue'[k].id \in Ids /\ queue'[k].id # e.id
                 /\ wire[queue'[k].id] = "failed"
                 /\ "failed" \notin told[queue'[k].id]
      <3>1. k + 1 \in DOMAIN queue /\ queue'[k] = queue[k + 1] /\ k \in Nat /\ k + 1 # 1
        BY <1>1, <1>4, <2>1
      <3>2. queue[k + 1].id # e.id /\ queue[k + 1].id \in Ids  BY <1>2, <1>5, <3>1
      <3>3. wire[queue[k + 1].id] = "failed" /\ "failed" \notin told[queue[k + 1].id]
        BY <1>f, <3>1 DEF FailsOnce
      <3> HIDE DEF queue, e
      <3> QED  BY <3>1, <3>2, <3>3
    <2>2. ASSUME NEW k \in DOMAIN queue', NEW m \in DOMAIN queue', queue'[m].id = queue'[k].id
          PROVE  m = k
      <3>1. /\ k + 1 \in DOMAIN queue /\ queue'[k] = queue[k + 1] /\ k \in Nat
            /\ m + 1 \in DOMAIN queue /\ queue'[m] = queue[m + 1] /\ m \in Nat
        BY <1>1, <1>4
      <3>2. m + 1 = k + 1  BY <1>f, <2>2, <3>1 DEF FailsOnce
      <3> QED  BY <3>1, <3>2
    <2> QED  BY <2>1, <2>2
  <1> DEFINE kept == streams'["failed"]
  <1>8. /\ \A k \in DOMAIN kept : /\ kept[k].id \in Ids /\ kept[k].id # e.id
                                  /\ wire[kept[k].id] = "failed"
                                  /\ "failed" \notin told[kept[k].id]
        /\ \A k, m \in DOMAIN kept : kept[m].id = kept[k].id => m = k
    BY <1>7
  <1> HIDE DEF e, note, queue
  <1>9. CASE UNCHANGED <<quick_aborts, failures, heard>>
    BY <1>f, <1>0, <1>8, <1>9, ToldSame DEF FailsOnce
  <1>10. CASE /\ Hear("failed", e)
              /\ \/ quick_aborts' = quick_aborts \cup {e.id} /\ UNCHANGED failures
                 \/ failures' = Append(failures, note) /\ UNCHANGED quick_aborts
    <2>1. /\ told'[e.id] = told[e.id] \cup {"failed"}
          /\ \A i \in Ids \ {e.id} : told'[i] = told[i]
      BY <1>0, <1>5, <1>10, HeardIs
    <2>2. /\ \A k \in DOMAIN kept : /\ wire'[kept[k].id] = "failed"
                                    /\ "failed" \notin told'[kept[k].id]
                                    /\ \A m \in DOMAIN kept : kept[m].id = kept[k].id => m = k
          /\ \A id \in Ids : "failed" \in told'[id] => wire'[id] = "failed"
      BY <1>f, <1>0, <1>5, <1>8, <2>1 DEF FailsOnce
    <2>3. \A k \in DOMAIN failures : failures[k].id # e.id
      BY <1>f, <1>5 DEF FailsOnce
    <2>4. CASE quick_aborts' = quick_aborts \cup {e.id} /\ UNCHANGED failures
      <3>1. \A k \in DOMAIN failures' :
              /\ "failed" \in told'[failures'[k].id] /\ failures'[k].id \notin quick_aborts'
              /\ \A m \in DOMAIN failures' : failures'[m].id = failures'[k].id => m = k
        BY <1>f, <1>0, <2>1, <2>3, <2>4 DEF FailsOnce
      <3>2. \A id \in Ids : "failed" \in told'[id] /\ id \notin quick_aborts' =>
              \E k \in DOMAIN failures' : failures'[k].id = id
        BY <1>f, <2>1, <2>4 DEF FailsOnce
      <3> QED  BY <1>f, <2>2, <3>1, <3>2 DEF FailsOnce
    <2>5. CASE failures' = Append(failures, note) /\ UNCHANGED quick_aborts
      <3>0. /\ \A k \in DOMAIN failures' :
                 \/ k \in DOMAIN failures /\ failures'[k] = failures[k]
                 \/ k = Len(failures) + 1 /\ failures'[k] = note
            /\ \A k \in DOMAIN failures : k \in DOMAIN failures' /\ failures'[k] = failures[k]
            /\ Len(failures) + 1 \in DOMAIN failures' /\ failures'[Len(failures) + 1] = note
        <4>1. Len(failures) \in Nat /\ DOMAIN failures = 1 .. Len(failures)  BY <1>0
        <4>2. /\ DOMAIN failures' = 1 .. Len(failures) + 1
              /\ \A k \in 1 .. Len(failures) : failures'[k] = failures[k]
              /\ failures'[Len(failures) + 1] = note
          BY <1>0, <2>5
        <4> QED  BY <4>1, <4>2
      <3>1. e.id \notin quick_aborts  BY <1>5 DEF Reported, Recorder
      <3>2. ASSUME NEW k \in DOMAIN failures'
            PROVE  /\ "failed" \in told'[failures'[k].id]
                   /\ failures'[k].id \notin quick_aborts'
                   /\ \A m \in DOMAIN failures' : failures'[m].id = failures'[k].id => m = k
        BY <1>f, <1>0, <1>5, <1>6, <2>1, <2>3, <2>5, <3>0, <3>1 DEF FailsOnce
      <3>3. \A id \in Ids : "failed" \in told'[id] /\ id \notin quick_aborts' =>
              \E k \in DOMAIN failures' : failures'[k].id = id
        BY <1>f, <1>6, <2>1, <2>5, <3>0 DEF FailsOnce
      <3> QED  BY <1>f, <2>2, <2>5, <3>2, <3>3 DEF FailsOnce
    <2> QED  BY <1>10, <2>4, <2>5
  <1> QED  BY <1>3, <1>9, <1>10

(* Every handler keeps what the report says of each request.               *)
LEMMA HandlersKeepReported ==
  ASSUME Typed, Reported, HandleEvent, UNCHANGED <<pageVars, opts>>
  PROVE  Reported'
  <1>0. /\ Queues /\ Lists /\ wire' = wire /\ FailsOnce
        /\ {"lifecycle", "note", "response", "finished", "request", "failed"} = StreamNames
    BY DEF Typed, StreamNames, pageVars, Reported
  <1>1. \A id \in Ids : Recorder(id)'
    BY HandlersKeepRecorder DEF Reported
  <1>2. CASE HandleFailed
    BY <1>1, <1>2, HandleFailedKeepsFailsOnce DEF Reported
  <1>3. CASE ~HandleFailed
    <2>0. \/ HandleLifecycle \/ HandleNote \/ HandlePseudoResponse \/ HandleResponse
          \/ HandleFinished \/ HandleRequest
      BY <1>3 DEF HandleEvent
    <2>1. \E s \in StreamNames \ {"failed"} : Take(s)
      BY <1>0, <2>0 DEF HandleLifecycle, HandleNote, HandlePseudoResponse, HandleResponse,
                        HandleFinished, HandleRequest
    <2>2. streams'["failed"] = streams["failed"]
      BY <1>0, <2>1, TakeKeepsQueues
    <2>3. UNCHANGED <<failures, quick_aborts>>
      BY <2>0 DEF HandleLifecycle, HandleNote, HandlePseudoResponse, HandleResponse,
                  HandleFinished, HandleRequest, abortVars
    <2>4. \/ UNCHANGED heard
          \/ \E e, kind : e.id \in Ids /\ kind # "failed" /\ Hear(kind, e)
      BY <1>3, HandlersHear
    <2>5. \A id \in Ids : "failed" \in told'[id] <=> "failed" \in told[id]
      <3>1. CASE UNCHANGED heard  BY <3>1, ToldSame
      <3>2. CASE \E e, kind : e.id \in Ids /\ kind # "failed" /\ Hear(kind, e)
        <4>1. PICK e, kind : e.id \in Ids /\ kind # "failed" /\ Hear(kind, e)
          BY <3>2
        <4>2. \A id \in Ids : told'[id] = told[id] \/ told'[id] = told[id] \cup {kind}
          BY <1>0, <4>1, HeardIs
        <4> QED  BY <4>1, <4>2
      <3> QED  BY <2>4, <3>1, <3>2
    <2>6. \A k \in DOMAIN streams["failed"] : streams["failed"][k].id \in Ids
      <3>1. streams["failed"] \in Seq(Stamped)  BY <1>0 DEF Queues, Signal
      <3>2. \A k \in DOMAIN streams["failed"] : streams["failed"][k] \in Stamped  BY <3>1
      <3> QED  BY <3>2 DEF Stamped
    <2>7. FailsOnce'
      BY <1>0, <2>2, <2>3, <2>5, <2>6, NoFailureMoves
    <2> QED  BY <1>1, <2>7 DEF Reported
  <1> QED  BY <1>2, <1>3 DEF HandleEvent

(* Before the first event, and when the locals are gone. *)
LEMMA NothingReported ==
  ASSUME streams = NoStreams, resources = << >>, sent_at = NotSent, quick_aborts = {},
         failures = << >>, heard = Unheard
  PROVE  Reported
  <1>1. /\ DOMAIN << >> = {} /\ streams["failed"] = << >>
        /\ \A id \in Ids : sent_at[id] = Never /\ told[id] = {}
    BY DEF NoStreams, StreamNames, NotSent, Unheard, told, KindsIn
  <1>2. DOMAIN resources = {} /\ DOMAIN failures = {} /\ DOMAIN streams["failed"] = {}
    BY <1>1
  <1> QED  BY <1>1, <1>2 DEF Reported, FailsOnce, Recorder, Recorded

(* So does every other step, which handles nothing.                        *)
LEMMA ReportedKept ==
  ASSUME Typed, Reported, [Next]_vars
  PROVE  Reported'
  <1>1. CASE DropLocals
    <2>1. /\ streams' = NoStreams' /\ resources' = << >> /\ sent_at' = NotSent' /\ quick_aborts' = {}
          /\ failures' = << >> /\ heard' = Unheard'
      BY <1>1 DEF DropLocals, NoStreams, NotSent, Unheard
    <2>2. /\ DOMAIN << >> = {} /\ streams'["failed"] = << >>
          /\ \A id \in Ids : sent_at'[id] = Never /\ told'[id] = {}
      BY <2>1 DEF NoStreams, StreamNames, NotSent, Unheard, told, KindsIn
    <2>3. DOMAIN resources' = {} /\ DOMAIN failures' = {} /\ DOMAIN streams'["failed"] = {}
      BY <2>1, <2>2
    <2> QED  BY <2>1, <2>2, <2>3 DEF Reported, FailsOnce, Recorder, Recorded
  <1>2. CASE UNCHANGED <<pageVars, coreVars>>
    BY <1>2, Shapes, ToldSame DEF Reported, FailsOnce, Recorder, Recorded, pageVars, coreVars,
                                  abortVars
  <1>3. CASE PageStep
    <2>1. FailsOnce'  BY <1>3, PageKeepsFailsOnce DEF Reported
    <2>2. \A id \in Ids : Recorder(id)'
      BY <1>3, Shapes, ToldSame DEF PageStep, Reported, Recorder, Recorded, abortVars
    <2> QED  BY <2>1, <2>2 DEF Reported
  <1>4. CASE HandleEvent /\ UNCHANGED pageVars
    BY <1>4, Shapes, HandlersKeepReported
  <1> QED  BY <1>1, <1>2, <1>3, <1>4, Shapes

(* The list follows the history in every state.                            *)
LEMMA AlwaysReported == Spec => []Reported
  <1>1. Init => Reported
    BY NothingReported DEF Init, LocalsAtStart
  <1>2. Typed /\ Reported /\ [Next]_vars => Reported'
    BY ReportedKept
  <1> QED  BY <1>1, <1>2, AlwaysTyped, PTL DEF Spec

(* One event more: what the operators on histories say of it.              *)
LEMMA HistoryGrows ==
  ASSUME NEW S, NEW h \in Seq(S), NEW it \in S
  PROVE  LET g == Append(h, it)
             n == Len(h) + 1
         IN  /\ DOMAIN g = DOMAIN h \cup {n} /\ n \notin DOMAIN h /\ g[n] = it
             /\ \A k \in DOMAIN h : g[k] = h[k] /\ k < n
             /\ DOMAIN h \subseteq Nat
  OBVIOUS

LEMMA BeforeTheNew ==
  ASSUME NEW S, NEW h \in Seq(S), NEW it \in S, NEW kinds
  PROVE  LET g == Append(h, it)
             n == Len(h) + 1
         IN  /\ Heard(g, kinds) <=> Heard(h, kinds) \/ it.kind \in kinds
             /\ HeardBefore(g, n, kinds) <=> Heard(h, kinds)
             /\ \A k \in DOMAIN h : HeardBefore(g, k, kinds) <=> HeardBefore(h, k, kinds)
  <1> DEFINE g == Append(h, it)
             n == Len(h) + 1
  <1>1. /\ DOMAIN g = DOMAIN h \cup {n} /\ n \notin DOMAIN h /\ g[n] = it
        /\ \A k \in DOMAIN h : g[k] = h[k] /\ k < n
        /\ DOMAIN h \subseteq Nat /\ n \in Nat
    BY HistoryGrows
  <1> HIDE DEF g, n
  <1>2. Heard(g, kinds) <=> Heard(h, kinds) \/ it.kind \in kinds
    BY <1>1 DEF Heard
  <1>3. HeardBefore(g, n, kinds) <=> Heard(h, kinds)
    BY <1>1 DEF Heard, HeardBefore
  <1>4. \A k \in DOMAIN h : HeardBefore(g, k, kinds) <=> HeardBefore(h, k, kinds)
    BY <1>1 DEF HeardBefore
  <1> QED  BY <1>2, <1>3, <1>4 DEF g, n

LEMMA LatestInTheNew ==
  ASSUME NEW S, NEW h \in Seq(S), NEW it \in S, NEW kind
  PROVE  LET g == Append(h, it)
             n == Len(h) + 1
         IN  /\ LatestOf(g, n, kind) <=> it.kind = kind
             /\ \A k \in DOMAIN h : LatestOf(g, k, kind) <=> LatestOf(h, k, kind) /\ it.kind # kind
             /\ \A m \in DOMAIN h : LastBefore(g, m, n, kind) <=> LatestOf(h, m, kind)
             /\ \A m, k \in DOMAIN h : LastBefore(g, m, k, kind) <=> LastBefore(h, m, k, kind)
             /\ \A k \in DOMAIN h : ~LastBefore(g, n, k, kind)
             /\ ~LastBefore(g, n, n, kind)
  <1> DEFINE g == Append(h, it)
             n == Len(h) + 1
  <1>1. /\ DOMAIN g = DOMAIN h \cup {n} /\ n \notin DOMAIN h /\ g[n] = it
        /\ \A k \in DOMAIN h : g[k] = h[k] /\ k < n
        /\ DOMAIN h \subseteq Nat /\ n \in Nat
    BY HistoryGrows
  <1> HIDE DEF g, n
  <1>2. LatestOf(g, n, kind) <=> it.kind = kind
    BY <1>1 DEF LatestOf
  <1>3. \A k \in DOMAIN h : LatestOf(g, k, kind) <=> LatestOf(h, k, kind) /\ it.kind # kind
    BY <1>1 DEF LatestOf
  <1>4. \A m \in DOMAIN h : LastBefore(g, m, n, kind) <=> LatestOf(h, m, kind)
    BY <1>1 DEF LatestOf, LastBefore
  <1>5. \A m, k \in DOMAIN h : LastBefore(g, m, k, kind) <=> LastBefore(h, m, k, kind)
    BY <1>1 DEF LastBefore
  <1>6. ~LastBefore(g, n, n, kind) /\ \A k \in DOMAIN h : ~LastBefore(g, n, k, kind)
    BY <1>1 DEF LastBefore
  <1> QED  BY <1>2, <1>3, <1>4, <1>5, <1>6 DEF g, n

(* An event more sizes an entry, or aborts a request, or does neither.     *)
LEMMA SizedOrAborted ==
  ASSUME NEW S, NEW h \in Seq(S), NEW it \in S
  PROVE  LET g == Append(h, it)
         IN  /\ Sized(g) <=> Sized(h) \/ (it.kind = "finished" /\ Heard(h, Starts))
             /\ Aborted(g) <=>
                  \/ Aborted(h)
                  \/ /\ it.kind = "failed" /\ it.event.canceled
                     /\ \E m \in DOMAIN h : /\ LatestOf(h, m, "request")
                                            /\ it.event.ts - h[m].event.ts < QuickAbort
             /\ Sized(h) => Heard(h, Starts)
  <1> DEFINE g == Append(h, it)
             n == Len(h) + 1
  <1>1. /\ DOMAIN g = DOMAIN h \cup {n} /\ n \notin DOMAIN h /\ g[n] = it
        /\ \A k \in DOMAIN h : g[k] = h[k] /\ k < n
    BY HistoryGrows
  <1>2. /\ HeardBefore(g, n, Starts) <=> Heard(h, Starts)
        /\ \A k \in DOMAIN h : HeardBefore(g, k, Starts) <=> HeardBefore(h, k, Starts)
    BY BeforeTheNew
  <1>3. /\ \A m \in DOMAIN h : LastBefore(g, m, n, "request") <=> LatestOf(h, m, "request")
        /\ \A m, k \in DOMAIN h : LastBefore(g, m, k, "request") <=> LastBefore(h, m, k, "request")
        /\ \A k \in DOMAIN h : ~LastBefore(g, n, k, "request")
        /\ ~LastBefore(g, n, n, "request")
    BY LatestInTheNew
  <1> HIDE DEF g, n
  <1>4. Sized(g) <=> Sized(h) \/ (it.kind = "finished" /\ Heard(h, Starts))
    BY <1>1, <1>2 DEF Sized
  <1>5. ASSUME NEW k \in DOMAIN h
        PROVE  (/\ g[k].kind = "failed" /\ g[k].event.canceled
                /\ \E m \in DOMAIN g : /\ LastBefore(g, m, k, "request")
                                       /\ g[k].event.ts - g[m].event.ts < QuickAbort)
               <=> (/\ h[k].kind = "failed" /\ h[k].event.canceled
                    /\ \E m \in DOMAIN h : /\ LastBefore(h, m, k, "request")
                                           /\ h[k].event.ts - h[m].event.ts < QuickAbort)
    BY <1>1, <1>3
  <1>6. (/\ g[n].kind = "failed" /\ g[n].event.canceled
         /\ \E m \in DOMAIN g : /\ LastBefore(g, m, n, "request")
                                /\ g[n].event.ts - g[m].event.ts < QuickAbort)
        <=> (/\ it.kind = "failed" /\ it.event.canceled
             /\ \E m \in DOMAIN h : /\ LatestOf(h, m, "request")
                                    /\ it.event.ts - h[m].event.ts < QuickAbort)
    BY <1>1, <1>3
  <1>7. Aborted(g) <=>
          \/ Aborted(h)
          \/ /\ it.kind = "failed" /\ it.event.canceled
             /\ \E m \in DOMAIN h : /\ LatestOf(h, m, "request")
                                    /\ it.event.ts - h[m].event.ts < QuickAbort
    BY <1>1, <1>5, <1>6 DEF Aborted
  <1>8. Sized(h) => Heard(h, Starts)  BY DEF Sized, HeardBefore, Heard
  <1> QED  BY <1>4, <1>7, <1>8 DEF g, n

(* Nothing of this id has changed, or other ids' failures were noted.      *)
LEMMA TracedElsewhere ==
  ASSUME NEW id \in Ids, Traced(id), opts' = opts, heard'[id] = heard[id],
         sent_at'[id] = sent_at[id], id \in quick_aborts' <=> id \in quick_aborts,
         id \in DOMAIN resources' <=> id \in DOMAIN resources,
         Recorded(id) => resources'[id] = resources[id],
         \A j \in FailuresOf(id)' : j \in FailuresOf(id) /\ failures'[j] = failures[j]
  PROVE  Traced(id)'
  <1>1. /\ \A m : LatestOf(heard'[id], m, "request")  <=> LatestOf(heard[id], m, "request")
        /\ \A m : LatestOf(heard'[id], m, "response") <=> LatestOf(heard[id], m, "response")
        /\ \A m : HeardBefore(heard'[id], m, Starts) <=> HeardBefore(heard[id], m, Starts)
    OBVIOUS
  <1>2. /\ Aborted(heard'[id]) <=> Aborted(heard[id])
        /\ Sized(heard'[id]) <=> Sized(heard[id])
    OBVIOUS
  <1> QED  BY <1>1, <1>2 DEF Traced, Recorded

(* An event of this id: what its handler has to do for the record to       *)
(* follow the history.                                                     *)
LEMMA TracedGrows ==
  ASSUME Lists, NEW id \in Ids, Traced(id), opts' = opts,
         NEW kind \in Kinds, NEW e \in Stamped \cup Answers,
         heard'[id] = Append(heard[id], [kind |-> kind, event |-> e]),
         kind = "request" => sent_at'[id] = e.ts /\ e.ts # Never,
         kind # "request" => sent_at'[id] = sent_at[id],
         id \in quick_aborts' <=>
           \/ id \in quick_aborts
           \/ /\ kind = "failed" /\ e.canceled /\ sent_at[id] # Never
              /\ e.ts - sent_at[id] < QuickAbort,
         ~opts.lean /\ id \in Real /\ Recorded(id)' =>
           /\ resources'[id].sized <=>
                Sized(heard[id]) \/ (kind = "finished" /\ Heard(heard[id], Starts))
           /\ kind = "response" => resources'[id].status = e.status
           /\ kind # "response" => \A k \in DOMAIN heard[id] :
                LatestOf(heard[id], k, "response") =>
                  resources'[id].status = heard[id][k].event.status,
         ~opts.lean /\ id \in Real => \A j \in FailuresOf(id)' :
           \/ kind # "failed" /\ j \in FailuresOf(id) /\ failures'[j] = failures[j]
           \/ /\ kind = "failed" /\ ~Heard(heard[id], {"failed"})
              /\ failures'[j].url = IF Heard(heard[id], Starts) THEN id ELSE None
  PROVE  Traced(id)'
  <1> DEFINE h == heard[id]
             it == [kind |-> kind, event |-> e]
             g == Append(h, it)
             n == Len(h) + 1
  <1>0. h \in Seq(Happening) /\ it \in Happening /\ it.kind = kind /\ it.event = e
    BY DEF Lists, Happening
  <1> HIDE DEF it
  <1>1. /\ DOMAIN g = DOMAIN h \cup {n} /\ n \notin DOMAIN h /\ g[n] = it
        /\ \A k \in DOMAIN h : g[k] = h[k]
    BY <1>0, HistoryGrows
  <1>2. /\ HeardBefore(g, n, Starts) <=> Heard(h, Starts)
        /\ \A k \in DOMAIN h : HeardBefore(g, k, Starts) <=> HeardBefore(h, k, Starts)
    BY <1>0, BeforeTheNew
  <1>3. \A want : /\ LatestOf(g, n, want) <=> it.kind = want
                  /\ \A k \in DOMAIN h : LatestOf(g, k, want)
                                           <=> LatestOf(h, k, want) /\ it.kind # want
    BY <1>0, LatestInTheNew
  <1>4. /\ Sized(g) <=> Sized(h) \/ (it.kind = "finished" /\ Heard(h, Starts))
        /\ Aborted(g) <=>
             \/ Aborted(h)
             \/ /\ it.kind = "failed" /\ it.event.canceled
                /\ \E m \in DOMAIN h : /\ LatestOf(h, m, "request")
                                       /\ it.event.ts - h[m].event.ts < QuickAbort
    BY <1>0, SizedOrAborted
  <1>5. heard'[id] = g  BY DEF it
  <1> HIDE DEF g, n
  <1>6. /\ sent_at[id] # Never => \E m \in DOMAIN h : LatestOf(h, m, "request")
        /\ \A m \in DOMAIN h : LatestOf(h, m, "request") =>
             sent_at[id] # Never /\ sent_at[id] = h[m].event.ts
        /\ id \in quick_aborts <=> Aborted(h)
        /\ ~opts.lean /\ id \in Real => \A j \in FailuresOf(id), k \in DOMAIN h :
             h[k].kind = "failed" =>
               failures[j].url = IF HeardBefore(h, k, Starts) THEN id ELSE None
    BY DEF Traced
  <1> HIDE DEF h
  <1>7. /\ sent_at'[id] # Never => \E m \in DOMAIN g : LatestOf(g, m, "request")
        /\ \A m \in DOMAIN g : LatestOf(g, m, "request") =>
             sent_at'[id] # Never /\ sent_at'[id] = g[m].event.ts
    <2>1. CASE kind = "request"
      BY <1>0, <1>1, <1>3, <2>1
    <2>2. CASE kind # "request"
      <3>1. /\ ~LatestOf(g, n, "request")
            /\ \A k \in DOMAIN h : LatestOf(g, k, "request") <=> LatestOf(h, k, "request")
        BY <1>0, <1>3, <2>2
      <3> QED  BY <1>1, <1>6, <2>2, <3>1
    <2> QED  BY <2>1, <2>2
  <1>8. id \in quick_aborts' <=> Aborted(g)
    <2>1. sent_at[id] # Never /\ e.ts - sent_at[id] < QuickAbort <=>
            \E m \in DOMAIN h : LatestOf(h, m, "request") /\ e.ts - h[m].event.ts < QuickAbort
      BY <1>6
    <2> QED  BY <1>0, <1>4, <1>6, <2>1
  <1>9. ASSUME ~opts.lean, id \in Real, Recorded(id)'
        PROVE  /\ resources'[id].sized <=> Sized(g)
               /\ \A k \in DOMAIN g : LatestOf(g, k, "response") =>
                    resources'[id].status = g[k].event.status
    <2>1. resources'[id].sized <=> Sized(g)  BY <1>0, <1>4, <1>9 DEF h
    <2>2. ASSUME NEW k \in DOMAIN g, LatestOf(g, k, "response")
          PROVE  resources'[id].status = g[k].event.status
      <3>1. CASE k = n
        BY <1>0, <1>1, <1>3, <1>9, <2>2, <3>1
      <3>2. CASE k \in DOMAIN h
        <4>1. LatestOf(h, k, "response") /\ kind # "response"
          BY <1>0, <1>3, <2>2, <3>2
        <4> QED  BY <1>1, <1>9, <3>2, <4>1 DEF h
      <3> QED  BY <1>1, <3>1, <3>2
    <2> QED  BY <2>1, <2>2
  <1>10. ASSUME ~opts.lean, id \in Real, NEW j \in FailuresOf(id)', NEW k \in DOMAIN g,
                g[k].kind = "failed"
         PROVE  failures'[j].url = IF HeardBefore(g, k, Starts) THEN id ELSE None
    <2>1. CASE kind # "failed" /\ j \in FailuresOf(id) /\ failures'[j] = failures[j]
      <3>1. k \in DOMAIN h /\ h[k].kind = "failed"  BY <1>0, <1>1, <1>10, <2>1
      <3> QED  BY <1>2, <1>6, <1>10, <2>1, <3>1
    <2>2. CASE /\ kind = "failed" /\ ~Heard(heard[id], {"failed"})
               /\ failures'[j].url = IF Heard(heard[id], Starts) THEN id ELSE None
      <3>1. k = n  BY <1>1, <1>10, <2>2 DEF Heard, h
      <3> QED  BY <1>2, <2>2, <3>1 DEF h
    <2> QED  BY <1>10, <2>1, <2>2
  <1> QED  BY <1>5, <1>7, <1>8, <1>9, <1>10 DEF Traced

(* An entry is there once something of its request was heard; before that  *)
(* there is no size, no status and no response to have one from.           *)
LEMMA UnrecordedUnsized ==
  ASSUME Typed, Reported, ~opts.lean, NEW id \in Ids, id \in Real
  PROVE  /\ Recorded(id) <=> Heard(heard[id], Starts)
         /\ ~Recorded(id) => /\ ~Sized(heard[id])
                             /\ \A k \in DOMAIN heard[id] : ~LatestOf(heard[id], k, "response")
  <1>1. Recorded(id) <=> Heard(heard[id], Starts)
    BY ToldIs DEF Reported, Recorder, Starts
  <1>2. Sized(heard[id]) => Heard(heard[id], Starts)
    BY DEF Sized, HeardBefore, Heard
  <1>3. \A k \in DOMAIN heard[id] : LatestOf(heard[id], k, "response") => Heard(heard[id], Starts)
    BY DEF LatestOf, Heard, Starts
  <1> QED  BY <1>1, <1>2, <1>3

(* A response is kept with its status, whatever came before it.            *)
LEMMA ResponseKeepsTraced ==
  ASSUME Typed, Reported, \A id \in Ids : Traced(id), HandleResponse, UNCHANGED opts,
         NEW id \in Ids
  PROVE  Traced(id)'
  <1> DEFINE e == Head(streams["response"])
             entry == [Entry(e.id) EXCEPT !.url = e.id, !.status = e.status]
  <1>0. Queues /\ Lists /\ "response" \in StreamNames
    BY DEF Typed, StreamNames
  <1>1. e.id \in Ids /\ e \in Answers
    BY <1>0, TakeKeepsQueues DEF HandleResponse, Signal, Answers
  <1>2. /\ Hear("response", e) /\ UNCHANGED abortVars
        /\ resources' = IF opts.lean THEN resources ELSE Record(e.id, entry)
    BY DEF HandleResponse
  <1>3. Entry(e.id) \in Entries  BY <1>0, <1>1, EntryTyped
  <1>4. entry.status = e.status /\ entry.sized = Entry(e.id).sized
    BY <1>3, EntryFields
  <1> HIDE DEF e, entry
  <1>5. /\ heard'[e.id] = Append(heard[e.id], [kind |-> "response", event |-> e])
        /\ \A i \in Ids \ {e.id} : heard'[i] = heard[i]
    BY <1>0, <1>1, <1>2, HeardIs
  <1>6. sent_at' = sent_at /\ quick_aborts' = quick_aborts /\ failures' = failures
    BY <1>2 DEF abortVars
  <1>7. FailuresOf(id)' = FailuresOf(id)  BY <1>6 DEF FailuresOf
  <1>8. Traced(id)  OBVIOUS
  <1>9. CASE id = e.id
    <2> DEFINE h == heard[id]
    <2>1. ASSUME ~opts.lean, id \in Real, Recorded(id)'
          PROVE  /\ resources'[id].sized <=> Sized(h)
                 /\ resources'[id].status = e.status
      <3>1. resources'[id] = entry  BY <1>2, <1>9, <2>1, RecordIs
      <3>2. Entry(id).sized <=> Sized(h)
        BY <2>1, UnrecordedUnsized DEF Traced, Entry, Blank, Recorded
      <3> QED  BY <1>4, <1>9, <3>1, <3>2
    <2>2. "response" \in Kinds  BY DEF Kinds
    <2> QED  BY <1>0, <1>1, <1>5, <1>6, <1>7, <1>8, <1>9, <2>1, <2>2, TracedGrows
  <1>10. CASE id # e.id
    <2>1. /\ id \in DOMAIN resources' <=> id \in DOMAIN resources
          /\ Recorded(id) => resources'[id] = resources[id]
      BY <1>2, <1>10, RecordIs DEF Recorded
    <2> QED  BY <1>5, <1>6, <1>7, <1>8, <1>10, <2>1, TracedElsewhere
  <1> QED  BY <1>9, <1>10

(* A request notes when it was sent, and leaves status and size alone.     *)
LEMMA RequestKeepsTraced ==
  ASSUME Typed, Reported, \A id \in Ids : Traced(id), HandleRequest, UNCHANGED opts,
         NEW id \in Ids
  PROVE  Traced(id)'
  <1> DEFINE e == Head(streams["request"])
             entry == [Entry(e.id) EXCEPT !.url = IF @ = None THEN e.id ELSE @,
                                          !.initiator = TRUE]
  <1>0. Queues /\ Lists /\ "request" \in StreamNames
    BY DEF Typed, StreamNames
  <1>1. e.id \in Ids /\ e \in Stamped /\ e.ts \in Times
    BY <1>0, TakeKeepsQueues DEF HandleRequest, Signal, Stamped
  <1>2. /\ UNCHANGED <<quick_aborts, failures>>
        /\ \/ UNCHANGED <<resources, sent_at, heard>>
           \/ /\ resources' = Record(e.id, entry)
              /\ sent_at' = [sent_at EXCEPT ![e.id] = e.ts]
              /\ Hear("request", e)
    BY DEF HandleRequest
  <1>3. Entry(e.id) \in Entries  BY <1>0, <1>1, EntryTyped
  <1>4. entry.status = Entry(e.id).status /\ entry.sized = Entry(e.id).sized
    BY <1>3, EntryFields
  <1>5. e.ts # Never  BY <1>1, Numbered DEF Times, Never
  <1> HIDE DEF e, entry
  <1>6. FailuresOf(id)' = FailuresOf(id)  BY <1>2 DEF FailuresOf
  <1>7. Traced(id)  OBVIOUS
  <1>8. CASE UNCHANGED <<resources, sent_at, heard>>
    BY <1>2, <1>6, <1>7, <1>8, TracedElsewhere DEF Recorded
  <1>9. CASE /\ resources' = Record(e.id, entry)
             /\ sent_at' = [sent_at EXCEPT ![e.id] = e.ts]
             /\ Hear("request", e)
    <2>1. /\ heard'[e.id] = Append(heard[e.id], [kind |-> "request", event |-> e])
          /\ \A i \in Ids \ {e.id} : heard'[i] = heard[i]
      BY <1>0, <1>1, <1>9, HeardIs
    <2>2. sent_at'[e.id] = e.ts /\ \A i \in Ids \ {e.id} : sent_at'[i] = sent_at[i]
      BY <1>0, <1>1, <1>9 DEF Lists
    <2>3. CASE id = e.id
      <3> DEFINE h == heard[id]
      <3>1. ASSUME ~opts.lean, id \in Real, Recorded(id)'
            PROVE  /\ resources'[id].sized <=> Sized(h)
                   /\ \A k \in DOMAIN h : LatestOf(h, k, "response") =>
                        resources'[id].status = h[k].event.status
        <4>1. resources'[id] = entry  BY <1>9, <2>3, RecordIs
        <4>2. Entry(id).sized <=> Sized(h)
          BY <3>1, UnrecordedUnsized DEF Traced, Entry, Blank, Recorded
        <4>3. \A k \in DOMAIN h : LatestOf(h, k, "response") =>
                Entry(id).status = h[k].event.status
          BY <3>1, UnrecordedUnsized DEF Traced, Entry, Recorded
        <4> QED  BY <1>4, <2>3, <4>1, <4>2, <4>3
      <3>2. "request" \in Kinds  BY DEF Kinds
      <3> QED  BY <1>0, <1>1, <1>2, <1>5, <1>6, <1>7, <2>1, <2>2, <2>3, <3>1, <3>2, TracedGrows
    <2>4. CASE id # e.id
      <3>1. /\ id \in DOMAIN resources' <=> id \in DOMAIN resources
            /\ Recorded(id) => resources'[id] = resources[id]
        BY <1>9, <2>4, RecordIs DEF Recorded
      <3> QED  BY <1>2, <1>6, <1>7, <2>1, <2>2, <2>4, <3>1, TracedElsewhere
    <2> QED  BY <2>3, <2>4
  <1> QED  BY <1>2, <1>8, <1>9

(* The end of a load sizes the entry that is there.                        *)
LEMMA FinishedKeepsTraced ==
  ASSUME Typed, Reported, \A id \in Ids : Traced(id), HandleFinished, UNCHANGED opts,
         NEW id \in Ids
  PROVE  Traced(id)'
  <1> DEFINE e == Head(streams["finished"])
             i == e.id
  <1>0. Queues /\ Lists /\ "finished" \in StreamNames
    BY DEF Typed, StreamNames
  <1>1. e.id \in Ids /\ e \in Answers
    BY <1>0, TakeKeepsQueues DEF HandleFinished, Signal, Answers
  <1>2. /\ Hear("finished", e) /\ UNCHANGED abortVars
        /\ resources' = IF Recorded(i) THEN [resources EXCEPT ![i].sized = TRUE]
                        ELSE resources
    BY DEF HandleFinished
  <1> HIDE DEF e
  <1>5. /\ heard'[e.id] = Append(heard[e.id], [kind |-> "finished", event |-> e])
        /\ \A j \in Ids \ {e.id} : heard'[j] = heard[j]
    BY <1>0, <1>1, <1>2, HeardIs
  <1>6. sent_at' = sent_at /\ quick_aborts' = quick_aborts /\ failures' = failures
    BY <1>2 DEF abortVars
  <1>7. FailuresOf(id)' = FailuresOf(id)  BY <1>6 DEF FailuresOf
  <1>8. Traced(id)  OBVIOUS
  <1>3. e.id = i  OBVIOUS
  <1> HIDE DEF i
  <1>4. /\ DOMAIN resources' = DOMAIN resources
        /\ \A j \in DOMAIN resources \ {i} : resources'[j] = resources[j]
    BY <1>2
  <1>9. CASE id = i
    <2> DEFINE h == heard[id]
    <2>1. ASSUME ~opts.lean, id \in Real, Recorded(id)'
          PROVE  /\ resources'[id].sized <=> Sized(h) \/ Heard(h, Starts)
                 /\ \A k \in DOMAIN h : LatestOf(h, k, "response") =>
                      resources'[id].status = h[k].event.status
      <3>1. Recorded(id) /\ resources[id] \in Entries
        BY <1>0, <1>4, <2>1 DEF Recorded, Lists
      <3>2. resources'[id] = [resources[id] EXCEPT !.sized = TRUE]
        BY <1>2, <1>9, <3>1 DEF Recorded
      <3>3. resources'[id].sized = TRUE /\ resources'[id].status = resources[id].status
        BY <3>1, <3>2, EntryFields
      <3>4. Heard(h, Starts)
        BY <2>1, <3>1, UnrecordedUnsized
      <3> QED  BY <1>8, <2>1, <3>1, <3>3, <3>4 DEF Traced
    <2>2. "finished" \in Kinds  BY DEF Kinds
    <2> QED  BY <1>0, <1>1, <1>3, <1>5, <1>6, <1>7, <1>8, <1>9, <2>1, <2>2, TracedGrows
  <1>10. CASE id # i
    BY <1>3, <1>4, <1>5, <1>6, <1>7, <1>8, <1>10, TracedElsewhere DEF Recorded
  <1> QED  BY <1>9, <1>10

(* A failure is noted with the URL that is on record, or taken for a quick *)
(* abort, as the events heard so far have it.                              *)
LEMMA FailedKeepsTraced ==
  ASSUME Typed, Reported, \A id \in Ids : Traced(id), HandleFailed, UNCHANGED opts,
         NEW id \in Ids
  PROVE  Traced(id)'
  <1> DEFINE e == Head(streams["failed"])
             note == [id |-> e.id, url |-> Entry(e.id).url]
             Notes == [id : Ids, url : Ids \cup {None}]
  <1>0. Queues /\ Lists /\ FailsOnce /\ "failed" \in StreamNames
    BY DEF Typed, StreamNames, Reported
  <1>1. /\ e \in Stamped /\ e.id \in Ids
        /\ e = streams["failed"][1] /\ 1 \in DOMAIN streams["failed"]
    BY <1>0, TakeKeepsQueues DEF HandleFailed, Signal, Stamped
  <1>2. /\ UNCHANGED <<resources, sent_at>>
        /\ \/ UNCHANGED <<quick_aborts, failures, heard>>
           \/ /\ Hear("failed", e)
              /\ \/ /\ IsQuickAbort(e)
                    /\ quick_aborts' = quick_aborts \cup {e.id} /\ UNCHANGED failures
                 \/ /\ ~IsQuickAbort(e)
                    /\ failures' = Append(failures, note) /\ UNCHANGED quick_aborts
    BY DEF HandleFailed
  <1>3. "failed" \notin told[e.id]
    BY <1>0, <1>1 DEF FailsOnce
  <1>4. ~Heard(heard[e.id], {"failed"})
    BY <1>1, <1>3, ToldIs
  <1>5. e.id \notin quick_aborts
    BY <1>1, <1>3 DEF Reported, Recorder
  <1>6. \A k \in DOMAIN failures : failures[k].id # e.id
    BY <1>0, <1>3 DEF FailsOnce
  <1>7. ~opts.lean /\ e.id \in Real =>
          note.url = IF Heard(heard[e.id], Starts) THEN e.id ELSE None
    BY <1>1, UnrecordedUnsized DEF Reported, Recorder, Entry, Blank, Recorded
  <1>8. note \in Notes /\ failures \in Seq(Notes) /\ note.id = e.id
    BY <1>0, <1>1, EntryTyped DEF Lists, Entries
  <1>9. Traced(id)  OBVIOUS
  <1> HIDE DEF e, note, Notes
  <1>10. CASE UNCHANGED <<quick_aborts, failures, heard>>
    BY <1>2, <1>9, <1>10, TracedElsewhere DEF Recorded, FailuresOf
  <1>11. CASE /\ Hear("failed", e)
              /\ \/ /\ IsQuickAbort(e)
                    /\ quick_aborts' = quick_aborts \cup {e.id} /\ UNCHANGED failures
                 \/ /\ ~IsQuickAbort(e)
                    /\ failures' = Append(failures, note) /\ UNCHANGED quick_aborts
    <2>1. /\ heard'[e.id] = Append(heard[e.id], [kind |-> "failed", event |-> e])
          /\ \A i \in Ids \ {e.id} : heard'[i] = heard[i]
      BY <1>0, <1>1, <1>11, HeardIs
    <2>2. \A j \in DOMAIN failures' :
            \/ j \in DOMAIN failures /\ failures'[j] = failures[j]
            \/ failures'[j] = note
      <3>1. failures' = failures \/ failures' = Append(failures, note)
        BY ONLY <1>11, Zenon
      <3>2. DOMAIN Append(failures, note) = DOMAIN failures \cup {Len(failures) + 1}
            /\ Append(failures, note)[Len(failures) + 1] = note
            /\ \A j \in DOMAIN failures : Append(failures, note)[j] = failures[j]
        BY ONLY <1>8, HistoryGrows
      <3> QED  BY ONLY <3>1, <3>2, Zenon
    <2>3. CASE id = e.id
      <3>1. id \in quick_aborts' <=>
              \/ id \in quick_aborts
              \/ /\ e.canceled /\ sent_at[id] # Never
                 /\ e.ts - sent_at[id] < QuickAbort
        BY <1>5, <1>11, <2>3 DEF IsQuickAbort
      <3>2. \A j \in FailuresOf(id)' : failures'[j] = note
        BY <1>6, <2>2, <2>3 DEF FailuresOf
      <3>3. ~opts.lean /\ id \in Real => \A j \in FailuresOf(id)' :
              failures'[j].url = IF Heard(heard[id], Starts) THEN id ELSE None
        BY <1>7, <2>3, <3>2
      <3>4. ~opts.lean /\ id \in Real /\ Recorded(id)' =>
              /\ resources'[id].sized <=> Sized(heard[id])
              /\ \A k \in DOMAIN heard[id] :
                   LatestOf(heard[id], k, "response") =>
                     resources'[id].status = heard[id][k].event.status
        BY <1>2, <1>9 DEF Traced, Recorded
      <3>5. "failed" \in Kinds  BY DEF Kinds
      <3>6. /\ Lists /\ opts' = opts /\ e \in Stamped \cup Answers
            /\ heard'[id] = Append(heard[id], [kind |-> "failed", event |-> e])
            /\ sent_at'[id] = sent_at[id] /\ ~Heard(heard[id], {"failed"})
        BY <1>0, <1>1, <1>2, <1>4, <2>1, <2>3
      <3> QED  BY ONLY <1>9, <3>1, <3>3, <3>4, <3>5, <3>6, id \in Ids, TracedGrows
    <2>4. CASE id # e.id
      <3>1. \A j \in FailuresOf(id)' : j \in FailuresOf(id) /\ failures'[j] = failures[j]
        BY <1>8, <2>2, <2>4 DEF FailuresOf
      <3>2. id \in quick_aborts' <=> id \in quick_aborts
        BY <1>11, <2>4
      <3>3. /\ heard'[id] = heard[id] /\ sent_at'[id] = sent_at[id]
            /\ id \in DOMAIN resources' <=> id \in DOMAIN resources
            /\ Recorded(id) => resources'[id] = resources[id]
        BY <1>2, <2>1, <2>4
      <3> QED  BY <1>9, <3>1, <3>2, <3>3, TracedElsewhere
    <2> QED  BY <2>3, <2>4
  <1> QED  BY <1>2, <1>10, <1>11

(* A history without events tells nothing. *)
LEMMA NothingTraced ==
  ASSUME NEW id \in Ids, heard[id] = << >>, resources = << >>, sent_at[id] = Never,
         quick_aborts = {}, failures = << >>
  PROVE  Traced(id)
  <1>1. DOMAIN << >> = {}  OBVIOUS
  <1>2. DOMAIN heard[id] = {} /\ DOMAIN resources = {} /\ DOMAIN failures = {}
    BY <1>1
  <1>3. ~Aborted(heard[id])  BY <1>2 DEF Aborted
  <1> QED  BY <1>2, <1>3 DEF Traced, Recorded, FailuresOf

(* Every step keeps the record in step with the order of the events.       *)
LEMMA TracedKept ==
  ASSUME Typed, Reported, \A id \in Ids : Traced(id), [Next]_vars, NEW id \in Ids
  PROVE  Traced(id)'
  <1>0. opts' = opts /\ Traced(id)  BY Shapes
  <1>1. CASE DropLocals
    <2>1. /\ heard'[id] = << >> /\ resources' = << >> /\ sent_at'[id] = Never
          /\ quick_aborts' = {} /\ failures' = << >>
      BY <1>1 DEF DropLocals, NotSent, Unheard
    <2>2. DOMAIN << >> = {}  OBVIOUS
    <2>3. DOMAIN heard'[id] = {} /\ DOMAIN resources' = {} /\ DOMAIN failures' = {}
      BY <2>1, <2>2
    <2>4. ~Aborted(heard'[id])  BY <2>3 DEF Aborted
    <2> QED  BY <2>1, <2>3, <2>4 DEF Traced, Recorded, FailuresOf
  <1>2. CASE UNCHANGED <<pageVars, coreVars>> \/ PageStep
    <2>1. UNCHANGED <<resources, abortVars, heard>>
      BY <1>2 DEF coreVars, PageStep
    <2>2. UNCHANGED <<resources, sent_at, quick_aborts, failures, heard>>
      BY <2>1 DEF abortVars
    <2>3. FailuresOf(id)' = FailuresOf(id)  BY <2>2 DEF FailuresOf
    <2>4. /\ heard'[id] = heard[id] /\ sent_at'[id] = sent_at[id]
          /\ id \in quick_aborts' <=> id \in quick_aborts
          /\ id \in DOMAIN resources' <=> id \in DOMAIN resources
          /\ Recorded(id) => resources'[id] = resources[id]
          /\ \A j \in FailuresOf(id)' : j \in FailuresOf(id) /\ failures'[j] = failures[j]
      BY <2>2, <2>3
    <2> QED  BY <1>0, <2>4, TracedElsewhere
  <1>3. CASE HandleLifecycle \/ HandleNote \/ HandlePseudoResponse
    <2>1. UNCHANGED <<resources, abortVars, heard>>
      BY <1>3 DEF HandleLifecycle, HandleNote, HandlePseudoResponse
    <2>2. UNCHANGED <<resources, sent_at, quick_aborts, failures, heard>>
      BY <2>1 DEF abortVars
    <2>3. FailuresOf(id)' = FailuresOf(id)  BY <2>2 DEF FailuresOf
    <2>4. /\ heard'[id] = heard[id] /\ sent_at'[id] = sent_at[id]
          /\ id \in quick_aborts' <=> id \in quick_aborts
          /\ id \in DOMAIN resources' <=> id \in DOMAIN resources
          /\ Recorded(id) => resources'[id] = resources[id]
          /\ \A j \in FailuresOf(id)' : j \in FailuresOf(id) /\ failures'[j] = failures[j]
      BY <2>2, <2>3
    <2> QED  BY <1>0, <2>4, TracedElsewhere
  <1>4. CASE HandleEvent
    BY <1>0, <1>3, <1>4, ResponseKeepsTraced, RequestKeepsTraced, FinishedKeepsTraced,
       FailedKeepsTraced DEF HandleEvent
  <1> QED  BY <1>1, <1>2, <1>4, Shapes

AllTraced == \A id \in Ids : Traced(id)

(* The record follows the history in every state.                          *)
LEMMA AlwaysTraced == Spec => []AllTraced
  <1>1. Init => AllTraced
    BY NothingTraced DEF Init, LocalsAtStart, NotSent, Unheard, AllTraced
  <1>2. Typed /\ Reported /\ AllTraced /\ [Next]_vars => AllTraced'
    BY TracedKept DEF AllTraced
  <1> QED  BY <1>1, <1>2, AlwaysTyped, AlwaysReported, PTL DEF Spec

(* The list of resources and the failures, as handed on, are what the      *)
(* handled events say in the order they were handled: entries, statuses    *)
(* and initiators in any order, sizes, quick aborts and the URLs of the    *)
(* failures as the order decides.                                          *)
THEOREM ReportHolds == Spec => []ReportFollowsEvents
  <1>1. Typed /\ Reported /\ AllTraced => ReportFollowsEvents
    <2> SUFFICES ASSUME Typed, Reported, AllTraced, ~opts.lean, NEW id \in Real
                 PROVE  LET h == heard[id] IN
      /\ id \in Retained <=> Heard(h, Starts) /\ ~Aborted(h)
      /\ Recorded(id) =>
           /\ resources[id].url = id
           /\ resources[id].status # 0 <=> Heard(h, {"response"})
           /\ \A k \in DOMAIN h :
                LatestOf(h, k, "response") => resources[id].status = h[k].event.status
           /\ resources[id].initiator <=> Heard(h, {"request"})
           /\ resources[id].sized <=> Sized(h)
      /\ Cardinality(FailuresOf(id))
           = IF Heard(h, {"failed"}) /\ ~Aborted(h) THEN 1 ELSE 0
      /\ \A j \in FailuresOf(id), k \in DOMAIN h :
           h[k].kind = "failed" =>
             failures[j].url = IF HeardBefore(h, k, Starts) THEN id ELSE None
      BY DEF ReportFollowsEvents
    <2> DEFINE h == heard[id]
    <2>0. id \in Ids  BY DEF Real
    <2>1. Recorder(id) /\ FailsOnce /\ Traced(id)
      BY <2>0 DEF Reported, AllTraced
    <2>2. id # None  BY <2>0, IdsAssumption DEF IdsAssumption, None
    <2>3. /\ \A kind : kind \in told[id] <=> Heard(h, {kind})
          /\ Recorded(id) <=> Heard(h, Starts)
          /\ id \in quick_aborts <=> Aborted(h)
      BY <2>0, <2>1, ToldIs, UnrecordedUnsized DEF Traced
    <2>4. id \in Retained <=> Heard(h, Starts) /\ ~Aborted(h)
      BY <2>1, <2>2, <2>3 DEF Retained, Recorder, Recorded
    <2>5. Recorded(id) =>
            /\ resources[id].url = id
            /\ resources[id].status # 0 <=> Heard(h, {"response"})
            /\ resources[id].initiator <=> Heard(h, {"request"})
      BY <2>1, <2>3 DEF Recorder
    <2>6. Recorded(id) =>
            /\ \A k \in DOMAIN h :
                 LatestOf(h, k, "response") => resources[id].status = h[k].event.status
            /\ resources[id].sized <=> Sized(h)
      BY <2>1 DEF Traced
    <2>7. \A j \in FailuresOf(id), k \in DOMAIN h :
            h[k].kind = "failed" =>
              failures[j].url = IF HeardBefore(h, k, Starts) THEN id ELSE None
      BY <2>1 DEF Traced
    <2>8. Cardinality(FailuresOf(id)) = IF Heard(h, {"failed"}) /\ ~Aborted(h) THEN 1 ELSE 0
      <3>1. CASE "failed" \in told[id] /\ id \notin quick_aborts
        <4>1. PICK k \in DOMAIN failures : failures[k].id = id
          BY <2>0, <2>1, <3>1 DEF FailsOnce
        <4>2. FailuresOf(id) = {k}
          BY <2>1, <4>1 DEF FailsOnce, FailuresOf
        <4> QED  BY <2>3, <3>1, <4>2, FS_Singleton
      <3>2. CASE ~("failed" \in told[id] /\ id \notin quick_aborts)
        <4>1. FailuresOf(id) = {}  BY <2>1, <3>2 DEF FailsOnce, FailuresOf
        <4> QED  BY <2>3, <3>2, <4>1, FS_EmptySet
      <3> QED  BY <3>1, <3>2
    <2> QED  BY <2>4, <2>5, <2>6, <2>7, <2>8
  <1> QED  BY <1>1, AlwaysTyped, AlwaysReported, AlwaysTraced, PTL

-----------------------------------------------------------------------------
(* The awaited patterns.                                                   *)

TookIn(s, p) == Cardinality({k \in DOMAIN s : s[k].pattern = p})
Taken(p) == TookIn(satisfied, p)

Accounted ==
  /\ \A p \in Patterns : Count(pending, p) + Taken(p) = Count(opts.waitFor, p)
  /\ \A k \in DOMAIN satisfied :
       /\ satisfied[k].pattern \in Matching[satisfied[k].id]
       /\ satisfied[k].id \in Real
       /\ "response" \in told[satisfied[k].id]

(* Positions in a sequence are finitely many, and the next one is new.     *)
LEMMA IndicesFinite ==
  ASSUME NEW S, NEW s \in Seq(S), NEW I, I \subseteq DOMAIN s
  PROVE  IsFiniteSet(I) /\ Cardinality(I) \in Nat /\ Len(s) + 1 \notin I
  <1>1. DOMAIN s = 1 .. Len(s) /\ Len(s) \in Nat  OBVIOUS
  <1>2. IsFiniteSet(1 .. Len(s))  BY <1>1, FS_Interval
  <1> QED  BY <1>1, <1>2, FS_Subset, FS_CardinalityType

(* A response more is counted for its pattern, and for no other. *)
LEMMA AppendCounts ==
  ASSUME NEW S, NEW s \in Seq(S), NEW e \in S, NEW p
  PROVE  TookIn(Append(s, e), p) = TookIn(s, p) + (IF e.pattern = p THEN 1 ELSE 0)
  <1> DEFINE I == {k \in DOMAIN s : s[k].pattern = p}
             J == {k \in DOMAIN Append(s, e) : Append(s, e)[k].pattern = p}
             n == Len(s) + 1
  <1>1. /\ DOMAIN s = 1 .. Len(s) /\ Len(s) \in Nat
        /\ DOMAIN Append(s, e) = 1 .. Len(s) + 1
        /\ \A k \in 1 .. Len(s) : Append(s, e)[k] = s[k]
        /\ Append(s, e)[n] = e
    OBVIOUS
  <1>2. IsFiniteSet(I) /\ Cardinality(I) \in Nat /\ n \notin I
    BY IndicesFinite
  <1>3. CASE e.pattern = p
    <2>1. J = I \cup {n}  BY <1>1, <1>3
    <2>2. Cardinality(J) = Cardinality(I) + 1
      <3> HIDE DEF I, J, n
      <3> QED  BY <1>2, <2>1, FS_AddElement
    <2> QED  BY <1>3, <2>2 DEF TookIn
  <1>4. CASE e.pattern # p
    <2>1. J = I  BY <1>1, <1>4
    <2>2. Cardinality(J) = Cardinality(I)  BY <2>1
    <2>3. Cardinality(J) = Cardinality(I) + (IF e.pattern = p THEN 1 ELSE 0)
      <3> HIDE DEF I, J
      <3> QED  BY <1>2, <1>4, <2>2
    <2> QED  BY <2>3 DEF TookIn
  <1> QED  BY <1>3, <1>4

(* swap_remove takes one occurrence of the pattern at its position, and    *)
(* moves the last one without losing it.                                   *)
LEMMA SwapRemoveCounts ==
  ASSUME NEW S, NEW s \in Seq(S), NEW pos \in 1 .. Len(s), NEW p
  PROVE  Count(s, p) = Count(SwapRemove(s, pos), p) + (IF s[pos] = p THEN 1 ELSE 0)
  <1> DEFINE n == Len(s)
             t == SwapRemove(s, pos)
             I == {k \in DOMAIN s : s[k] = p}
             J == {k \in DOMAIN t : t[k] = p}
  <1>1. /\ DOMAIN s = 1 .. n /\ n \in Nat /\ n >= 1 /\ pos \in 1 .. n
        /\ DOMAIN t = 1 .. n - 1
        /\ \A k \in 1 .. n - 1 : t[k] = IF k = pos THEN s[n] ELSE s[k]
    BY SwapRemoveIs
  <1> HIDE DEF n, t
  <1>2. IsFiniteSet(I) /\ Cardinality(I) \in Nat
    BY IndicesFinite
  <1>3. J \subseteq 1 .. n /\ n \notin J  BY <1>1
  <1>4. IsFiniteSet(J) /\ Cardinality(J) \in Nat
    <2>1. IsFiniteSet(1 .. n)  BY <1>1, FS_Interval
    <2> HIDE DEF J
    <2> QED  BY <1>3, <2>1, FS_Subset, FS_CardinalityType
  <1>5. CASE s[pos] = p
    <2>1. \E x \in I : J = I \ {x}
      <3>1. CASE s[n] = p
        <4>1. n \in I /\ J = I \ {n}  BY <1>1, <1>5, <3>1
        <4> QED  BY <4>1
      <3>2. CASE s[n] # p
        <4>1. pos \in I /\ J = I \ {pos}  BY <1>1, <1>5, <3>2
        <4> QED  BY <4>1
      <3> QED  BY <3>1, <3>2
    <2>2. Cardinality(J) = Cardinality(I) - 1
      <3> HIDE DEF I, J
      <3> QED  BY <1>2, <2>1, FS_RemoveElement
    <2> HIDE DEF I, J
    <2>3. Cardinality(I) = Cardinality(J) + 1  BY <1>2, <1>4, <2>2
    <2> QED  BY <1>5, <2>3 DEF Count, I, J, t
  <1>6. CASE s[pos] # p
    <2>1. CASE s[n] = p
      <3>1. n \in I /\ pos \notin I \ {n} /\ J = (I \ {n}) \cup {pos}
        BY <1>1, <1>6, <2>1
      <3>2. Cardinality(J) = Cardinality(I)
        <4> DEFINE K == I \ {n}
        <4>1. n \in I /\ pos \notin K /\ J = K \cup {pos}  BY <3>1
        <4> HIDE DEF I, J
        <4>2. IsFiniteSet(K) /\ Cardinality(K) = Cardinality(I) - 1
          BY <1>2, <4>1, FS_RemoveElement
        <4> HIDE DEF K
        <4>3. Cardinality(J) = Cardinality(K) + 1
          BY <4>1, <4>2, FS_AddElement
        <4> QED  BY <1>2, <4>2, <4>3
      <3> QED  BY <1>2, <1>6, <3>2 DEF Count, t
    <2>2. CASE s[n] # p
      <3>1. J = I  BY <1>1, <1>6, <2>2
      <3>2. Cardinality(J) = Cardinality(I)  BY <3>1
      <3> QED  BY <1>2, <1>6, <3>2 DEF Count, t
    <2> QED  BY <2>1, <2>2
  <1> QED  BY <1>5, <1>6

(* A response moves at most one pattern from pending to taken.             *)
LEMMA ResponseKeepsAccounted ==
  ASSUME Typed, Accounted, HandleResponse, UNCHANGED opts
  PROVE  Accounted'
  <1> DEFINE e == Head(streams["response"])
             Pairs == [pattern : Patterns, id : Ids]
             pos == FirstPosition(e.id)
             took == [pattern |-> pending[pos], id |-> e.id]
  <1>0. Queues /\ Lists /\ "response" \in StreamNames
    BY DEF Typed, StreamNames
  <1>1. e.id \in Real /\ e.id \in Ids
    BY <1>0, TakeKeepsQueues DEF HandleResponse, Signal, Answers
  <1>2. TakePattern(e) /\ Hear("response", e)
    BY DEF HandleResponse
  <1> HIDE DEF e
  <1>3. /\ pending \in Seq(Patterns) /\ satisfied \in Seq(Pairs)
        /\ \A k \in DOMAIN satisfied : satisfied[k].id \in Ids
    <2>1. pending \in Seq(Patterns) /\ satisfied \in Seq(Pairs)  BY <1>0 DEF Lists
    <2> HIDE DEF Pairs
    <2>2. \A k \in DOMAIN satisfied : satisfied[k] \in Pairs  BY <2>1
    <2> QED  BY <2>1, <2>2 DEF Pairs
  <1>4. \A i \in Ids : told[i] \subseteq told'[i] /\ "response" \in told'[e.id]
    <2>1. /\ told'[e.id] = told[e.id] \cup {"response"}
          /\ \A i \in Ids \ {e.id} : told'[i] = told[i]
      BY <1>0, <1>1, <1>2, HeardIs
    <2> QED  BY <2>1
  <1>5. CASE UNCHANGED <<pending, satisfied>>
    BY <1>3, <1>4, <1>5 DEF Accounted, Taken, TookIn, Count
  <1>6. CASE Position(e.id) # {}
    <2>1. pos \in 1 .. Len(pending) /\ pending[pos] \in Matching[e.id]
      BY <1>3, <1>6, FirstPositionIs
    <2>2. pending' = SwapRemove(pending, pos) /\ satisfied' = Append(satisfied, took)
      BY <1>2, <1>6 DEF TakePattern
    <2>3. took \in Pairs /\ took.pattern = pending[pos] /\ took.id = e.id
      BY <1>1, <1>3, <2>1
    <2> HIDE DEF pos, took, Pairs
    <2>4. ASSUME NEW p \in Patterns
          PROVE  Count(pending', p) + Taken(p)' = Count(opts'.waitFor, p)
      <3>1. Count(pending, p) = Count(pending', p) + (IF pending[pos] = p THEN 1 ELSE 0)
        BY <1>3, <2>1, <2>2, SwapRemoveCounts
      <3>2. Taken(p)' = Taken(p) + (IF took.pattern = p THEN 1 ELSE 0)
        <4>1. TookIn(Append(satisfied, took), p)
                = TookIn(satisfied, p) + (IF took.pattern = p THEN 1 ELSE 0)
          BY <1>3, <2>3, AppendCounts
        <4>2. Taken(p)' = TookIn(satisfied', p)  BY DEF Taken, TookIn
        <4> QED  BY <2>2, <4>1, <4>2 DEF Taken
      <3>3. Count(pending, p) + Taken(p) = Count(opts.waitFor, p)
        BY DEF Accounted
      <3>4. Taken(p) \in Nat
        <4> DEFINE I == {k \in DOMAIN satisfied : satisfied[k].pattern = p}
        <4>1. I \subseteq DOMAIN satisfied  OBVIOUS
        <4> HIDE DEF I
        <4>2. Cardinality(I) \in Nat  BY <1>3, <4>1, IndicesFinite
        <4> QED  BY <4>2 DEF I, Taken, TookIn
      <3>5. Count(pending', p) \in Nat
        <4> DEFINE J == {k \in DOMAIN pending' : pending'[k] = p}
        <4>1. pending' \in Seq(Patterns)  BY <1>3, <2>1, <2>2, SwapRemoveIs
        <4>2. J \subseteq DOMAIN pending'  OBVIOUS
        <4> HIDE DEF J
        <4>3. Cardinality(J) \in Nat  BY <4>1, <4>2, IndicesFinite
        <4> QED  BY <4>3 DEF J, Count
      <3>6. CASE pending[pos] = p  BY <2>3, <3>1, <3>2, <3>3, <3>4, <3>5, <3>6
      <3>7. CASE pending[pos] # p  BY <2>3, <3>1, <3>2, <3>3, <3>4, <3>5, <3>7
      <3> QED  BY <3>6, <3>7
    <2>5. ASSUME NEW k \in DOMAIN satisfied'
          PROVE  /\ satisfied'[k].pattern \in Matching[satisfied'[k].id]
                 /\ satisfied'[k].id \in Real
                 /\ "response" \in told'[satisfied'[k].id]
      <3>1. \/ k \in DOMAIN satisfied /\ satisfied'[k] = satisfied[k]
            \/ satisfied'[k] = took
        BY <1>3, <2>2, <2>3
      <3>2. CASE k \in DOMAIN satisfied /\ satisfied'[k] = satisfied[k]
        BY <1>3, <1>4, <3>2 DEF Accounted
      <3>3. CASE satisfied'[k] = took
        BY <1>1, <1>4, <2>1, <2>3, <3>3
      <3> QED  BY <3>1, <3>2, <3>3
    <2> QED  BY <2>4, <2>5 DEF Accounted
  <1> QED  BY <1>2, <1>5, <1>6 DEF TakePattern

(* Nothing taken yet, or no more. *)
LEMMA NothingTaken ==
  ASSUME opts \in Options, NEW p \in Patterns
  PROVE  /\ TookIn(<< >>, p) = 0
         /\ Count(opts.waitFor, p) \in Nat
  <1>1. {k \in DOMAIN << >> : << >>[k].pattern = p} = {}  OBVIOUS
  <1>2. Cardinality({k \in DOMAIN << >> : << >>[k].pattern = p}) = 0
    BY <1>1, FS_EmptySet
  <1> DEFINE J == {k \in DOMAIN opts.waitFor : opts.waitFor[k] = p}
  <1>3. opts.waitFor \in Seq(Patterns) /\ J \subseteq DOMAIN opts.waitFor
    BY OptionFacts
  <1>4. Cardinality(J) \in Nat
    <2> HIDE DEF J
    <2> QED  BY <1>3, IndicesFinite
  <1> QED  BY <1>2, <1>4 DEF Count, TookIn

(* No other step moves any.                                                *)
LEMMA AccountedKept ==
  ASSUME Typed, Accounted, [Next]_vars
  PROVE  Accounted'
  <1>0. opts' = opts /\ opts \in Options  BY Shapes DEF Typed, Clocks
  <1>1. CASE DropLocals
    <2>1. pending' = opts.waitFor /\ satisfied' = << >>  BY <1>1 DEF DropLocals
    <2>2. ASSUME NEW p \in Patterns
          PROVE  Count(pending', p) + Taken(p)' = Count(opts'.waitFor, p)
      <3>1. Taken(p)' = 0  BY <1>0, <2>1, NothingTaken DEF Taken, TookIn
      <3>2. Count(opts.waitFor, p) \in Nat  BY <1>0, NothingTaken
      <3> QED  BY <1>0, <2>1, <3>1, <3>2
    <2>3. DOMAIN satisfied' = {}  BY <2>1
    <2> QED  BY <2>2, <2>3 DEF Accounted
  <1>2. CASE UNCHANGED <<pending, satisfied, heard>>
    BY <1>0, <1>2, ToldSame DEF Accounted, Taken, TookIn, Count
  <1>3. CASE HandleResponse
    BY <1>0, <1>3, ResponseKeepsAccounted
  <1>4. CASE \/ HandleLifecycle \/ HandleNote \/ HandlePseudoResponse \/ HandleFinished
             \/ HandleRequest \/ HandleFailed
    <2>1. UNCHANGED <<pending, satisfied>>
      BY <1>4 DEF HandleLifecycle, HandleNote, HandlePseudoResponse, HandleFinished,
                  HandleRequest, HandleFailed
    <2>2. UNCHANGED heard \/ \E e, kind : e.id \in Ids /\ Hear(kind, e)
      BY <1>0, <1>4, HandlersHear DEF HandleEvent
    <2>3. \A id \in Ids : told[id] \subseteq told'[id]
      <3>1. Lists  BY DEF Typed
      <3> QED  BY <2>2, <3>1, ToldSame, HeardIs
    <2>4. \A k \in DOMAIN satisfied : satisfied[k].id \in Ids
      BY DEF Accounted, Real
    <2> QED  BY <1>0, <2>1, <2>3, <2>4 DEF Accounted, Taken, TookIn, Count
  <1>5. CASE PageStep
    BY <1>2, <1>5 DEF PageStep
  <1>6. CASE UNCHANGED <<pageVars, coreVars>>
    BY <1>2, <1>6 DEF coreVars
  <1>7. CASE HandleEvent
    BY <1>3, <1>4, <1>7 DEF HandleEvent
  <1> QED  BY <1>1, <1>5, <1>6, <1>7, Shapes

(* A pattern awaited is pending until one response that contains it takes  *)
(* it, however many are awaited and in whatever order responses come.      *)
THEOREM PatternsHold == Spec => []PatternsAccounted
  <1>1. Init => Accounted
    <2> SUFFICES ASSUME Init PROVE Accounted  OBVIOUS
    <2>1. opts \in Options /\ pending = opts.waitFor /\ satisfied = << >>
      BY DEF Init, LocalsAtStart
    <2>2. ASSUME NEW p \in Patterns
          PROVE  Count(pending, p) + Taken(p) = Count(opts.waitFor, p)
      <3>1. Taken(p) = 0 /\ Count(opts.waitFor, p) \in Nat
        BY <2>1, NothingTaken DEF Taken, TookIn
      <3> QED  BY <2>1, <3>1
    <2>3. DOMAIN satisfied = {}  BY <2>1
    <2> QED  BY <2>2, <2>3 DEF Accounted
  <1>2. Typed /\ Accounted /\ [Next]_vars => Accounted'
    BY AccountedKept
  <1>3. Accounted => PatternsAccounted
    BY ToldIs DEF Accounted, PatternsAccounted, Taken, TookIn, Real
  <1> QED  BY <1>1, <1>2, <1>3, AlwaysTyped, PTL DEF Spec
=============================================================================
