----------------------------- MODULE ReportProofs -----------------------------
(***************************************************************************)
(* The parts of a report agree with each other, for every input and every  *)
(* value of the caps.  The observers of the page keep an invariant in      *)
(* every behaviour of Report (VitalsHold); the lists that the other parts  *)
(* are computed from are only appended to, so what is proved of one list   *)
(* of resources, images, cookies, directives, of one timing or one query   *)
(* holds whenever the report is taken (ReportIsConsistent).                *)
(***************************************************************************)
EXTENDS Report, RollupProofs

Counters == [frames : Nat, jank : Nat, longest : Nat, first : Nat, last : Nat, prev : Nat]

Counting ==
  /\ fps \in Counters
  /\ fps.frames = 0 => fps.first = 0 /\ fps.last = 0 /\ fps.longest = 0 /\ fps.jank = 0
  /\ fps.frames > 0 => fps.first > 0

FrameInv == Counting /\ FramesAgree

(* The product in the bound of the window: one frame more, none of them    *)
(* longer than before or than the new one.                                 *)
LEMMA LongerWindow ==
  ASSUME NEW n \in Nat, NEW l \in Nat, NEW m \in Nat, NEW d \in Nat, NEW w \in Nat,
         w <= n * l, l <= m, d <= m
  PROVE  w + d <= (n + 1) * m
<1>1. n * l <= n * m
  OBVIOUS
<1>2. (n + 1) * m = n * m + m /\ n * l \in Nat /\ n * m \in Nat
  OBVIOUS
<1> QED
  BY <1>1, <1>2

(* The counters agree when the observers are installed. *)
LEMMA FramesStart == Init => FrameInv
<1> SUFFICES ASSUME Init PROVE FrameInv
  OBVIOUS
<1>1. fps = [frames |-> 0, jank |-> 0, longest |-> 0, first |-> 0, last |-> 0, prev |-> 0]
  BY DEF Init, InstallObservers
<1> QED
  BY <1>1 DEF FrameInv, Counting, Counters, FramesAgree, Janky

(* A tick closes one frame, or only starts the first one. *)
LEMMA TickCounts ==
  ASSUME FrameInv, NEW ts \in Nat, FpsTick(ts)
  PROVE  FrameInv'
<1> DEFINE dt == ts - fps.prev
<1>1. fps \in Counters /\ ts > fps.prev
  BY DEF FrameInv, Counting, FpsTick
<1>2. /\ fps.frames \in Nat /\ fps.jank \in Nat /\ fps.longest \in Nat
      /\ fps.first \in Nat /\ fps.last \in Nat /\ fps.prev \in Nat
      /\ dt \in Nat /\ dt > 0
  BY <1>1 DEF Counters
<1>3. /\ fps.frames = 0 => fps.first = 0 /\ fps.last = 0 /\ fps.longest = 0 /\ fps.jank = 0
      /\ fps.frames > 0 => fps.first > 0 /\ fps.last = fps.prev
      /\ fps.longest <= fps.last - fps.first
      /\ fps.last - fps.first <= fps.frames * fps.longest
      /\ fps.jank <= fps.frames /\ 50 * fps.jank <= 3 * (fps.last - fps.first)
      /\ fps.jank > 0 <=> 3 * fps.longest > 50
  BY DEF FrameInv, Counting, FramesAgree, Janky
<1>4. CASE fps.prev = 0
  <2>1. fps' = [fps EXCEPT !.prev = ts]
    BY <1>4 DEF FpsTick
  <2>2. /\ fps'.frames = fps.frames /\ fps'.jank = fps.jank /\ fps'.longest = fps.longest
        /\ fps'.first = fps.first /\ fps'.last = fps.last /\ fps'.prev = ts
        /\ fps' \in Counters
    BY <1>1, <2>1 DEF Counters
  <2>3. fps.frames = 0
    <3> HIDE DEF dt
    <3>1. fps.frames > 0 => fps.last = 0 /\ fps.first > 0 /\ fps.longest <= fps.last - fps.first
      BY <1>3, <1>4
    <3> QED
      BY <3>1, <1>2
  <2>4. Counting'
    BY <2>2, <1>3 DEF Counting
  <2>5. FramesAgree'
    BY <2>2, <2>3, <1>3 DEF FramesAgree, Janky
  <2> QED
    BY <2>4, <2>5 DEF FrameInv
<1>5. CASE fps.prev # 0
  <2> DEFINE longest == IF dt > fps.longest THEN dt ELSE fps.longest
             first == IF fps.first = 0 THEN fps.prev ELSE fps.first
             window == fps.last - fps.first
             jank == fps.jank + One(Janky(dt))
  <2>1. fps' = [frames |-> fps.frames + 1, jank |-> jank,
                longest |-> longest, first |-> first, last |-> ts, prev |-> ts]
    BY <1>5 DEF FpsTick
  <2>2. One(Janky(dt)) = IF 3 * dt > 50 THEN 1 ELSE 0
    BY DEF One, Janky
  <2>3. longest \in Nat /\ fps.longest <= longest /\ dt <= longest
    BY <1>2
  <2>4. first \in Nat /\ first > 0 /\ ts - first = window + dt /\ window \in Nat
    <3>1. CASE fps.frames = 0
      <4>1. fps.first = 0 /\ fps.last = 0
        BY <3>1, <1>3
      <4> QED
        BY <4>1, <1>2, <1>5
    <3>2. CASE fps.frames > 0
      <4>1. fps.first > 0 /\ fps.last = fps.prev /\ fps.longest <= fps.last - fps.first
        BY <3>2, <1>3
      <4> QED
        BY <4>1, <1>2
    <3> QED
      BY <3>1, <3>2, <1>2
  <2>5. window + dt <= (fps.frames + 1) * longest
    <3> HIDE DEF longest, dt, window
    <3>1. window <= fps.frames * fps.longest
      BY <1>3 DEF window
    <3> QED
      BY <3>1, <1>2, <2>3, <2>4, LongerWindow
  <2>6. longest <= window + dt
    <3>1. fps.longest <= window
      BY <1>3
    <3> QED
      BY <3>1, <1>2, <2>4
  <2>7. jank \in Nat /\ jank <= fps.frames + 1 /\ 50 * jank <= 3 * (window + dt)
    <3>1. fps.jank <= fps.frames /\ 50 * fps.jank <= 3 * window
      BY <1>3
    <3> QED
      BY <3>1, <1>2, <2>2, <2>4
  <2>8. jank > 0 <=> 3 * longest > 50
    <3>1. fps.jank > 0 <=> 3 * fps.longest > 50
      BY <1>3
    <3> QED
      BY <3>1, <1>2, <2>2
  <2>9. /\ fps'.frames = fps.frames + 1 /\ fps'.jank = jank /\ fps'.longest = longest
        /\ fps'.first = first /\ fps'.last = ts /\ fps'.prev = ts
    BY <2>1
  <2> HIDE DEF longest, first, window, jank, dt
  <2>10. fps' \in Counters
    BY <2>1, <2>3, <2>4, <2>7, <1>2 DEF Counters
  <2>11. Counting'
    BY <2>9, <2>10, <2>4, <1>2 DEF Counting
  <2>12. FramesAgree'
    BY <2>9, <2>4, <2>5, <2>6, <2>7, <2>8 DEF FramesAgree, Janky
  <2> QED
    BY <2>11, <2>12 DEF FrameInv
<1> QED
  BY <1>4, <1>5

(* Nothing else touches them. *)
LEMMA FramesStep == FrameInv /\ [Next]_vars => FrameInv'
<1> SUFFICES ASSUME FrameInv, [Next]_vars PROVE FrameInv'
  OBVIOUS
<1>1. CASE fps' = fps
  BY <1>1 DEF FrameInv, Counting, FramesAgree
<1>2. CASE Observed
  <2>1. PICK e \in Inputs["observers"] : Delivered(e)
    BY <1>2 DEF Observed
  <2>2. CASE e.type = "frame" /\ FpsTick(e.ts)
    BY <2>2, EntriesAssumption, TickCounts
  <2>3. CASE fps' = fps
    BY <2>3, <1>1
  <2> QED
    BY <2>1, <2>2, <2>3 DEF Delivered, LargestPaint, LayoutShift, LongTask, Interaction,
                             LongFrame, Mutated
<1>3. CASE Covered \/ Listing \/ UNCHANGED vars
  BY <1>1, <1>3 DEF Covered, Listing, vars, observers
<1> QED
  BY <1>2, <1>3 DEF Next

(* The page's frame counters describe one window without a gap, whenever   *)
(* the observers are read and whatever ticks came (__wv_fps_tick).         *)
THEOREM FramesHold == Spec => []FramesAgree
<1>1. FrameInv => FramesAgree
  BY DEF FrameInv
<1> QED
  BY FramesStart, FramesStep, <1>1, PTL DEF Spec

-----------------------------------------------------------------------------
(* Queries.                                                                *)

(* The fields of a query, and the ceilings, are what they say.             *)
LEMMA Ceilings == MaxTimeout \in Nat /\ MaxSettle \in Nat
<1>1. {MaxTimeout, MaxSettle, TopImages} \subseteq Nat
  BY CeilingsAssumption
<1> QED
  BY <1>1

(* A clamped time is within its bounds and clamping it again changes       *)
(* nothing.                                                                *)
LEMMA ClampsHold ==
  ASSUME NEW t \in Nat
  PROVE  /\ ClampTimeout(t) \in Nat /\ ClampTimeout(t) >= 1
         /\ MaxTimeout # 0 => ClampTimeout(t) <= MaxTimeout
         /\ ClampTimeout(ClampTimeout(t)) = ClampTimeout(t)
         /\ ClampSettle(t) \in Nat /\ ClampSettle(t) <= t
         /\ MaxSettle # 0 => ClampSettle(t) <= MaxSettle
         /\ ClampSettle(ClampSettle(t)) = ClampSettle(t)
BY Ceilings DEF ClampTimeout, ClampSettle

(* The ceilings change the two bounds of a query and nothing else.         *)
LEMMA ApplyClampsIs ==
  ASSUME NEW q \in QueryType
  PROVE  LET c == ApplyClamps(q)
         IN  /\ c \in QueryType
             /\ c.profile = q.profile /\ c.content_only = q.content_only
             /\ c.until_load = q.until_load /\ c.disable_javascript = q.disable_javascript
             /\ c.all_metrics = q.all_metrics /\ c.coverage = q.coverage
             /\ c.metrics = q.metrics /\ c.binary = q.binary
             /\ c.timeout_ms = ClampTimeout(q.timeout_ms)
             /\ c.settle_ms = IF q.settle_ms = Unset THEN Unset ELSE ClampSettle(q.settle_ms)
             /\ (c.timeout_ms = q.timeout_ms /\ c.settle_ms = q.settle_ms => c = q)
<1> DEFINE tm == ClampTimeout(q.timeout_ms)
           st == IF q.settle_ms = Unset THEN Unset ELSE ClampSettle(q.settle_ms)
           c == [q EXCEPT !.timeout_ms = tm, !.settle_ms = st]
<1>1. q.timeout_ms \in Nat /\ q.settle_ms \in Nat \cup {Unset}
  BY DEF QueryType
<1>2. tm \in Nat /\ st \in Nat \cup {Unset}
  BY <1>1, ClampsHold
<1>3. ApplyClamps(q) = c
  BY DEF ApplyClamps
<1> HIDE DEF tm, st
<1>4. c \in QueryType
  BY <1>2 DEF QueryType
<1>5. /\ c.profile = q.profile /\ c.content_only = q.content_only
      /\ c.until_load = q.until_load /\ c.disable_javascript = q.disable_javascript
      /\ c.all_metrics = q.all_metrics /\ c.coverage = q.coverage
      /\ c.metrics = q.metrics /\ c.binary = q.binary
      /\ c.timeout_ms = tm /\ c.settle_ms = st
  BY DEF QueryType
<1>6. tm = q.timeout_ms /\ st = q.settle_ms => c = q
  BY DEF QueryType
<1> HIDE DEF c
<1> QED
  BY <1>3, <1>4, <1>5, <1>6 DEF tm, st

(* What a profile and the clamps leave of a query, field by field.         *)
LEMMA ResolvedIs ==
  ASSUME NEW q \in QueryType
  PROVE  /\ Resolved(q) \in QueryType
         /\ Resolved(q).profile = q.profile
         /\ Resolved(q).content_only = (q.content_only \/ q.profile \in {"content", "scrape"})
         /\ Resolved(q).all_metrics = (q.all_metrics \/ q.profile \in {"audit", "lighthouse"})
         /\ Resolved(q).coverage = (q.coverage \/ q.profile = "lighthouse")
         /\ Resolved(q).metrics = q.metrics /\ Resolved(q).binary = q.binary
         /\ Resolved(q).timeout_ms = ClampTimeout(q.timeout_ms)
         /\ Resolved(q).settle_ms =
              IF q.settle_ms = Unset THEN Unset ELSE ClampSettle(q.settle_ms)
<1> DEFINE p == ApplyProfile(q)
<1>1. /\ p \in QueryType
      /\ p.profile = q.profile
      /\ p.content_only = (q.content_only \/ q.profile \in {"content", "scrape"})
      /\ p.all_metrics = (q.all_metrics \/ q.profile \in {"audit", "lighthouse"})
      /\ p.coverage = (q.coverage \/ q.profile = "lighthouse")
      /\ p.metrics = q.metrics /\ p.binary = q.binary
      /\ p.timeout_ms = q.timeout_ms /\ p.settle_ms = q.settle_ms
  <2>1. CASE q.profile = "content"
    BY <2>1 DEF ApplyProfile, QueryType
  <2>2. CASE q.profile = "scrape"
    BY <2>2 DEF ApplyProfile, QueryType
  <2>3. CASE q.profile = "audit"
    BY <2>3 DEF ApplyProfile, QueryType
  <2>4. CASE q.profile = "lighthouse"
    BY <2>4 DEF ApplyProfile, QueryType
  <2>5. CASE q.profile = "absent"
    BY <2>5 DEF ApplyProfile, QueryType
  <2> QED
    BY <2>1, <2>2, <2>3, <2>4, <2>5 DEF QueryType
<1> HIDE DEF p
<1>2. Resolved(q) = ApplyClamps(p)
  BY DEF Resolved, p
<1>3. p \in QueryType
  BY <1>1
<1> QED
  BY <1>1, <1>2, <1>3, ApplyClampsIs

(* Resolving once is enough: a query that was stored resolved, or is       *)
(* resolved by a retry again, asks for the same capture.                   *)
LEMMA ResolvedTwice == ASSUME NEW q \in QueryType PROVE Resolved(Resolved(q)) = Resolved(q)
<1> DEFINE r == Resolved(q)
           p == ApplyProfile(r)
<1>1. /\ r \in QueryType
      /\ r.profile = q.profile
      /\ r.content_only = (q.content_only \/ q.profile \in {"content", "scrape"})
      /\ r.all_metrics = (q.all_metrics \/ q.profile \in {"audit", "lighthouse"})
      /\ r.coverage = (q.coverage \/ q.profile = "lighthouse")
      /\ r.timeout_ms = ClampTimeout(q.timeout_ms)
      /\ r.settle_ms = IF q.settle_ms = Unset THEN Unset ELSE ClampSettle(q.settle_ms)
      /\ r.profile = "scrape" => r.disable_javascript = TRUE
      /\ r.profile \in {"content", "scrape"} => r.until_load = TRUE
  <2>1. /\ r.profile = "scrape" => r.disable_javascript = TRUE
        /\ r.profile \in {"content", "scrape"} => r.until_load = TRUE
    <3> DEFINE a == ApplyProfile(q)
    <3>1. /\ a \in QueryType /\ a.profile = q.profile
          /\ a.profile = "scrape" => a.disable_javascript = TRUE
          /\ a.profile \in {"content", "scrape"} => a.until_load = TRUE
      BY DEF ApplyProfile, QueryType
    <3>2. r = ApplyClamps(a)
      BY DEF Resolved
    <3> HIDE DEF a, r
    <3> QED
      BY <3>1, <3>2, ApplyClampsIs
  <2> QED
    BY <2>1, ResolvedIs
<1> HIDE DEF r
<1>2. p = r
  <2>1. CASE r.profile = "content"
    <3>1. r.content_only = TRUE /\ r.until_load = TRUE
      BY <1>1, <2>1
    <3> QED
      BY <1>1, <2>1, <3>1 DEF ApplyProfile, QueryType
  <2>2. CASE r.profile = "scrape"
    <3>1. r.content_only = TRUE /\ r.until_load = TRUE /\ r.disable_javascript = TRUE
      BY <1>1, <2>2
    <3> QED
      BY <1>1, <2>2, <3>1 DEF ApplyProfile, QueryType
  <2>3. CASE r.profile = "audit"
    <3>1. r.all_metrics = TRUE
      BY <1>1, <2>3
    <3> QED
      BY <1>1, <2>3, <3>1 DEF ApplyProfile, QueryType
  <2>4. CASE r.profile = "lighthouse"
    <3>1. r.all_metrics = TRUE /\ r.coverage = TRUE
      BY <1>1, <2>4
    <3> QED
      BY <1>1, <2>4, <3>1 DEF ApplyProfile, QueryType
  <2>5. CASE r.profile = "absent"
    BY <2>5 DEF ApplyProfile
  <2> QED
    BY <1>1, <2>1, <2>2, <2>3, <2>4, <2>5 DEF QueryType
<1>3. ClampTimeout(r.timeout_ms) = r.timeout_ms
  BY <1>1, ClampsHold DEF QueryType
<1>4. (IF r.settle_ms = Unset THEN Unset ELSE ClampSettle(r.settle_ms)) = r.settle_ms
  BY <1>1, ClampsHold DEF QueryType
<1>5. ApplyClamps(r) = r
  <2>1. r \in QueryType
    BY <1>1
  <2> QED
    BY ONLY <1>3, <1>4, <2>1, ApplyClampsIs
<1> QED
  BY <1>2, <1>5 DEF Resolved, r

(* For every query, whatever its profile, its flags and its times: lean    *)
(* wins over every flag and profile, nothing heavy is implied, and the     *)
(* times come out under the ceilings (apply_profile, apply_clamps).        *)
THEOREM EveryQueryResolved == ASSUME NEW q \in QueryType PROVE QueriesResolved(q)
<1> DEFINE r == Resolved(q)
           flags == CaptureFlags(r, Analytical)
<1>1. /\ flags.lean = r.content_only
      /\ flags.metrics = IF r.content_only THEN {} ELSE
                           IF r.all_metrics THEN Analytical ELSE r.metrics
      /\ flags.binary = IF r.content_only THEN {} ELSE r.binary
      /\ flags.coverage = (r.coverage /\ ~r.content_only)
  BY DEF CaptureFlags
<1>2. /\ flags.lean <=> q.content_only \/ q.profile \in {"content", "scrape"}
      /\ flags.lean => flags.metrics = {} /\ flags.binary = {} /\ ~flags.coverage
      /\ ~flags.lean => q.metrics \subseteq flags.metrics /\ flags.binary = q.binary
      /\ flags.coverage => q.coverage \/ q.profile = "lighthouse"
  <2>1. q.metrics \subseteq Analytical
    BY DEF QueryType
  <2> QED
    BY <1>1, <2>1, ResolvedIs
<1>3. /\ r.timeout_ms >= 1 /\ (MaxTimeout # 0 => r.timeout_ms <= MaxTimeout)
      /\ q.settle_ms = Unset <=> r.settle_ms = Unset
      /\ r.settle_ms <= q.settle_ms /\ (MaxSettle # 0 => r.settle_ms <= MaxSettle)
  BY ResolvedIs, ClampsHold, Ceilings DEF QueryType, Unset
<1>4. Resolved(r) = r
  BY ResolvedTwice
<1> HIDE DEF r, flags
<1> QED
  BY <1>2, <1>3, <1>4 DEF QueriesResolved, r, flags

(* For every query a tool may make of its defaults: fetch_page gets the    *)
(* content, the others a full result without coverage, with the flags the  *)
(* answer is built from and no binary but the screenshot (mcp.rs).         *)
THEOREM EveryToolServed == ASSUME NEW q \in QueryType PROVE ToolsServed(q)
<1> SUFFICES ASSUME Defaults(q) PROVE ToolsServed(q)
  BY DEF ToolsServed
<1> DEFINE flags(tool) == CaptureFlags(Resolved(tool), Analytical)
           Flagged(tool) == /\ flags(tool).lean = Resolved(tool).content_only
                            /\ flags(tool).metrics =
                                 IF Resolved(tool).content_only THEN {} ELSE
                                 IF Resolved(tool).all_metrics THEN Analytical
                                                              ELSE Resolved(tool).metrics
                            /\ flags(tool).binary =
                                 IF Resolved(tool).content_only THEN {}
                                                               ELSE Resolved(tool).binary
                            /\ flags(tool).coverage =
                                 (Resolved(tool).coverage /\ ~Resolved(tool).content_only)
<1>1. /\ Flagged(FetchPage(q)) /\ Flagged(PageSignals(q))
      /\ Flagged(Screenshot(q)) /\ Flagged(PageAudit(q))
  BY DEF CaptureFlags
<1>2. /\ q.profile = "absent" /\ q.metrics = {} /\ q.binary = {}
      /\ q.content_only = FALSE /\ q.all_metrics = FALSE /\ q.coverage = FALSE
  BY DEF Defaults, QueryType
<1>3. /\ FetchPage(q) \in QueryType /\ FetchPage(q).content_only = TRUE
  BY DEF FetchPage, QueryType
<1>4. /\ PageSignals(q) \in QueryType /\ PageSignals(q).metrics = PageFlags
      /\ PageSignals(q).profile = "absent" /\ PageSignals(q).binary = {}
      /\ PageSignals(q).content_only = FALSE /\ PageSignals(q).all_metrics = FALSE
      /\ PageSignals(q).coverage = FALSE
  BY <1>2, QueriesAssumption DEF PageSignals, QueryType
<1>5. /\ Screenshot(q) \in QueryType /\ Screenshot(q).binary = {"screenshot"}
      /\ Screenshot(q).profile = "absent" /\ Screenshot(q).content_only = FALSE
      /\ Screenshot(q).coverage = FALSE
  BY <1>2 DEF Screenshot, QueryType
<1>6. /\ PageAudit(q) \in QueryType /\ PageAudit(q).profile = "audit"
      /\ PageAudit(q).binary = {} /\ PageAudit(q).content_only = FALSE
      /\ PageAudit(q).coverage = FALSE
  BY <1>2 DEF PageAudit, QueryType
<1> HIDE DEF flags
<1>7. flags(FetchPage(q)).lean = TRUE
  BY <1>1, <1>3, ResolvedIs
<1>8. /\ flags(PageSignals(q)).lean = FALSE /\ flags(PageSignals(q)).coverage = FALSE
      /\ flags(PageSignals(q)).metrics = PageFlags /\ flags(PageSignals(q)).binary = {}
  BY <1>1, <1>4, ResolvedIs
<1>9. /\ flags(Screenshot(q)).lean = FALSE /\ flags(Screenshot(q)).coverage = FALSE
      /\ flags(Screenshot(q)).binary = {"screenshot"}
  BY <1>1, <1>5, ResolvedIs
<1>10. /\ flags(PageAudit(q)).lean = FALSE /\ flags(PageAudit(q)).coverage = FALSE
       /\ flags(PageAudit(q)).metrics = Analytical /\ flags(PageAudit(q)).binary = {}
  <2>1. /\ Resolved(PageAudit(q)).content_only = FALSE
        /\ Resolved(PageAudit(q)).all_metrics = TRUE
        /\ Resolved(PageAudit(q)).coverage = FALSE
        /\ Resolved(PageAudit(q)).binary = {}
    BY <1>6, ResolvedIs
  <2> QED
    BY <1>1, <2>1
<1>11. Captured(flags(FetchPage(q))) = "content"
  BY <1>7 DEF Captured
<1>12. \A f \in {flags(PageSignals(q)), flags(Screenshot(q)), flags(PageAudit(q))} :
         Captured(f) = "full" /\ ~f.coverage
  BY <1>8, <1>9, <1>10 DEF Captured
<1>13. PageSignals(q).metrics \subseteq flags(PageSignals(q)).metrics
  BY <1>4, <1>8
<1> QED
  BY <1>8, <1>9, <1>10, <1>11, <1>12, <1>13 DEF ToolsServed, flags

-----------------------------------------------------------------------------
(* The lists of inputs, and what is derived of each kind.                  *)

(* Every input of a behaviour is one that was to be considered.            *)
Given == kind \in Kinds /\ inputs \in Seq(Inputs[kind])

(* Inputs are only appended, and their kind stays.                         *)
LEMMA AlwaysGiven == Spec => []Given
<1>1. Init => Given
  BY DEF Init, Given
<1>2. Given /\ [Next]_vars => Given'
  <2> SUFFICES ASSUME Given, [Next]_vars PROVE Given'
    OBVIOUS
  <2>1. CASE UNCHANGED vars
    BY <2>1 DEF Given, vars
  <2>2. CASE \E e \in Inputs[kind] : Arrives(e)
    BY <2>2 DEF Given, Arrives
  <2> QED
    BY <2>1, <2>2 DEF Next, Observed, Covered, Listing
<1> QED
  BY <1>1, <1>2, PTL DEF Spec

(* The findings are exactly those that the directives of the header, taken *)
(* one by one, give reason for, for every header (parse_csp).              *)
THEOREM EveryPolicyAgrees ==
  ASSUME NEW D, NEW csp \in Seq(D)
  PROVE  PoliciesAgree(csp)
<1> DEFINE a == CspAnalysis(csp)
           named(n) == \E i \in DOMAIN csp : csp[i].name = n
           lists(source) == {i \in DOMAIN csp : source \in csp[i].sources}
           names == {csp[i].name : i \in DOMAIN csp}
           sources(n) == UNION {csp[i].sources : i \in {j \in DOMAIN csp : csp[j].name = n}}
           anywhere(source) == \E n \in names : source \in sources(n)
<1>1. /\ a.unsafe_inline = anywhere("'unsafe-inline'")
      /\ a.unsafe_eval = anywhere("'unsafe-eval'")
      /\ a.wildcard_directives = {n \in names : "*" \in sources(n)}
      /\ a.missing_object_src = ({"object-src", "default-src"} \cap names = {})
      /\ a.missing_base_uri = ("base-uri" \notin names)
      /\ a.missing_frame_ancestors = ("frame-ancestors" \notin names)
  BY DEF CspAnalysis
<1>2. \A n : n \in names <=> named(n)
  OBVIOUS
<1>3. \A source, n : source \in sources(n) <=> \E i \in lists(source) : csp[i].name = n
  OBVIOUS
<1>4. \A i \in DOMAIN csp : csp[i].name \in names
  OBVIOUS
<1>5. \A source : lists(source) \subseteq DOMAIN csp
  OBVIOUS
<1>6. {csp[i].name : i \in lists("*")} \subseteq names
  OBVIOUS
<1>7. \A n : n \in {csp[i].name : i \in lists("*")} <=> \E i \in lists("*") : csp[i].name = n
  OBVIOUS
<1> HIDE DEF names, sources, lists
<1>8. \A source : anywhere(source) <=> lists(source) # {}
  BY <1>3, <1>4, <1>5
<1>9. {n \in names : "*" \in sources(n)} = {csp[i].name : i \in lists("*")}
  BY <1>3, <1>6, <1>7
<1>10. {n \in names : "*" \in sources(n)} # {} <=> lists("*") # {}
  BY <1>8
<1>11. {"object-src", "default-src"} \cap names = {} <=> ~named("object-src") /\ ~named("default-src")
  BY <1>2
<1>12. "base-uri" \notin names <=> ~named("base-uri")
  BY <1>2
<1>13. "frame-ancestors" \notin names <=> ~named("frame-ancestors")
  BY <1>2
<1> HIDE DEF anywhere, named, a
<1>14. /\ "unsafe-inline" \in Weaknesses(a) <=> a.unsafe_inline
       /\ "unsafe-eval" \in Weaknesses(a) <=> a.unsafe_eval
       /\ "wildcard-source" \in Weaknesses(a) <=> a.wildcard_directives # {}
       /\ "missing-object-src" \in Weaknesses(a) <=> a.missing_object_src
       /\ "missing-base-uri" \in Weaknesses(a) <=> a.missing_base_uri
       /\ "missing-frame-ancestors" \in Weaknesses(a) <=> a.missing_frame_ancestors
  BY DEF Weaknesses
<1>15. /\ "unsafe-inline" \in Weaknesses(a) <=> lists("'unsafe-inline'") # {}
       /\ "unsafe-eval" \in Weaknesses(a) <=> lists("'unsafe-eval'") # {}
  BY <1>1, <1>8, <1>14
<1>16. /\ "wildcard-source" \in Weaknesses(a) <=> lists("*") # {}
       /\ a.wildcard_directives = {csp[i].name : i \in lists("*")}
  BY <1>1, <1>9, <1>10, <1>14
<1>17. /\ "missing-object-src" \in Weaknesses(a) <=> ~named("object-src") /\ ~named("default-src")
       /\ "missing-base-uri" \in Weaknesses(a) <=> ~named("base-uri")
       /\ "missing-frame-ancestors" \in Weaknesses(a) <=> ~named("frame-ancestors")
  BY <1>1, <1>11, <1>12, <1>13, <1>14
<1> QED
  BY <1>15, <1>16, <1>17, Zenon DEF PoliciesAgree, a, named, lists

(* Dropping the fraction takes less than a millisecond off.                *)
LEMMA WholeMsIs ==
  ASSUME NEW d \in Int
  PROVE  /\ d < 0 => WholeMs(d) = 0
         /\ d >= 0 => /\ WholeMs(d) * Millisecond <= d
                      /\ d < (WholeMs(d) + 1) * Millisecond
BY DEF WholeMs, Millisecond

(* The document's phases and the archive's agree for every request whose   *)
(* phases Chrome measured (build_document_timing, build_har).              *)
THEOREM EveryTimingAgrees == ASSUME NEW t, Measured(t) PROVE TimingsAgree(t)
<1> DEFINE whole(ms, exact) == /\ ms * Millisecond <= exact
                               /\ exact < (ms + 1) * Millisecond
           same(ms, exact) == IF exact < 0 THEN ms = 0 ELSE whole(ms, exact)
<1>1. ASSUME NEW start, NEW end, Phase(start, end)
      PROVE  same(WholeMs(end - start), HarPhase(start, end))
  <2>1. start \in Int /\ end \in Int /\ end - start \in Int
    BY <1>1 DEF Phase
  <2>2. CASE start >= 0
    <3>1. HarPhase(start, end) = end - start
      BY <1>1, <2>2 DEF Phase, HarPhase
    <3> QED
      BY <2>1, <3>1, WholeMsIs
  <2>3. CASE start < 0
    <3>1. HarPhase(start, end) = -1000 /\ end - start = 0
      BY <1>1, <2>1, <2>3 DEF Phase, HarPhase, Millisecond
    <3>2. WholeMs(0) = 0
      BY DEF WholeMs
    <3> QED
      BY <3>1, <3>2
  <2> QED
    BY <2>1, <2>2, <2>3
<1>2. /\ t.headers_end - t.send_start \in Nat
      /\ AtLeast0(t.send_end - t.send_start) + AtLeast0(t.headers_end - t.send_end)
           = t.headers_end - t.send_start
  BY DEF Measured, AtLeast0
<1>3. /\ same(DocumentTiming(t).dns_ms, HarTimings(t).dns)
      /\ same(DocumentTiming(t).tcp_ms, HarTimings(t).connect)
      /\ same(DocumentTiming(t).tls_ms, HarTimings(t).ssl)
  <2> HIDE DEF same
  <2> QED
    BY <1>1 DEF Measured, DocumentTiming, HarTimings
<1>4. whole(DocumentTiming(t).ttfb_ms, HarTimings(t).send + HarTimings(t).wait)
  <2>1. /\ DocumentTiming(t).ttfb_ms = WholeMs(t.headers_end - t.send_start)
        /\ HarTimings(t).send + HarTimings(t).wait = t.headers_end - t.send_start
    BY <1>2 DEF DocumentTiming, HarTimings
  <2>2. whole(WholeMs(t.headers_end - t.send_start), t.headers_end - t.send_start)
    BY <1>2, WholeMsIs
  <2> QED
    BY <2>1, <2>2
<1> QED
  BY <1>3, <1>4, Zenon DEF TimingsAgree, same, whole

(* The estimate of the Cookie header and the counts of the jar agree, for  *)
(* every jar (build_security_audit).                                       *)
THEOREM EveryJarAgrees ==
  ASSUME NEW jar \in Seq(Inputs["cookies"])
  PROVE  CookiesAgree(jar)
<1> DEFINE D == DOMAIN jar
           n == Len(jar)
           ones == [i \in D |-> 1]
           seps == [i \in D |-> 2 * ones[i]]
           pair == [i \in D |-> jar[i].name + 1 + jar[i].value]
           full == [i \in D |-> jar[i].name + 1 + jar[i].value + 2]
           secure == [i \in D |-> One(jar[i].secure)]
           set == [i \in D |-> One(jar[i].same_site # "absent")]
           bare == [i \in D |-> One(jar[i].same_site = "none" /\ ~jar[i].secure)]
           either == [i \in D |-> bare[i] + secure[i]]
           check == CookieCheck(jar)
           bytes == SumFunctionOnSet(full, D)
<1>1. \A i \in D : jar[i].name \in Nat /\ jar[i].value \in Nat /\ jar[i].secure \in BOOLEAN
  BY JarAssumption
<1>2. \A i \in D :
        /\ ones[i] = 1 /\ seps[i] = 2 * ones[i]
        /\ pair[i] \in Nat /\ full[i] = pair[i] + seps[i]
        /\ secure[i] \in {0, 1} /\ set[i] \in {0, 1} /\ bare[i] \in {0, 1}
        /\ either[i] = bare[i] + secure[i] /\ either[i] <= ones[i] /\ bare[i] <= set[i]
  BY <1>1 DEF One
<1>3. /\ check.total = n /\ check.secure = SumFunctionOnSet(secure, D)
      /\ check.same_site_set = SumFunctionOnSet(set, D)
      /\ check.none_without_secure = SumFunctionOnSet(bare, D)
      /\ check.header_bytes = IF bytes >= 2 THEN bytes - 2 ELSE bytes
  BY DEF CookieCheck, SumOver, SumFunction
<1>4. SumOver(jar, LAMBDA c : c.name + 1 + c.value) = SumFunctionOnSet(pair, D)
  BY DEF SumOver, SumFunction
<1>5. n \in Nat /\ IsFiniteSet(D) /\ Cardinality(D) = n /\ (n = 0 => D = {})
  <2>1. n \in Nat /\ D = 1 .. n
    OBVIOUS
  <2> HIDE DEF n, D
  <2>2. IsFiniteSet(1 .. n) /\ Cardinality(1 .. n) = n
    BY <2>1, FS_Interval
  <2> QED
    BY <2>1, <2>2
<1> HIDE DEF D, n, ones, seps, pair, full, secure, set, bare, either, check
<1>6. \A i \in D :
        /\ ones[i] \in Int /\ seps[i] \in Int /\ pair[i] \in Int /\ secure[i] \in Int
        /\ set[i] \in Int /\ bare[i] \in Int /\ either[i] \in Int
        /\ pair[i] \in Nat
  BY <1>2
<1>7. SumFunctionOnSet(ones, D) = n
  BY <1>2, <1>5, SumOnes
<1>8. SumFunctionOnSet(seps, D) = 2 * SumFunctionOnSet(ones, D)
  <2>1. IsFiniteSet(D) /\ 2 \in Int /\ \A i \in D : ones[i] \in Int /\ seps[i] = 2 * ones[i]
    BY <1>2, <1>5, <1>6
  <2> QED
    BY ONLY <2>1, SumTimes
<1>9. bytes = SumFunctionOnSet(pair, D) + SumFunctionOnSet(seps, D)
  <2>1. /\ IsFiniteSet(D)
        /\ \A i \in D : pair[i] \in Int /\ seps[i] \in Int /\ full[i] = pair[i] + seps[i]
    BY <1>2, <1>5, <1>6
  <2> QED
    BY ONLY <2>1, SumPlus
<1>10. SumFunctionOnSet(either, D) = SumFunctionOnSet(bare, D) + SumFunctionOnSet(secure, D)
  <2>1. /\ IsFiniteSet(D)
        /\ \A i \in D : bare[i] \in Int /\ secure[i] \in Int /\ either[i] = bare[i] + secure[i]
    BY <1>2, <1>5, <1>6
  <2> QED
    BY ONLY <2>1, SumPlus
<1>11. SumFunctionOnSet(either, D) <= SumFunctionOnSet(ones, D)
  <2>1. /\ IsFiniteSet(D)
        /\ \A i \in D : either[i] \in Int /\ ones[i] \in Int /\ either[i] <= ones[i]
    BY <1>2, <1>5, <1>6
  <2> QED
    BY ONLY <2>1, SumMonotone
<1>12. SumFunctionOnSet(bare, D) <= SumFunctionOnSet(set, D)
  <2>1. /\ IsFiniteSet(D)
        /\ \A i \in D : bare[i] \in Int /\ set[i] \in Int /\ bare[i] <= set[i]
    BY <1>2, <1>5, <1>6
  <2> QED
    BY ONLY <2>1, SumMonotone
<1>13. /\ SumFunctionOnSet(pair, D) \in Nat /\ SumFunctionOnSet(bare, D) \in Int
       /\ SumFunctionOnSet(secure, D) \in Int
  <2>1. D \in SUBSET D
    OBVIOUS
  <2>2. SumFunctionOnSet(pair, D) \in Nat
    BY <1>5, <1>6, <2>1, SumPart
  <2> QED
    BY <1>5, <1>6, <2>2, SumType
<1>14. n = 0 => SumFunctionOnSet(pair, D) = 0
  BY <1>5, SumEmpty
<1> HIDE DEF bytes
<1> DEFINE sum == SumOver(jar, LAMBDA c : c.name + 1 + c.value)
<1>15. sum = SumFunctionOnSet(pair, D)
  BY <1>4
<1> HIDE DEF sum
<1>16. check.header_bytes = sum + 2 * AtLeast0(n - 1)
  BY <1>3, <1>5, <1>7, <1>8, <1>9, <1>13, <1>14, <1>15 DEF AtLeast0
<1>17. /\ check.none_without_secure <= check.total - check.secure
       /\ check.none_without_secure <= check.same_site_set
  BY <1>3, <1>5, <1>7, <1>10, <1>11, <1>12, <1>13
<1> QED
  BY <1>16, <1>17, Zenon DEF CookiesAgree, check, n, sum

(* Whatever queries come, each becomes the capture it asks for.            *)
THEOREM QueriesHold == Spec => []QueriesAgree
<1>1. Given => QueriesAgree
  <2> SUFFICES ASSUME Given, kind = "query", NEW i \in DOMAIN inputs
               PROVE  QueriesResolved(inputs[i]) /\ ToolsServed(inputs[i])
    BY DEF QueriesAgree
  <2>1. inputs[i] \in QueryType
    BY QueriesAssumption DEF Given
  <2> QED
    BY <2>1, EveryQueryResolved, EveryToolServed
<1> QED
  BY AlwaysGiven, <1>1, PTL

-----------------------------------------------------------------------------
(* The capped lists.                                                       *)

(* The entries of one type. *)
Entries(type) == {e \in Inputs["observers"] : e.type = type}

Fields == {"lcp", "lcp_element", "cls", "cls_entries", "tbt", "long_tasks",
           "long_task_entries", "inp", "interaction_count", "loaf_entries"}

Bounded ==
  /\ DOMAIN vitals = Fields
  /\ vitals.long_tasks \in Nat
  /\ vitals.long_task_entries \in Seq(Entries("longtask"))
  /\ vitals.loaf_entries \in Seq({Kept(e) : e \in Entries("long-animation-frame")})
  /\ vitals.cls_entries \in Seq({Moved(e) : e \in Entries("layout-shift")})
  /\ Len(vitals.long_task_entries) = IF vitals.long_tasks < MaxLongTasks
                                       THEN vitals.long_tasks ELSE MaxLongTasks
  /\ Len(vitals.loaf_entries) <= MaxLoaf /\ Len(vitals.cls_entries) <= MaxClsEntries

(* The caps, one by one.                                                   *)
LEMMA Caps == MaxLongTasks \in Nat /\ MaxLoaf \in Nat /\ MaxClsEntries \in Nat
<1>1. {MaxClsEntries, MaxLongTasks, MaxLoaf, ScriptsPerFrame, TopOffenders} \subseteq Nat
  BY CapsAssumption
<1> QED
  BY <1>1

(* A capped list takes what comes until it is full.                        *)
LEMMA CappedIs ==
  ASSUME NEW S, NEW s \in Seq(S), NEW x \in S, NEW cap \in Nat
  PROVE  /\ Capped(s, x, cap) \in Seq(S)
         /\ Len(Capped(s, x, cap)) = IF Len(s) < cap THEN Len(s) + 1 ELSE Len(s)
BY DEF Capped

(* The observers are installed with empty lists.                           *)
LEMMA BoundedStarts == Init => Bounded
<1> SUFFICES ASSUME Init PROVE Bounded
  OBVIOUS
<1>1. /\ vitals.long_tasks = 0 /\ vitals.long_task_entries = << >>
      /\ vitals.loaf_entries = << >> /\ vitals.cls_entries = << >>
  BY DEF Init, InstallObservers
<1>2. DOMAIN vitals = Fields
  BY DEF Init, InstallObservers, Fields
<1> QED
  BY <1>1, <1>2, Caps DEF Bounded

(* One entry more, in one list at most.                                    *)
LEMMA BoundedStep == Bounded /\ [Next]_vars => Bounded'
<1> SUFFICES ASSUME Bounded, [Next]_vars PROVE Bounded'
  OBVIOUS
<1>1. CASE vitals' = vitals
  BY <1>1 DEF Bounded
<1>2. CASE Observed
  <2>1. PICK e \in Inputs["observers"] : Delivered(e)
    BY <1>2 DEF Observed
  <2>2. CASE LargestPaint(e)
    <3>1. CASE e.start < vitals.lcp
      BY <1>1, <2>2, <3>1 DEF LargestPaint
    <3>2. CASE ~(e.start < vitals.lcp)
      BY <2>2, <3>2 DEF LargestPaint, Bounded
    <3> QED
      BY <3>1, <3>2
  <2>3. CASE e.type = "layout-shift" /\ LayoutShift(e)
    <3> DEFINE kept == Capped(vitals.cls_entries, Moved(e), MaxClsEntries)
    <3>1. CASE e.recent
      BY <1>1, <2>3, <3>1 DEF LayoutShift
    <3>2. CASE ~e.recent
      <4>1. vitals' = [vitals EXCEPT !.cls = @ + e.value, !.cls_entries = kept]
        BY <2>3, <3>2 DEF LayoutShift
      <4>2. /\ kept \in Seq({Moved(x) : x \in Entries("layout-shift")})
            /\ Len(kept) <= MaxClsEntries
        <5> DEFINE S == {Moved(x) : x \in Entries("layout-shift")}
        <5>1. Moved(e) \in S
          BY <2>3 DEF Entries
        <5>2. vitals.cls_entries \in Seq(S) /\ Len(vitals.cls_entries) <= MaxClsEntries
          BY DEF Bounded
        <5> HIDE DEF S
        <5>3. /\ kept \in Seq(S)
              /\ Len(kept) = IF Len(vitals.cls_entries) < MaxClsEntries
                               THEN Len(vitals.cls_entries) + 1 ELSE Len(vitals.cls_entries)
          BY <5>1, <5>2, CappedIs, Caps
        <5> HIDE DEF kept
        <5>4. Len(kept) <= MaxClsEntries
          BY <5>2, <5>3, Caps
        <5> QED
          BY <5>3, <5>4 DEF S
      <4> HIDE DEF kept
      <4> QED
        BY <4>1, <4>2 DEF Bounded
    <3> QED
      BY <3>1, <3>2
  <2>4. CASE e.type = "longtask" /\ LongTask(e)
    <3> DEFINE kept == Capped(vitals.long_task_entries, e, MaxLongTasks)
               blocked == vitals.tbt + (IF e.duration > 50 THEN e.duration - 50 ELSE 0)
    <3>1. vitals' = [vitals EXCEPT !.tbt = blocked, !.long_tasks = @ + 1,
                                   !.long_task_entries = kept]
      BY <2>4 DEF LongTask
    <3>2. /\ kept \in Seq(Entries("longtask"))
          /\ Len(kept) = IF vitals.long_tasks + 1 < MaxLongTasks
                           THEN vitals.long_tasks + 1 ELSE MaxLongTasks
      <4>1. e \in Entries("longtask")
        BY <2>4 DEF Entries
      <4> QED
        BY <4>1, CappedIs, Caps DEF Bounded
    <3> HIDE DEF kept, blocked
    <3> QED
      BY <3>1, <3>2 DEF Bounded
  <2>5. CASE Interaction(e)
    BY <2>5 DEF Interaction, Bounded
  <2>6. CASE e.type = "long-animation-frame" /\ LongFrame(e)
    <3> DEFINE kept == Capped(vitals.loaf_entries, Kept(e), MaxLoaf)
    <3>1. vitals' = [vitals EXCEPT !.loaf_entries = kept]
      BY <2>6 DEF LongFrame
    <3>2. /\ kept \in Seq({Kept(x) : x \in Entries("long-animation-frame")})
          /\ Len(kept) <= MaxLoaf
      <4> DEFINE S == {Kept(x) : x \in Entries("long-animation-frame")}
      <4>1. Kept(e) \in S
        BY <2>6 DEF Entries
      <4>2. vitals.loaf_entries \in Seq(S) /\ Len(vitals.loaf_entries) <= MaxLoaf
        BY DEF Bounded
      <4> HIDE DEF S
      <4>3. /\ kept \in Seq(S)
            /\ Len(kept) = IF Len(vitals.loaf_entries) < MaxLoaf
                             THEN Len(vitals.loaf_entries) + 1 ELSE Len(vitals.loaf_entries)
        BY <4>1, <4>2, CappedIs, Caps
      <4> HIDE DEF kept
      <4>4. Len(kept) <= MaxLoaf
        BY <4>2, <4>3, Caps
      <4> QED
        BY <4>3, <4>4 DEF S
    <3> HIDE DEF kept
    <3> QED
      BY <3>1, <3>2 DEF Bounded
  <2>7. CASE vitals' = vitals
    BY <1>1, <2>7
  <2> QED
    BY <2>1, <2>2, <2>3, <2>4, <2>5, <2>6, <2>7 DEF Delivered, FpsTick, Mutated
<1>3. CASE Covered \/ Listing \/ UNCHANGED vars
  BY <1>1, <1>3 DEF Covered, Listing, vars, observers
<1> QED
  BY <1>2, <1>3 DEF Next

(* A page that never stops shifting, blocking and animating fills the      *)
(* lists up to their caps and not beyond, and the list of long tasks lacks *)
(* an entry only once it is full (MAX_CLS_ENTRIES, MAX_LONGTASKS,          *)
(* MAX_LOAF).                                                              *)
THEOREM ListsStayCapped == Spec => []Bounded
BY BoundedStarts, BoundedStep, PTL DEF Spec

-----------------------------------------------------------------------------
(* The roll-ups.                                                           *)

LEMMA RankedByTotal ==
  ASSUME NEW S, IsFiniteSet(S), \A x \in S : x.total \in Int
  PROVE  LET s == Ranked(S, LAMBDA a, b : a.total > b.total)
         IN  /\ s \in SetToSeqs(S)
             /\ \A i, j \in DOMAIN s : i < j => s[i].total >= s[j].total
<1> DEFINE R == {p \in S \X S : p[1].total >= p[2].total}
           Sorted(s) == \A i, j \in DOMAIN s : i < j => ~(s[j].total > s[i].total)
           ranked == CHOOSE s \in SetToSeqs(S) : Sorted(s)
<1>1. /\ \A x, y \in S : <<x, y>> \in R <=> x.total >= y.total
      /\ \A x, y \in S : <<x, y>> \in R \/ <<y, x>> \in R
      /\ \A x, y, z \in S : <<x, y>> \in R /\ <<y, z>> \in R => <<x, z>> \in R
  OBVIOUS
<1> HIDE DEF R
<1>2. PICK s \in SetToSeqs(S) : \A i, j \in DOMAIN s : i < j => <<s[i], s[j]>> \in R
  BY <1>1, RankingExists
<1>3. \A r \in SetToSeqs(S) : \A i \in DOMAIN r : r[i] \in S
  BY RankingIsComplete
<1>4. Sorted(s)
  <2> SUFFICES ASSUME NEW i \in DOMAIN s, NEW j \in DOMAIN s, i < j
               PROVE  ~(s[j].total > s[i].total)
    OBVIOUS
  <2>1. s[i] \in S /\ s[j] \in S /\ <<s[i], s[j]>> \in R
    BY <1>2, <1>3
  <2>2. s[i].total >= s[j].total /\ s[i].total \in Int /\ s[j].total \in Int
    BY <1>1, <2>1
  <2> QED
    BY <2>2
<1>5. ranked \in SetToSeqs(S) /\ Sorted(ranked)
  <2> HIDE DEF Sorted
  <2> QED
    BY <1>4
<1>6. Ranked(S, LAMBDA a, b : a.total > b.total) = ranked
  BY DEF Ranked
<1> HIDE DEF ranked
<1>7. \A i, j \in DOMAIN ranked : i < j => ranked[i].total >= ranked[j].total
  BY <1>3, <1>5
<1> QED
  BY <1>5, <1>6, <1>7

(* Rows that can be rolled up: finitely many, none of negative weight.     *)
Rows(rows) == IsFiniteSet(DOMAIN rows) /\ \A i \in DOMAIN rows : rows[i].weight \in Nat
Groups(rows) == {Offender(rows, k) : k \in Keys(rows)}

(* A group: its weight is that of its rows, so no row of it weighs more.   *)
LEMMA OffenderIs ==
  ASSUME NEW rows, Rows(rows), NEW k \in Keys(rows)
  PROVE  LET o == Offender(rows, k)
         IN  /\ o.key = k /\ o.total = SumFunctionOnSet(Weights(rows), Group(rows, k))
             /\ o.count = Cardinality(Group(rows, k))
             /\ o.total \in Nat /\ o.count \in Nat
             /\ \A i \in Group(rows, k) : rows[i].weight <= o.total
             /\ o.worst <= o.total
<1> DEFINE G == Group(rows, k)
           total == SumFunctionOnSet(Weights(rows), G)
           W == {0} \cup {rows[i].weight : i \in G}
<1>1. /\ IsFiniteSet(G) /\ G \subseteq DOMAIN rows
      /\ \A i \in G : Weights(rows)[i] = rows[i].weight /\ Weights(rows)[i] \in Nat
  <2>1. G \in SUBSET DOMAIN rows /\ IsFiniteSet(DOMAIN rows)
    BY DEF Group, Rows
  <2> HIDE DEF G
  <2>2. IsFiniteSet(G)
    BY <2>1, FS_Subset
  <2> QED
    BY <2>1, <2>2 DEF Rows, Weights
<1>2. /\ Offender(rows, k).key = k /\ Offender(rows, k).total = total
      /\ Offender(rows, k).count = Cardinality(G)
  BY Zenon DEF Offender
<1>w. Offender(rows, k).worst = Max(W)
  BY Zenon DEF Offender
<1> HIDE DEF G
<1>3. total \in Nat /\ Cardinality(G) \in Nat /\ \A i \in G : Weights(rows)[i] <= total
  <2>1. G \in SUBSET G /\ IsFiniteSet(G) /\ \A i \in G : Weights(rows)[i] \in Nat
    BY <1>1
  <2>2. SumFunctionOnSet(Weights(rows), G) \in Nat
    BY ONLY <2>1, SumPart
  <2>3. \A i \in G : Weights(rows)[i] <= SumFunctionOnSet(Weights(rows), G)
    BY ONLY <2>1, SumMember
  <2> QED
    BY <2>1, <2>2, <2>3, FS_CardinalityType
<1>4. \A w \in W : w \in Nat /\ w <= total
  BY <1>1, <1>3
<1>5. Max(W) \in W
  <2> DEFINE f == [i \in G |-> rows[i].weight]
             R == {p \in Nat \X Nat : p[1] <= p[2]}
             F == {f[i] : i \in G}
  <2>1. F \cup {0} = W
    OBVIOUS
  <2>2. IsFiniteSet(F)
    <3> HIDE DEF f
    <3> QED
      BY <1>1, ImageFinite
  <2> HIDE DEF F
  <2>3. IsFiniteSet(F \cup {0})
    BY <2>2, FS_AddElement
  <2>4. IsFiniteSet(W) /\ W # {}
    BY <2>1, <2>3
  <2>5. /\ \A x, y \in W : <<x, y>> \in R \/ <<y, x>> \in R
        /\ \A x, y, z \in W : <<x, y>> \in R /\ <<y, z>> \in R => <<x, z>> \in R
        /\ \A x, y \in W : <<x, y>> \in R => x <= y
    <3> HIDE DEF W
    <3> QED
      BY <1>4
  <2> HIDE DEF W, R
  <2>6. PICK x \in W : \A y \in W : <<y, x>> \in R
    BY ONLY <2>4, <2>5, LastExists
  <2>7. \A y \in W : x >= y
    BY <1>4, <2>5, <2>6
  <2> QED
    BY <2>7 DEF Max
<1> HIDE DEF total, W
<1> QED
  BY <1>1, <1>2, <1>w, <1>3, <1>4, <1>5 DEF G, total

(* Whatever is summed row by row comes to the same group by group.         *)
LEMMA GroupSums ==
  ASSUME NEW rows, Rows(rows), NEW v, \A i \in DOMAIN rows : v[i] \in Int, NEW g,
         \A o \in Groups(rows) : g[o] = SumFunctionOnSet(v, Group(rows, o.key))
  PROVE  /\ IsFiniteSet(Groups(rows))
         /\ \A o \in Groups(rows) : g[o] \in Int
         /\ (\A i \in DOMAIN rows : v[i] >= 0) => \A o \in Groups(rows) : g[o] >= 0
         /\ SumFunctionOnSet(g, Groups(rows)) = SumFunctionOnSet(v, DOMAIN rows)
<1> DEFINE D == DOMAIN rows
           h == [i \in D |-> Offender(rows, rows[i].key)]
           K == Groups(rows)
           part == [o \in K |-> Group(rows, o.key)]
<1>1. \A i \in D : rows[i].key \in Keys(rows) /\ h[i] \in K /\ h[i].key = rows[i].key
  BY OffenderIs DEF Keys, Groups
<1>2. K = {h[i] : i \in D}
  BY DEF Keys, Groups
<1>3. IsFiniteSet(D)
  BY DEF Rows
<1>4. \A o \in K : o.key \in Keys(rows) /\ o = Offender(rows, o.key)
  BY OffenderIs DEF Groups
<1>5. \A o \in K : \A i : i \in Group(rows, o.key) <=> i \in D /\ h[i] = o
  BY <1>1, <1>4 DEF Group
<1>p. \A o \in K : part[o] = Group(rows, o.key)
  OBVIOUS
<1> HIDE DEF h, part
<1>6. IsFiniteSet(K)
  BY <1>2, <1>3, ImageFinite
<1>7. \A o \in K : g[o] = SumFunctionOnSet(v, part[o])
  BY <1>p
<1>8. \A i \in D : v[i] \in Int /\ h[i] \in K
  BY <1>1
<1>9. /\ \A o \in K : part[o] \in SUBSET D
      /\ \A o \in K : \A i : i \in part[o] <=> i \in D /\ h[i] = o
  BY <1>5, <1>p DEF Group
<1> HIDE DEF D, K
<1>10. SumFunctionOnSet(g, K) = SumFunctionOnSet(v, D) /\ \A o \in K : g[o] \in Int
  <2>1. SharedOut(D, K, v, g, h, part)
    BY <1>3, <1>6, <1>7, <1>8, <1>9 DEF SharedOut
  <2> QED
    BY ONLY <2>1, SumShares, ShareIsInt, Zenon
<1>13. ASSUME \A i \in D : v[i] >= 0
       PROVE  \A o \in K : SumFunctionOnSet(v, part[o]) >= 0
  <2>1. \A i \in D : v[i] \in Nat
    BY <1>8, <1>13
  <2>2. \A o \in K : SumFunctionOnSet(v, part[o]) \in Nat
    BY ONLY <2>1, <1>3, <1>9, SumPart
  <2> QED
    BY <2>2
<1> QED
  BY <1>6, <1>7, <1>10, <1>13 DEF D, K

(* The offenders are the groups, the heaviest first.                       *)
LEMMA OffendersAre ==
  ASSUME NEW rows, Rows(rows)
  PROVE  /\ Offenders(rows) \in SetToSeqs(Groups(rows))
         /\ IsFiniteSet(Groups(rows))
         /\ \A i, j \in DOMAIN Offenders(rows) :
              i < j => Offenders(rows)[i].total >= Offenders(rows)[j].total
<1> DEFINE S == Groups(rows)
           v == [i \in DOMAIN rows |-> 0]
           g == [o \in S |-> SumFunctionOnSet(v, Group(rows, o.key))]
<1>1. IsFiniteSet(S)
  <2>1. /\ \A i \in DOMAIN rows : v[i] \in Int
        /\ \A o \in S : g[o] = SumFunctionOnSet(v, Group(rows, o.key))
    OBVIOUS
  <2> HIDE DEF v, g
  <2> QED
    BY <2>1, GroupSums
<1>2. \A o \in S : o.total \in Int
  BY OffenderIs DEF Groups
<1>3. Offenders(rows) = Ranked(S, LAMBDA a, b : a.total > b.total)
  BY Zenon DEF Offenders, Groups
<1> HIDE DEF S
<1> QED
  BY <1>1, <1>2, <1>3, RankedByTotal DEF S

(* What is summed over the offenders that are listed is at most what is    *)
(* summed over the rows, and all of it when no group was cut off.          *)
LEMMA TopSums ==
  ASSUME NEW rows, Rows(rows), NEW v, \A i \in DOMAIN rows : v[i] \in Int, NEW n \in Nat, NEW w,
         \A i \in DOMAIN FirstOf(Offenders(rows), n) :
           w[i] = SumFunctionOnSet(v, Group(rows, FirstOf(Offenders(rows), n)[i].key))
  PROVE  LET top == FirstOf(Offenders(rows), n)
         IN  /\ (\A i \in DOMAIN rows : v[i] >= 0)
                  => SumFunctionOnSet(w, DOMAIN top) <= SumFunctionOnSet(v, DOMAIN rows)
             /\ Len(top) < n
                  => SumFunctionOnSet(w, DOMAIN top) = SumFunctionOnSet(v, DOMAIN rows)
<1> DEFINE S == Groups(rows)
           s == Offenders(rows)
           top == FirstOf(s, n)
           m == Len(top)
           g == [o \in S |-> SumFunctionOnSet(v, Group(rows, o.key))]
<1>1. IsFiniteSet(S) /\ s \in SetToSeqs(S)
  BY OffendersAre
<1>2. \A o \in S : g[o] = SumFunctionOnSet(v, Group(rows, o.key))
  OBVIOUS
<1> HIDE DEF g
<1>3. /\ \A o \in S : g[o] \in Int
      /\ (\A i \in DOMAIN rows : v[i] >= 0) => \A o \in S : g[o] >= 0
      /\ SumFunctionOnSet(g, S) = SumFunctionOnSet(v, DOMAIN rows)
  BY <1>2, GroupSums
<1> HIDE DEF S, s
<1>4. s \in Seq(S) /\ \A i \in DOMAIN s : s[i] \in S
  BY <1>1, RankingIsComplete
<1>5. /\ m = IF Len(s) < n THEN Len(s) ELSE n
      /\ m \in 0 .. Len(s) /\ DOMAIN top = 1 .. m
      /\ \A i \in 1 .. m : top[i] = s[i] /\ i \in DOMAIN s
  BY <1>4, FirstOfIs
<1>6. \A i \in 1 .. m : w[i] = g[s[i]]
  BY <1>2, <1>4, <1>5 DEF s
<1> HIDE DEF m, top
<1>7. /\ m = Len(s) => SumFunctionOnSet(w, 1 .. m) = SumFunctionOnSet(g, S)
      /\ (\A x \in S : g[x] >= 0)
           => SumFunctionOnSet(w, 1 .. m) <= SumFunctionOnSet(g, S)
  BY ONLY <1>1, <1>3, <1>5, <1>6, SumRanked
<1>8. m < n => m = Len(s)
  BY <1>4, <1>5
<1> QED
  BY <1>3, <1>5, <1>7, <1>8 DEF m, top, s, S

-----------------------------------------------------------------------------
(* What the lists account for.                                             *)

(* What is kept of the entries can be added up.                            *)
LEMMA MovedIs ==
  ASSUME NEW m \in {Moved(e) : e \in Entries("layout-shift")}
  PROVE  /\ m.value \in Nat /\ IsFiniteSet(DOMAIN m.sources)
         /\ DOMAIN m.sources # {} =>
              \E n \in 0 .. m.value : m.value = n * Cardinality(DOMAIN m.sources)
<1>1. PICK e \in Entries("layout-shift") : m = Moved(e)
  OBVIOUS
<1>2. m.value = e.value /\ m.sources = WithNode(e.sources)
  BY <1>1 DEF Moved
<1>3. /\ e.value \in Nat /\ IsFiniteSet(DOMAIN e.sources)
      /\ DOMAIN WithNode(e.sources) # {} =>
           \E n \in 0 .. e.value : e.value = n * Cardinality(DOMAIN WithNode(e.sources))
  BY EntriesAssumption DEF Entries
<1>4. DOMAIN WithNode(e.sources) \in SUBSET DOMAIN e.sources
  BY DEF WithNode, RestrictValues, Restrict
<1>5. IsFiniteSet(DOMAIN WithNode(e.sources))
  BY <1>3, <1>4, FS_Subset
<1> QED
  BY <1>2, <1>3, <1>5

LEMMA KeptIs ==
  ASSUME NEW m \in {Kept(e) : e \in Entries("long-animation-frame")}
  PROVE  /\ IsFiniteSet(DOMAIN m.scripts)
         /\ \A i \in DOMAIN m.scripts : m.scripts[i].duration \in Nat
<1>1. PICK e \in Entries("long-animation-frame") : m = Kept(e)
  OBVIOUS
<1>2. m.scripts = LongScripts(e.scripts)
  BY <1>1 DEF Kept
<1>3. /\ IsFiniteSet(DOMAIN e.scripts)
      /\ \A i \in DOMAIN e.scripts : e.scripts[i].duration \in Nat
  BY EntriesAssumption DEF Entries
<1>4. /\ DOMAIN LongScripts(e.scripts) \in SUBSET DOMAIN e.scripts
      /\ \A i \in DOMAIN LongScripts(e.scripts) : LongScripts(e.scripts)[i] = e.scripts[i]
  BY DEF LongScripts, Restrict
<1>5. IsFiniteSet(DOMAIN LongScripts(e.scripts))
  BY <1>3, <1>4, FS_Subset
<1> QED
  BY <1>2, <1>3, <1>4, <1>5

LEMMA TaskIs == ASSUME NEW e \in Entries("longtask") PROVE e.duration \in Nat
BY EntriesAssumption DEF Entries

(* One entry more at the end of a list.                                    *)
LEMMA AppendSums ==
  ASSUME NEW S, NEW s \in Seq(S), NEW x \in S, NEW f, NEW g,
         DOMAIN f = DOMAIN s, DOMAIN g = DOMAIN Append(s, x),
         \A i \in DOMAIN g : g[i] \in Int, \A i \in DOMAIN f : g[i] = f[i]
  PROVE  SumFunction(g) = SumFunction(f) + g[Len(s) + 1]
<1> DEFINE n == Len(s)
<1>1. n \in Nat /\ DOMAIN f = 1 .. n /\ DOMAIN g = 1 .. n + 1
  OBVIOUS
<1>2. SumFunction(g) = SumFunctionOnSet(g, 1 .. n + 1) /\ SumFunction(f) = SumFunctionOnSet(f, 1 .. n)
  BY <1>1 DEF SumFunction
<1>3. /\ \A i \in 1 .. n + 1 : g[i] \in Int
      /\ \A i \in 1 .. n : g[i] = f[i]
  BY <1>1
<1> HIDE DEF n
<1>4. SumFunctionOnSet(g, 1 .. n + 1) = SumFunctionOnSet(f, 1 .. n) + g[n + 1]
  BY ONLY <1>1, <1>3, SumLonger
<1> QED
  BY <1>2, <1>4 DEF n

Values(entries) == [i \in DOMAIN entries |-> entries[i].value]
Blocked(tasks) ==
  [i \in DOMAIN tasks |-> IF tasks[i].duration > 50 THEN tasks[i].duration - 50 ELSE 0]

(* The kept shifts are part of the page's, all of it until the list is     *)
(* full; the kept tasks are part of what blocked it.                       *)
Accounted ==
  /\ vitals.cls \in Nat /\ vitals.tbt \in Nat
  /\ SumFunction(Values(vitals.cls_entries)) <= vitals.cls
  /\ Len(vitals.cls_entries) < MaxClsEntries
       => SumFunction(Values(vitals.cls_entries)) = vitals.cls
  /\ SumFunction(Blocked(vitals.long_task_entries)) <= vitals.tbt

LEMMA NoneAccounted == Init => Accounted
<1> SUFFICES ASSUME Init PROVE Accounted
  OBVIOUS
<1>1. /\ vitals.cls = 0 /\ vitals.tbt = 0
      /\ vitals.cls_entries = << >> /\ vitals.long_task_entries = << >>
  BY DEF Init, InstallObservers
<1>2. DOMAIN Values(<< >>) = {} /\ DOMAIN Blocked(<< >>) = {}
  BY DEF Values, Blocked
<1>3. SumFunction(Values(<< >>)) = 0 /\ SumFunction(Blocked(<< >>)) = 0
  BY <1>2, SumEmpty DEF SumFunction
<1> QED
  BY <1>1, <1>3 DEF Accounted

(* The sums of the lists as they are, and with an entry more.              *)
LEMMA MoreValues ==
  ASSUME Bounded, NEW e \in Entries("layout-shift")
  PROVE  LET s == vitals.cls_entries
             sum == SumFunction(Values(s))
         IN  /\ sum \in Int /\ e.value \in Nat
             /\ SumFunction(Values(Append(s, Moved(e)))) = sum + e.value
<1> DEFINE S == {Moved(x) : x \in Entries("layout-shift")}
           s == vitals.cls_entries
           m == Moved(e)
<1>1. s \in Seq(S) /\ m \in S /\ m.value = e.value
  BY DEF Bounded, Moved
<1>2. \A x \in S : x.value \in Nat
  BY MovedIs
<1> HIDE DEF S, m, s
<1> DEFINE f == Values(s)
           g == Values(Append(s, m))
<1>3. /\ DOMAIN f = DOMAIN s /\ DOMAIN g = DOMAIN Append(s, m)
      /\ \A i \in DOMAIN g : g[i] \in Int
      /\ \A i \in DOMAIN f : g[i] = f[i] /\ f[i] \in Int
      /\ g[Len(s) + 1] = e.value
  BY <1>1, <1>2 DEF Values
<1>4. IsFiniteSet(DOMAIN s)
  BY <1>1, FS_Interval
<1> HIDE DEF f, g
<1>5. SumFunction(g) = SumFunction(f) + g[Len(s) + 1]
  BY ONLY <1>1, <1>3, AppendSums
<1>6. SumFunctionOnSet(f, DOMAIN f) \in Int
  BY ONLY <1>3, <1>4, SumType
<1> QED
  BY <1>1, <1>2, <1>3, <1>5, <1>6 DEF f, g, s, m, SumFunction

LEMMA MoreBlocked ==
  ASSUME Bounded, NEW e \in Entries("longtask")
  PROVE  LET s == vitals.long_task_entries
             sum == SumFunction(Blocked(s))
         IN  /\ sum \in Int
             /\ SumFunction(Blocked(Append(s, e)))
                  = sum + (IF e.duration > 50 THEN e.duration - 50 ELSE 0)
<1> DEFINE S == Entries("longtask")
           s == vitals.long_task_entries
<1>1. s \in Seq(S) /\ e \in S
  BY DEF Bounded
<1>2. \A x \in S : x.duration \in Nat
  BY TaskIs
<1> HIDE DEF S, s
<1> DEFINE f == Blocked(s)
           g == Blocked(Append(s, e))
<1>3. /\ DOMAIN f = DOMAIN s /\ DOMAIN g = DOMAIN Append(s, e)
      /\ \A i \in DOMAIN g : g[i] \in Int
      /\ \A i \in DOMAIN f : g[i] = f[i] /\ f[i] \in Int
      /\ g[Len(s) + 1] = IF e.duration > 50 THEN e.duration - 50 ELSE 0
  BY <1>1, <1>2 DEF Blocked
<1>4. IsFiniteSet(DOMAIN s)
  BY <1>1, FS_Interval
<1> HIDE DEF f, g
<1>5. SumFunction(g) = SumFunction(f) + g[Len(s) + 1]
  BY ONLY <1>1, <1>3, AppendSums
<1>6. SumFunctionOnSet(f, DOMAIN f) \in Int
  BY ONLY <1>3, <1>4, SumType
<1> QED
  BY <1>3, <1>5, <1>6 DEF f, g, s, SumFunction

LEMMA AccountedStep == Bounded /\ Accounted /\ [Next]_vars => Accounted'
<1> SUFFICES ASSUME Bounded, Accounted, [Next]_vars PROVE Accounted'
  OBVIOUS
<1>1. CASE /\ vitals'.cls = vitals.cls /\ vitals'.cls_entries = vitals.cls_entries
           /\ vitals'.tbt = vitals.tbt
           /\ vitals'.long_task_entries = vitals.long_task_entries
  BY <1>1 DEF Accounted
<1>d. DOMAIN vitals = Fields
  BY DEF Bounded
<1>2. CASE Observed
  <2>1. PICK e \in Inputs["observers"] : Delivered(e)
    BY <1>2 DEF Observed
  <2>2. CASE LargestPaint(e)
    BY <1>1, <1>d, <2>2 DEF LargestPaint, Fields
  <2>3. CASE e.type = "layout-shift" /\ LayoutShift(e)
    <3>1. CASE e.recent
      BY <1>1, <2>3, <3>1 DEF LayoutShift
    <3>2. CASE ~e.recent
      <4> DEFINE s == vitals.cls_entries
                 t == Append(s, Moved(e))
                 kept == Capped(s, Moved(e), MaxClsEntries)
                 cls == vitals.cls + e.value
      <4>1. vitals' = [vitals EXCEPT !.cls = cls, !.cls_entries = kept]
        BY <2>3, <3>2 DEF LayoutShift
      <4>2. /\ SumFunction(Values(s)) \in Int /\ e.value \in Nat
            /\ SumFunction(Values(t)) = SumFunction(Values(s)) + e.value
        BY <2>3, MoreValues DEF Entries
      <4>3. kept = IF Len(s) < MaxClsEntries THEN t ELSE s
        BY DEF Capped
      <4>4. /\ vitals.cls \in Nat /\ SumFunction(Values(s)) <= vitals.cls
            /\ Len(s) < MaxClsEntries => SumFunction(Values(s)) = vitals.cls
        BY DEF Accounted
      <4> HIDE DEF s, t, kept
      <4>5. /\ cls \in Nat /\ SumFunction(Values(kept)) <= cls
            /\ Len(kept) < MaxClsEntries => SumFunction(Values(kept)) = cls
        BY <4>2, <4>3, <4>4
      <4> HIDE DEF cls
      <4>6. /\ vitals'.cls = cls /\ vitals'.cls_entries = kept /\ vitals'.tbt = vitals.tbt
            /\ vitals'.long_task_entries = vitals.long_task_entries
        BY <4>1, <1>d DEF Fields
      <4> QED
        BY <4>5, <4>6 DEF Accounted
    <3> QED
      BY <3>1, <3>2
  <2>4. CASE e.type = "longtask" /\ LongTask(e)
    <3> DEFINE s == vitals.long_task_entries
               t == Append(s, e)
               kept == Capped(s, e, MaxLongTasks)
               more == IF e.duration > 50 THEN e.duration - 50 ELSE 0
               tbt == vitals.tbt + more
    <3>1. vitals' = [vitals EXCEPT !.tbt = tbt, !.long_tasks = @ + 1,
                                   !.long_task_entries = kept]
      BY <2>4 DEF LongTask
    <3>2. e \in Entries("longtask")
      BY <2>4 DEF Entries
    <3>3. /\ SumFunction(Blocked(s)) \in Int
          /\ SumFunction(Blocked(t)) = SumFunction(Blocked(s)) + more
      BY <3>2, MoreBlocked
    <3>4. more \in Nat
      BY <3>2, TaskIs
    <3>5. kept = IF Len(s) < MaxLongTasks THEN t ELSE s
      BY DEF Capped
    <3>6. vitals.tbt \in Nat /\ SumFunction(Blocked(s)) <= vitals.tbt
      BY DEF Accounted
    <3> HIDE DEF s, t, kept, more
    <3>7. tbt \in Nat /\ SumFunction(Blocked(kept)) <= tbt
      BY <3>3, <3>4, <3>5, <3>6
    <3> HIDE DEF tbt
    <3>8. /\ vitals'.cls = vitals.cls /\ vitals'.cls_entries = vitals.cls_entries
          /\ vitals'.tbt = tbt /\ vitals'.long_task_entries = kept
      BY <3>1, <1>d DEF Fields
    <3> QED
      BY <3>7, <3>8 DEF Accounted
  <2>5. CASE Interaction(e)
    BY <1>1, <1>d, <2>5 DEF Interaction, Fields
  <2>6. CASE LongFrame(e)
    BY <1>1, <1>d, <2>6 DEF LongFrame, Fields
  <2>7. CASE vitals' = vitals
    BY <1>1, <2>7
  <2> QED
    BY <2>1, <2>2, <2>3, <2>4, <2>5, <2>6, <2>7 DEF Delivered, FpsTick, Mutated
<1>3. CASE Covered \/ Listing \/ UNCHANGED vars
  BY <1>1, <1>3 DEF Covered, Listing, vars, observers
<1> QED
  BY <1>2, <1>3 DEF Next

-----------------------------------------------------------------------------
(* The tables of mutations.                                                *)

Table(f) == IsFiniteSet(DOMAIN f) /\ \A x \in DOMAIN f : f[x] \in Nat

(* The scalars and the tables count the same records.                      *)
MutationsCounted ==
  /\ DOMAIN mutations = {"added", "removed", "attr", "by_tag", "by_attr"}
  /\ mutations.added \in Nat /\ mutations.removed \in Nat /\ mutations.attr \in Nat
  /\ Table(mutations.by_tag) /\ Table(mutations.by_attr)
  /\ DOMAIN mutations.by_tag \cup DOMAIN mutations.by_attr \subseteq DOMAIN NameRank
  /\ SumFunction(mutations.by_tag) = mutations.added + mutations.removed
  /\ SumFunction(mutations.by_attr) = mutations.attr

LEMMA NoneMutated == Init => MutationsCounted
<1> SUFFICES ASSUME Init PROVE MutationsCounted
  OBVIOUS
<1>1. mutations = [added |-> 0, removed |-> 0, attr |-> 0, by_tag |-> Empty, by_attr |-> Empty]
  BY DEF Init, InstallObservers
<1>2. DOMAIN Empty = {} /\ IsFiniteSet({})
  BY FS_EmptySet DEF Empty
<1>3. SumFunction(Empty) = 0 /\ Table(Empty)
  BY <1>2, SumEmpty DEF SumFunction, Table
<1> QED
  BY <1>1, <1>2, <1>3 DEF MutationsCounted

LEMMA MutationsStep == MutationsCounted /\ [Next]_vars => MutationsCounted'
<1> SUFFICES ASSUME MutationsCounted, [Next]_vars PROVE MutationsCounted'
  OBVIOUS
<1>1. CASE mutations' = mutations
  BY <1>1 DEF MutationsCounted
<1>2. CASE Observed
  <2>1. PICK e \in Inputs["observers"] : Delivered(e)
    BY <1>2 DEF Observed
  <2>2. CASE e.type = "mutation" /\ Mutated(e)
    <3>1. /\ e.attribute \in BOOLEAN /\ (~e.attribute => e.added \in Nat /\ e.removed \in Nat)
          /\ e.target \in DOMAIN NameRank
      BY <2>2, EntriesAssumption
    <3>2. CASE e.attribute
      <4> DEFINE table == Plus(mutations.by_attr, e.target, 1)
      <4>1. mutations' = [mutations EXCEPT !.attr = @ + 1, !.by_attr = table]
        BY <2>2, <3>2 DEF Mutated
      <4>2. Table(table) /\ SumFunction(table) = mutations.attr + 1
        BY PlusAdds DEF MutationsCounted, Table
      <4>3. DOMAIN table \subseteq DOMAIN NameRank
        <5>1. DOMAIN table = DOMAIN mutations.by_attr \cup {e.target}
          BY DEF Plus
        <5>2. DOMAIN mutations.by_attr \subseteq DOMAIN NameRank
          BY Zenon DEF MutationsCounted
        <5> HIDE DEF table
        <5> QED
          BY <3>1, <5>1, <5>2
      <4> HIDE DEF table
      <4> QED
        BY <4>1, <4>2, <4>3 DEF MutationsCounted
    <3>3. CASE ~e.attribute
      <4> DEFINE n == e.added + e.removed
                 table == Plus(mutations.by_tag, e.target, n)
      <4>1. mutations' = [mutations EXCEPT !.added = @ + e.added, !.removed = @ + e.removed,
                                           !.by_tag = table]
        BY <2>2, <3>3 DEF Mutated
      <4>2. n \in Nat
        BY <3>1, <3>3
      <4>3. Table(table) /\ SumFunction(table) = mutations.added + mutations.removed + n
        <5> HIDE DEF n
        <5> QED
          BY <4>2, PlusAdds DEF MutationsCounted, Table
      <4>4. DOMAIN table \subseteq DOMAIN NameRank
        <5>1. DOMAIN table = DOMAIN mutations.by_tag \cup {e.target}
          BY DEF Plus
        <5>2. DOMAIN mutations.by_tag \subseteq DOMAIN NameRank
          BY Zenon DEF MutationsCounted
        <5> HIDE DEF table
        <5> QED
          BY <3>1, <5>1, <5>2
      <4> HIDE DEF table
      <4> QED
        BY <4>1, <4>2, <4>3, <4>4, <3>1, <3>3 DEF MutationsCounted
    <3> QED
      BY <3>2, <3>3
  <2>3. CASE mutations' = mutations
    BY <2>3, <1>1
  <2> QED
    BY <2>1, <2>2, <2>3 DEF Delivered, LargestPaint, LayoutShift, LongTask, Interaction,
                             LongFrame, FpsTick
<1>3. CASE Covered \/ Listing \/ UNCHANGED vars
  BY <1>1, <1>3 DEF Covered, Listing, vars, observers
<1> QED
  BY <1>2, <1>3 DEF Next

(* The counters of a table, and the order of their list: by count, then by *)
(* the rank of the name.                                                   *)
CountersOf(f) == {[name |-> k, count |-> f[k]] : k \in DOMAIN f}
Higher(a, b) == \/ a.count > b.count
                \/ a.count = b.count /\ NameRank[a.name] < NameRank[b.name]

LEMMA CountersInOrder ==
  ASSUME NEW f, Table(f), DOMAIN f \subseteq DOMAIN NameRank
  PROVE  StrictOrder(CountersOf(f), {p \in CountersOf(f) \X CountersOf(f) : Higher(p[1], p[2])})
<1> DEFINE S == CountersOf(f)
           R == {p \in S \X S : Higher(p[1], p[2])}
           b == [a \in S |-> a.count]
           n == [a \in S |-> NameRank[a.name]]
<1>1. \A x \in S : /\ x.name \in DOMAIN f /\ x.count = f[x.name] /\ x.count \in Int
                   /\ x.name \in DOMAIN NameRank /\ NameRank[x.name] \in Int
  <2>1. \A x \in S : x.name \in DOMAIN f /\ x.count = f[x.name]
    BY DEF CountersOf
  <2>2. \A k \in DOMAIN f : f[k] \in Int /\ k \in DOMAIN NameRank
    BY DEF Table
  <2>3. \A k \in DOMAIN NameRank : NameRank[k] \in Int
    BY NamesAssumption
  <2> HIDE DEF S
  <2> QED
    BY <2>1, <2>2, <2>3
<1>2. \A x, y \in S : x.name = y.name => x = y
  BY DEF CountersOf
<1>3. \A x \in S : b[x] \in Int /\ n[x] \in Int
  BY <1>1
<1>4. \A x, y \in S : x # y => n[x] # n[y]
  <2> SUFFICES ASSUME NEW x \in S, NEW y \in S, n[x] = n[y] PROVE x = y
    OBVIOUS
  <2>1. NameRank[x.name] = NameRank[y.name]
    OBVIOUS
  <2>2. x.name = y.name
    BY <1>1, <2>1, NamesAssumption
  <2> QED
    BY <1>2, <2>2
<1>5. \A x, y \in S : <<x, y>> \in R <=> b[x] > b[y] \/ (b[x] = b[y] /\ n[x] < n[y])
  BY DEF Higher
<1> HIDE DEF S, R, b, n
<1>6. \A x \in S : <<x, x>> \notin R
  BY <1>3, <1>5
<1>7. \A x, y \in S : x # y => <<x, y>> \in R \/ <<y, x>> \in R
  BY <1>3, <1>4, <1>5
<1>8. \A x, y, z \in S : <<x, y>> \in R /\ <<y, z>> \in R => <<x, z>> \in R
  BY <1>3, <1>5
<1>9. StrictOrder(S, R)
  BY <1>6, <1>7, <1>8 DEF StrictOrder
<1> QED
  BY <1>9 DEF S, R

(* The list is the first of all the counters, in order.                    *)
LEMMA CountersListed ==
  ASSUME NEW f, Table(f), IsFiniteSet(CountersOf(f)), DOMAIN f \subseteq DOMAIN NameRank
  PROVE  /\ InOrder(CountersOf(f), Higher) \in SetToSeqs(CountersOf(f))
         /\ TopCounts(f) = FirstOf(InOrder(CountersOf(f), Higher), TopMutated)
<1> DEFINE S == CountersOf(f)
           R == {p \in S \X S : Higher(p[1], p[2])}
           Nth(x, k) == Cardinality({y \in S : Higher(y, x)}) = k - 1
           below == [x \in S |-> {y \in S : Higher(y, x)}]
           s == InOrder(S, Higher)
           V == {s[k] : k \in DOMAIN s}
<1>1. IsFiniteSet(S) /\ StrictOrder(S, R)
  BY CountersInOrder
<1>2. IsBelow(below, S, R)
  BY DEF IsBelow
<1>3. s = [k \in 1 .. Cardinality(S) |-> CHOOSE x \in S : Nth(x, k)]
  BY Zenon DEF InOrder
<1>4. \A x \in S, k \in 1 .. Cardinality(S) : Nth(x, k) <=> Cardinality(below[x]) = k - 1
  BY Zenon
<1>5. TopCounts(f) = FirstOf(s, TopMutated)
  BY Zenon DEF TopCounts, CountersOf, InOrder, Higher
<1> HIDE DEF Nth, below, s, R, S
<1>6. /\ DOMAIN s = 1 .. Cardinality(S) /\ s = [k \in DOMAIN s |-> s[k]]
      /\ \A k \in DOMAIN s : (\E x \in S : Cardinality(below[x]) = k - 1)
           => s[k] \in S /\ Cardinality(below[s[k]]) = k - 1
  <2>1. DOMAIN s = 1 .. Cardinality(S) /\ s = [k \in DOMAIN s |-> s[k]]
    BY <1>3
  <2>2. ASSUME NEW k \in 1 .. Cardinality(S), NEW x \in S, Cardinality(below[x]) = k - 1
        PROVE  s[k] \in S /\ Cardinality(below[s[k]]) = k - 1
    <3>1. Nth(x, k)
      BY <1>4, <2>2
    <3>2. s[k] = CHOOSE y \in S : Nth(y, k)
      BY <1>3
    <3>3. s[k] \in S /\ Nth(s[k], k)
      BY <3>1, <3>2
    <3> QED
      BY <1>4, <3>3
  <2> QED
    BY <2>1, <2>2
<1>7. s \in SetToSeqs(S)
  <2>1. /\ IsFiniteSet(S) /\ StrictOrder(S, R) /\ IsBelow(below, S, R)
        /\ s \in [1 .. Cardinality(S) -> V]
        /\ \A k \in DOMAIN s : (\E x \in S : Cardinality(below[x]) = k - 1)
             => s[k] \in S /\ Cardinality(below[s[k]]) = k - 1
    BY <1>1, <1>2, <1>6
  <2> HIDE DEF V
  <2> QED
    BY ONLY <2>1, OrderIs
<1> QED
  BY <1>5, <1>7 DEF S, s

(* The counters that are listed add up to no more than their table, and to *)
(* all of it unless the list was cut off.                                  *)
LEMMA TopCountsAddUp ==
  ASSUME NEW f, Table(f), DOMAIN f \subseteq DOMAIN NameRank
  PROVE  LET sum == SumOver(TopCounts(f), LAMBDA c : c.count)
         IN  /\ sum <= SumFunction(f)
             /\ Len(TopCounts(f)) < TopMutated => sum = SumFunction(f)
<1> DEFINE D == DOMAIN f
           h == [k \in D |-> [name |-> k, count |-> f[k]]]
           S == {h[k] : k \in D}
           counts == [c \in S |-> c.count]
           s == InOrder(CountersOf(f), Higher)
           top == FirstOf(s, TopMutated)
           g == [i \in DOMAIN top |-> top[i].count]
           m == Len(top)
<1>1. /\ IsFiniteSet(D)
      /\ \A x \in D : f[x] = counts[h[x]] /\ f[x] \in Int
      /\ \A x, y \in D : h[x] = h[y] => x = y
      /\ \A c \in S : counts[c] = c.count
  BY DEF Table
<1>2. \A c \in S : counts[c] \in Int /\ counts[c] >= 0
  BY DEF Table
<1>3. S = CountersOf(f)
  BY DEF CountersOf
<1>s. S = {h[k] : k \in D}
  OBVIOUS
<1> HIDE DEF h, counts
<1>4. IsFiniteSet(S)
  BY <1>1, ImageFinite
<1>5. SumFunctionOnSet(f, D) = SumFunctionOnSet(counts, S)
  BY ONLY <1>1, SumRenamed DEF S
<1>7. s \in SetToSeqs(S) /\ TopCounts(f) = top
  <2>1. IsFiniteSet(CountersOf(f))
    BY <1>3, <1>4
  <2>2. /\ s \in SetToSeqs(CountersOf(f))
        /\ TopCounts(f) = FirstOf(s, TopMutated)
    BY <2>1, CountersListed
  <2> HIDE DEF S, s
  <2> QED
    BY <1>3, <2>2
<1>8. TopMutated \in Nat
  BY NamesAssumption
<1>9. SumOver(top, LAMBDA c : c.count) = SumFunctionOnSet(g, DOMAIN top)
  BY DEF SumOver, SumFunction
<1> HIDE DEF S, s
<1>10. s \in Seq(S) /\ Len(s) = Cardinality(S) /\ \A i \in DOMAIN s : s[i] \in S
  BY <1>4, <1>7, RankingIsComplete
<1>11. /\ m = IF Len(s) < TopMutated THEN Len(s) ELSE TopMutated
       /\ m \in 0 .. Len(s) /\ DOMAIN top = 1 .. m
       /\ \A i \in 1 .. m : top[i] = s[i] /\ i \in DOMAIN s
  BY <1>8, <1>10, FirstOfIs
<1>12. \A i \in 1 .. m : g[i] = counts[s[i]]
  BY <1>1, <1>10, <1>11
<1> HIDE DEF m, g, top
<1>13. /\ m = Len(s) => SumFunctionOnSet(g, 1 .. m) = SumFunctionOnSet(counts, S)
       /\ SumFunctionOnSet(g, 1 .. m) <= SumFunctionOnSet(counts, S)
  <2>1. /\ IsFiniteSet(S) /\ s \in SetToSeqs(S) /\ m \in 0 .. Len(s)
        /\ \A c \in S : counts[c] \in Int
        /\ \A i \in 1 .. m : g[i] = counts[s[i]]
    BY <1>2, <1>4, <1>7, <1>11, <1>12
  <2>2. \A c \in S : counts[c] >= 0
    BY <1>2
  <2>3. /\ m = Len(s) => SumFunctionOnSet(g, 1 .. m) = SumFunctionOnSet(counts, S)
        /\ (\A c \in S : counts[c] >= 0)
             => SumFunctionOnSet(g, 1 .. m) <= SumFunctionOnSet(counts, S)
    BY ONLY <2>1, SumRanked
  <2> QED
    BY <2>2, <2>3
<1>14. m < TopMutated => m = Len(s)
  BY <1>8, <1>10, <1>11
<1>15. SumFunction(f) = SumFunctionOnSet(counts, S)
  BY <1>5 DEF SumFunction
<1> QED
  <2>1. /\ SumOver(top, LAMBDA c : c.count) <= SumFunction(f)
        /\ Len(top) < TopMutated => SumOver(top, LAMBDA c : c.count) = SumFunction(f)
    BY <1>9, <1>11, <1>13, <1>14, <1>15 DEF m
  <2> QED
    BY <1>7, <2>1

LEMMA TopMutations == MutationsCounted => MutationsAgree
<1> SUFFICES ASSUME MutationsCounted PROVE MutationsAgree
  OBVIOUS
<1> DEFINE tags == mutations.by_tag
           attrs == mutations.by_attr
           counted(top) == SumOver(top, LAMBDA c : c.count)
<1>1. /\ Table(tags) /\ Table(attrs)
      /\ DOMAIN tags \subseteq DOMAIN NameRank /\ DOMAIN attrs \subseteq DOMAIN NameRank
      /\ SumFunction(tags) = mutations.added + mutations.removed
      /\ SumFunction(attrs) = mutations.attr
  BY DEF MutationsCounted
<1>2. /\ counted(TopCounts(tags)) <= SumFunction(tags)
      /\ Len(TopCounts(tags)) < TopMutated => counted(TopCounts(tags)) = SumFunction(tags)
  <2> HIDE DEF tags
  <2> QED
    BY <1>1, TopCountsAddUp
<1>3. /\ counted(TopCounts(attrs)) <= SumFunction(attrs)
      /\ Len(TopCounts(attrs)) < TopMutated => counted(TopCounts(attrs)) = SumFunction(attrs)
  <2> HIDE DEF attrs
  <2> QED
    BY <1>1, TopCountsAddUp
<1> HIDE DEF counted
<1>4. /\ counted(TopCounts(tags)) <= mutations.added + mutations.removed
      /\ Len(TopCounts(tags)) < TopMutated =>
           counted(TopCounts(tags)) = mutations.added + mutations.removed
      /\ counted(TopCounts(attrs)) <= mutations.attr
      /\ Len(TopCounts(attrs)) < TopMutated => counted(TopCounts(attrs)) = mutations.attr
  BY <1>1, <1>2, <1>3
<1> QED
  BY <1>4, Zenon DEF MutationsAgree, counted

(* What is listed of the groups: a group of the rows each, the heaviest    *)
(* ones; each row is in a listed group or weighs no more than any of them; *)
(* when none was cut off the groups have all the rows.                     *)
LEMMA TopsAre ==
  ASSUME NEW rows, Rows(rows), NEW n \in Nat
  PROVE  LET top == FirstOf(Offenders(rows), n)
         IN  /\ Len(top) \in Nat /\ DOMAIN top = 1 .. Len(top)
             /\ \A i \in DOMAIN top : \E k \in Keys(rows) : top[i] = Offender(rows, k)
             /\ \A i \in DOMAIN rows, j \in DOMAIN top :
                  \/ \E k \in DOMAIN top : top[k].key = rows[i].key
                  \/ rows[i].weight <= top[j].total
<1> DEFINE S == Groups(rows)
           s == Offenders(rows)
           top == FirstOf(s, n)
           m == Len(top)
<1>1. /\ IsFiniteSet(S) /\ s \in SetToSeqs(S)
      /\ \A i, j \in DOMAIN s : i < j => s[i].total >= s[j].total
  BY OffendersAre
<1>2. \A o \in S : \E k \in Keys(rows) : o = Offender(rows, k)
  BY DEF Groups
<1>3. \A i \in DOMAIN rows :
        LET o == Offender(rows, rows[i].key)
        IN  /\ o \in S /\ o.key = rows[i].key /\ rows[i].weight <= o.total
            /\ rows[i].weight \in Nat
  <2> SUFFICES ASSUME NEW i \in DOMAIN rows
               PROVE  LET o == Offender(rows, rows[i].key)
                      IN  /\ o \in S /\ o.key = rows[i].key /\ rows[i].weight <= o.total
                          /\ rows[i].weight \in Nat
    OBVIOUS
  <2>1. rows[i].key \in Keys(rows) /\ i \in Group(rows, rows[i].key)
    BY DEF Keys, Group
  <2>2. rows[i].weight \in Nat
    BY DEF Rows
  <2>3. Offender(rows, rows[i].key) \in S
    BY <2>1 DEF Groups
  <2> QED
    BY <2>1, <2>2, <2>3, OffenderIs
<1>4. \A o \in S : o.total \in Nat
  BY <1>2, OffenderIs
<1> HIDE DEF S, s
<1>5. /\ s \in Seq(S) /\ \A i \in DOMAIN s : s[i] \in S
      /\ {s[i] : i \in DOMAIN s} = S
  BY <1>1, RankingIsComplete
<1>6. /\ m \in 0 .. Len(s) /\ DOMAIN top = 1 .. m
      /\ \A i \in 1 .. m : top[i] = s[i] /\ i \in DOMAIN s
  BY <1>5, FirstOfIs
<1> HIDE DEF m, top
<1>7. ASSUME NEW i \in DOMAIN rows, NEW j \in DOMAIN top
      PROVE  \/ \E k \in DOMAIN top : top[k].key = rows[i].key
             \/ rows[i].weight <= top[j].total
  <2>1. PICK o \in S : o.key = rows[i].key /\ rows[i].weight <= o.total /\ rows[i].weight \in Nat
    BY <1>3
  <2>2. PICK k \in DOMAIN s : s[k] = o
    BY <1>5
  <2>3. CASE k \in 1 .. m
    BY <2>1, <2>2, <2>3, <1>6
  <2>4. CASE k \notin 1 .. m
    <3>1. j \in DOMAIN s /\ j < k /\ top[j] = s[j]
      BY <2>2, <2>4, <1>5, <1>6
    <3>2. s[j].total >= s[k].total /\ s[j].total \in Nat /\ s[k].total \in Nat
      BY <3>1, <2>2, <1>1, <1>4, <1>5
    <3> QED
      BY <3>1, <3>2, <2>1, <2>2
  <2> QED
    BY <2>3, <2>4
<1>8. \A i \in DOMAIN top : \E k \in Keys(rows) : top[i] = Offender(rows, k)
  BY <1>2, <1>5, <1>6
<1>9. Len(top) = m /\ m \in Nat
  BY <1>5, <1>6 DEF m
<1> QED
  BY <1>6, <1>7, <1>8, <1>9 DEF top, s

(* Groups that were not cut off have all the rows.                         *)
LEMMA TopsCount ==
  ASSUME NEW rows, Rows(rows), NEW n \in Nat, Len(FirstOf(Offenders(rows), n)) < n
  PROVE  SumOver(FirstOf(Offenders(rows), n), LAMBDA o : o.count) = Cardinality(DOMAIN rows)
<1> DEFINE top == FirstOf(Offenders(rows), n)
           v == [i \in DOMAIN rows |-> 1]
           w == [i \in DOMAIN top |-> top[i].count]
<1>1. \A i \in DOMAIN rows : v[i] \in Int /\ v[i] = 1
  OBVIOUS
<1>2. SumOver(top, LAMBDA o : o.count) = SumFunctionOnSet(w, DOMAIN top)
  BY DEF SumOver, SumFunction
<1>3. \A i \in DOMAIN top : w[i] = top[i].count
  OBVIOUS
<1>4. \A i \in DOMAIN top : \E k \in Keys(rows) : top[i] = Offender(rows, k)
  BY TopsAre
<1> HIDE DEF v, w
<1>5. \A i \in DOMAIN top : w[i] = SumFunctionOnSet(v, Group(rows, top[i].key))
  <2> SUFFICES ASSUME NEW i \in DOMAIN top
               PROVE  w[i] = SumFunctionOnSet(v, Group(rows, top[i].key))
    OBVIOUS
  <2>1. PICK k \in Keys(rows) : top[i] = Offender(rows, k)
    BY <1>4
  <2>2. top[i].key = k /\ top[i].count = Cardinality(Group(rows, k))
    BY <2>1, OffenderIs
  <2>3. Group(rows, k) \in SUBSET DOMAIN rows /\ IsFiniteSet(DOMAIN rows)
    BY DEF Group, Rows
  <2> DEFINE G == Group(rows, k)
  <2> HIDE DEF G
  <2>4. IsFiniteSet(G) /\ \A x \in G : v[x] = 1
    BY <2>3, <1>1, FS_Subset DEF G
  <2>5. SumFunctionOnSet(v, G) = Cardinality(G)
    BY <2>4, SumOnes
  <2> QED
    BY <1>3, <2>2, <2>5 DEF G
<1>6. SumFunctionOnSet(w, DOMAIN top) = SumFunctionOnSet(v, DOMAIN rows)
  BY <1>1, <1>5, TopSums
<1>7. SumFunctionOnSet(v, DOMAIN rows) = Cardinality(DOMAIN rows)
  BY <1>1, SumOnes DEF Rows
<1> QED
  BY <1>2, <1>6, <1>7

(* All the groups together weigh what the rows weigh.                      *)
LEMMA OffendersWeigh ==
  ASSUME NEW rows, Rows(rows)
  PROVE  SumOver(Offenders(rows), LAMBDA o : o.total)
           = SumFunctionOnSet(Weights(rows), DOMAIN rows)
<1> DEFINE S == Groups(rows)
           s == Offenders(rows)
           n == Len(s) + 1
           w == [i \in DOMAIN s |-> s[i].total]
<1>1. IsFiniteSet(S) /\ s \in SetToSeqs(S)
  BY OffendersAre
<1>2. s \in Seq(S)
  <2> HIDE DEF S, s
  <2> QED
    BY <1>1, RankingIsComplete
<1>3. n \in Nat /\ FirstOf(s, n) = s
  <2> HIDE DEF S, s
  <2> QED
    BY <1>2 DEF FirstOf
<1>4. SumOver(s, LAMBDA o : o.total) = SumFunctionOnSet(w, DOMAIN s)
  BY DEF SumOver, SumFunction
<1>5. \A i \in DOMAIN rows : Weights(rows)[i] \in Int
  BY DEF Weights, Rows
<1>6. \A i \in DOMAIN s : w[i] = SumFunctionOnSet(Weights(rows), Group(rows, s[i].key))
  <2> SUFFICES ASSUME NEW i \in DOMAIN s
               PROVE  w[i] = SumFunctionOnSet(Weights(rows), Group(rows, s[i].key))
    OBVIOUS
  <2>1. s[i] \in S
    BY <1>2
  <2>2. PICK k \in Keys(rows) : s[i] = Offender(rows, k)
    BY <2>1 DEF Groups
  <2> QED
    BY <2>2, OffenderIs
<1> HIDE DEF w, s
<1>7. Len(s) < n
  BY <1>2
<1> HIDE DEF n
<1>8. SumFunctionOnSet(w, DOMAIN FirstOf(s, n)) = SumFunctionOnSet(Weights(rows), DOMAIN rows)
  <2>1. /\ n \in Nat /\ Len(FirstOf(s, n)) < n
        /\ \A i \in DOMAIN FirstOf(s, n) :
             w[i] = SumFunctionOnSet(Weights(rows), Group(rows, FirstOf(s, n)[i].key))
    BY <1>3, <1>6, <1>7
  <2> QED
    BY <2>1, <1>5, TopSums DEF s
<1> QED
  BY <1>3, <1>4, <1>8 DEF s

(* There are finitely many items.                                          *)
LEMMA PlacesFinite ==
  ASSUME NEW lists, IsFiniteSet(DOMAIN lists),
         \A i \in DOMAIN lists : IsFiniteSet(DOMAIN lists[i])
  PROVE  IsFiniteSet(Places(lists))
<1> DEFINE K == DOMAIN lists
           g == [i \in K |-> {i} \X DOMAIN lists[i]]
           all == {g[i] : i \in K}
<1>1. Places(lists) = UNION all
  BY DEF Places
<1>2. \A i \in K : IsFiniteSet(g[i])
  <2> SUFFICES ASSUME NEW i \in K PROVE IsFiniteSet(g[i])
    OBVIOUS
  <2>1. g[i] = {i} \X DOMAIN lists[i]
    OBVIOUS
  <2>2. IsFiniteSet({i}) /\ IsFiniteSet(DOMAIN lists[i])
    BY FS_Singleton
  <2>3. IsFiniteSet({i} \X DOMAIN lists[i])
    BY ONLY <2>2, FS_Product
  <2> QED
    BY <2>1, <2>3
<1> HIDE DEF g
<1>3. IsFiniteSet(all) /\ \A T \in all : IsFiniteSet(T)
  BY <1>2, ImageFinite
<1> HIDE DEF all
<1>4. IsFiniteSet(UNION all)
  BY <1>3, FS_UNION
<1> QED
  BY <1>1, <1>4

(* Sums over the items of a list's entries, entry by entry, when the items *)
(* of an entry all count alike.                                            *)
LEMMA PlaceSums ==
  ASSUME NEW lists, IsFiniteSet(DOMAIN lists),
         \A i \in DOMAIN lists : IsFiniteSet(DOMAIN lists[i]),
         NEW v, \A p \in Places(lists) : v[p] \in Int, NEW u,
         \A i \in DOMAIN lists : \E c \in Int :
           /\ \A j \in DOMAIN lists[i] : v[<<i, j>>] = c
           /\ u[i] = c * Cardinality(DOMAIN lists[i])
  PROVE  SumFunctionOnSet(v, Places(lists)) = SumFunctionOnSet(u, DOMAIN lists)
<1> DEFINE K == DOMAIN lists
           S == Places(lists)
           h == [p \in S |-> p[1]]
           part == [i \in K |-> {i} \X DOMAIN lists[i]]
           one == [p \in S |-> 1]
<1>1. IsFiniteSet(S)
  BY PlacesFinite
<1>2. \A p \in S : v[p] \in Int /\ h[p] \in K /\ one[p] = 1
  BY DEF Places
<1>3. \A i \in K : \A p : p \in part[i] <=> p \in S /\ h[p] = i
  BY DEF Places
<1>4. \A i \in K : part[i] = {i} \X DOMAIN lists[i]
  OBVIOUS
<1>5. \A i \in K : part[i] \in SUBSET S
  BY DEF Places
<1> HIDE DEF h, part, one, S
<1>6. \A i \in K : u[i] = SumFunctionOnSet(v, part[i])
  <2> SUFFICES ASSUME NEW i \in K PROVE u[i] = SumFunctionOnSet(v, part[i])
    OBVIOUS
  <2>1. PICK c \in Int : /\ \A j \in DOMAIN lists[i] : v[<<i, j>>] = c
                         /\ u[i] = c * Cardinality(DOMAIN lists[i])
    OBVIOUS
  <2> DEFINE P == part[i]
             J == DOMAIN lists[i]
  <2>2. \A p \in P : v[p] = c
    BY <2>1, <1>4
  <2>3. IsFiniteSet(P) /\ \A p \in P : one[p] = 1
    BY <1>1, <1>2, <1>5, FS_Subset
  <2>4. Cardinality(P) = Cardinality(J)
    <3>1. IsFiniteSet({i}) /\ Cardinality({i}) = 1 /\ IsFiniteSet(J)
      BY FS_Singleton
    <3>2. P = {i} \X J
      BY <1>4
    <3> HIDE DEF P, J
    <3>3. Cardinality({i} \X J) = Cardinality({i}) * Cardinality(J)
      BY ONLY <3>1, FS_Product
    <3>4. Cardinality(J) \in Nat
      BY <3>1, FS_CardinalityType
    <3> QED
      BY <3>1, <3>2, <3>3, <3>4
  <2> HIDE DEF P, J
  <2>5. SumFunctionOnSet(one, P) = Cardinality(P)
    BY <2>3, SumOnes
  <2>6. \A p \in P : one[p] \in Int /\ v[p] = c * one[p]
    BY <2>1, <2>2, <2>3
  <2>7. SumFunctionOnSet(v, P) = c * SumFunctionOnSet(one, P)
    BY ONLY <2>1, <2>3, <2>6, SumTimes
  <2>8. SumFunctionOnSet(v, P) = c * Cardinality(J)
    BY <2>4, <2>5, <2>7
  <2> QED
    BY <2>1, <2>8 DEF P, J
<1> HIDE DEF K
<1>7. IsFiniteSet(K)
  BY DEF K
<1>8. SumFunctionOnSet(u, K) = SumFunctionOnSet(v, S)
  <2>1. SharedOut(S, K, v, u, h, part)
    BY <1>1, <1>2, <1>3, <1>6, <1>7 DEF SharedOut
  <2> QED
    BY ONLY <2>1, SumShares, Zenon
<1> QED
  BY <1>8 DEF S, K

LEMMA SharesOf ==
  ASSUME NEW n \in Nat, NEW k \in Nat, k > 0
  PROVE  (n * k) \div k = n
<1> DEFINE q == (n * k) \div k
<1>1. n * k \in Nat
  OBVIOUS
<1>2. q \in Int /\ k * q <= n * k /\ n * k < k * q + k
  BY <1>1
<1> QED
  BY <1>2

(* The entries of a list of shifts, shared out over their sources.         *)
LEMMA SharesAddUp ==
  ASSUME NEW entries \in Seq({Moved(e) : e \in Entries("layout-shift")})
  PROVE  LET explained == SumOver(ClsTopSources(entries), LAMBDA s : s.total)
         IN  /\ explained \in Int /\ SumFunction(Values(entries)) \in Int
             /\ explained <= SumFunction(Values(entries))
             /\ (\A i \in DOMAIN entries : DOMAIN entries[i].sources # {})
                  => explained = SumFunction(Values(entries))
<1> DEFINE K == DOMAIN entries
           lists == [i \in K |-> entries[i].sources]
           rows == ClsRows(entries)
           u == [i \in K |-> IF DOMAIN entries[i].sources = {} THEN 0 ELSE entries[i].value]
           size(i) == Cardinality(DOMAIN entries[i].sources)
           share(i) == entries[i].value \div size(i)
<1>1. \A i \in K : /\ entries[i].value \in Nat /\ IsFiniteSet(DOMAIN entries[i].sources)
                   /\ DOMAIN entries[i].sources # {} =>
                        \E n \in 0 .. entries[i].value : entries[i].value = n * size(i)
  <2> SUFFICES ASSUME NEW i \in K
               PROVE  /\ entries[i].value \in Nat /\ IsFiniteSet(DOMAIN entries[i].sources)
                      /\ DOMAIN entries[i].sources # {} =>
                           \E n \in 0 .. entries[i].value : entries[i].value = n * size(i)
    OBVIOUS
  <2>1. entries[i] \in {Moved(e) : e \in Entries("layout-shift")}
    OBVIOUS
  <2> QED
    BY <2>1, MovedIs
<1>2. \A i \in K : DOMAIN entries[i].sources # {} =>
        share(i) \in Nat /\ share(i) * size(i) = entries[i].value
  <2> SUFFICES ASSUME NEW i \in K, DOMAIN entries[i].sources # {}
               PROVE  share(i) \in Nat /\ share(i) * size(i) = entries[i].value
    OBVIOUS
  <2>1. PICK n \in Nat : entries[i].value = n * size(i)
    BY <1>1
  <2>2. size(i) \in Nat /\ size(i) > 0
    <3> DEFINE D == DOMAIN entries[i].sources
    <3>1. IsFiniteSet(D) /\ D # {}
      BY <1>1
    <3> HIDE DEF D
    <3>2. Cardinality(D) \in Nat /\ Cardinality(D) # 0
      BY <3>1, FS_CardinalityType, FS_EmptySet
    <3> QED
      BY <3>2 DEF D
  <2> HIDE DEF size
  <2>3. share(i) = n
    BY <2>1, <2>2, SharesOf
  <2> QED
    BY <2>1, <2>3
<1>3. /\ DOMAIN rows = Places(lists)
      /\ \A p \in Places(lists) : rows[p].weight = share(p[1])
  BY DEF ClsRows
<1>4. /\ IsFiniteSet(K) /\ DOMAIN lists = K
      /\ \A i \in K : IsFiniteSet(DOMAIN lists[i]) /\ lists[i] = entries[i].sources
  <2>1. IsFiniteSet(1 .. Len(entries)) /\ DOMAIN entries = 1 .. Len(entries)
    BY FS_Interval
  <2> QED
    BY <2>1, <1>1
<1>5. \A p \in Places(lists) : /\ p[1] \in K /\ DOMAIN lists[p[1]] # {}
                               /\ p = <<p[1], p[2]>>
  BY DEF Places
<1>6. \A i \in K : \A j \in DOMAIN lists[i] : <<i, j>> \in Places(lists)
  BY DEF Places
<1> HIDE DEF rows, lists
<1>7. IsFiniteSet(Places(lists))
  BY <1>4, PlacesFinite
<1>8. Rows(rows)
  BY <1>2, <1>3, <1>4, <1>5, <1>7 DEF Rows
<1>9. /\ \A p \in Places(lists) : Weights(rows)[p] \in Int
      /\ \A i \in K : \A j \in DOMAIN lists[i] : Weights(rows)[<<i, j>>] = share(i)
  BY <1>2, <1>3, <1>4, <1>5, <1>6 DEF Weights
<1>10. \A i \in K : \E c \in Int :
         /\ \A j \in DOMAIN lists[i] : Weights(rows)[<<i, j>>] = c
         /\ u[i] = c * Cardinality(DOMAIN lists[i])
  <2> SUFFICES ASSUME NEW i \in K
               PROVE  \E c \in Int :
                        /\ \A j \in DOMAIN lists[i] : Weights(rows)[<<i, j>>] = c
                        /\ u[i] = c * Cardinality(DOMAIN lists[i])
    OBVIOUS
  <2>1. CASE DOMAIN entries[i].sources = {}
    <3>1. u[i] = 0 /\ DOMAIN lists[i] = {} /\ Cardinality(DOMAIN lists[i]) = 0
      BY <2>1, <1>4, FS_EmptySet
    <3>2. u[i] = 0 * Cardinality(DOMAIN lists[i])
      BY <3>1
    <3> QED
      BY <3>1, <3>2
  <2>2. CASE DOMAIN entries[i].sources # {}
    <3>1. u[i] = entries[i].value /\ share(i) \in Int
      BY <2>2, <1>2
    <3>2. u[i] = share(i) * Cardinality(DOMAIN lists[i])
      BY <2>2, <3>1, <1>2, <1>4
    <3> QED
      BY <3>1, <3>2, <1>9
  <2> QED
    BY <2>1, <2>2
<1>11. SumFunctionOnSet(Weights(rows), Places(lists)) = SumFunctionOnSet(u, K)
  <2> HIDE DEF u, share, size
  <2> QED
    BY <1>4, <1>9, <1>10, PlaceSums
<1>12. SumOver(ClsTopSources(entries), LAMBDA s : s.total) = SumFunctionOnSet(u, K)
  <2>1. SumOver(Offenders(rows), LAMBDA s : s.total)
          = SumFunctionOnSet(Weights(rows), DOMAIN rows)
    BY <1>8, OffendersWeigh
  <2>2. ClsTopSources(entries) = Offenders(rows)
    BY DEF ClsTopSources, rows
  <2> QED
    BY <2>1, <2>2, <1>3, <1>11
<1> DEFINE w == Values(entries)
<1>13. /\ SumFunction(w) = SumFunctionOnSet(w, K)
       /\ \A i \in K : u[i] \in Int /\ w[i] \in Int /\ u[i] <= w[i]
       /\ (\A i \in K : DOMAIN entries[i].sources # {}) => \A i \in K : u[i] = w[i]
  BY <1>1 DEF Values, SumFunction
<1> HIDE DEF u, w, K
<1>14. SumFunctionOnSet(u, K) <= SumFunctionOnSet(w, K)
  BY <1>4, <1>13, SumMonotone
<1>15. (\A i \in K : u[i] = w[i]) => SumFunctionOnSet(u, K) = SumFunctionOnSet(w, K)
  BY <1>4, <1>13, SumAgrees
<1>16. SumFunctionOnSet(u, K) \in Int /\ SumFunctionOnSet(w, K) \in Int
  BY <1>4, <1>13, SumType
<1> QED
  BY <1>12, <1>13, <1>14, <1>15, <1>16 DEF K, w

LEMMA ShiftsAddUp == Bounded /\ Accounted => ShiftsAgree
<1> SUFFICES ASSUME Bounded, Accounted PROVE ShiftsAgree
  OBVIOUS
<1> DEFINE entries == vitals.cls_entries
           explained == SumOver(ClsTopSources(entries), LAMBDA s : s.total)
           sum == SumFunction(Values(entries))
<1>1. entries \in Seq({Moved(e) : e \in Entries("layout-shift")})
  BY DEF Bounded
<1>2. /\ explained \in Int /\ sum \in Int /\ explained <= sum
      /\ (\A i \in DOMAIN entries : DOMAIN entries[i].sources # {}) => explained = sum
  <2> HIDE DEF entries
  <2> QED
    BY <1>1, SharesAddUp
<1>3. /\ sum <= vitals.cls /\ vitals.cls \in Nat
      /\ Len(entries) < MaxClsEntries => sum = vitals.cls
  BY DEF Accounted
<1> HIDE DEF explained, sum
<1>4. explained <= vitals.cls
  BY <1>2, <1>3
<1> QED
  BY <1>2, <1>3, <1>4 DEF ShiftsAgree, explained

(* A group of tasks: what it weighs beyond 50 ms a task is at most what    *)
(* its tasks blocked.                                                      *)
LEMMA GroupBlocks ==
  ASSUME NEW tasks \in Seq(Entries("longtask")), NEW k \in Keys(TaskRows(tasks))
  PROVE  LET o == Offender(TaskRows(tasks), k)
             blocked == SumFunctionOnSet(Blocked(tasks), Group(TaskRows(tasks), k))
         IN  o.total - 50 * o.count <= blocked /\ o.total - 50 * o.count \in Int
             /\ blocked \in Int
<1> DEFINE rows == TaskRows(tasks)
           G == Group(rows, k)
           weight == Weights(rows)
           blocked == Blocked(tasks)
           ones == [i \in DOMAIN tasks |-> 1]
           minus == [i \in DOMAIN tasks |-> (-50) * ones[i]]
           rest == [i \in DOMAIN tasks |-> weight[i] + minus[i]]
<1>1. /\ DOMAIN rows = DOMAIN tasks
      /\ \A i \in DOMAIN tasks : tasks[i].duration \in Nat /\ rows[i].weight = tasks[i].duration
  <2>1. \A i \in DOMAIN tasks : tasks[i] \in Entries("longtask")
    OBVIOUS
  <2> QED
    BY <2>1, TaskIs DEF TaskRows
<1>2. IsFiniteSet(DOMAIN tasks)
  <2>1. IsFiniteSet(1 .. Len(tasks)) /\ DOMAIN tasks = 1 .. Len(tasks)
    BY FS_Interval
  <2> QED
    BY <2>1
<1>3. Rows(rows)
  BY <1>1, <1>2 DEF Rows
<1>4. \A i \in DOMAIN tasks :
        /\ weight[i] = tasks[i].duration /\ weight[i] \in Int
        /\ ones[i] = 1 /\ ones[i] \in Int
        /\ minus[i] = (-50) * ones[i] /\ minus[i] \in Int
        /\ rest[i] = weight[i] + minus[i] /\ rest[i] \in Int
        /\ blocked[i] \in Int /\ rest[i] <= blocked[i]
  <2>1. \A i \in DOMAIN tasks : /\ weight[i] = tasks[i].duration /\ ones[i] = 1
                                /\ minus[i] = -50 /\ rest[i] = weight[i] + minus[i]
                                /\ blocked[i] = IF tasks[i].duration > 50
                                                  THEN tasks[i].duration - 50 ELSE 0
    BY <1>1 DEF Weights, Blocked
  <2> HIDE DEF weight, ones, minus, rest, blocked
  <2> QED
    BY <2>1, <1>1
<1>5. G \in SUBSET DOMAIN tasks
  BY <1>1 DEF Group
<1>6. /\ Offender(rows, k).total = SumFunctionOnSet(weight, G)
      /\ Offender(rows, k).count = Cardinality(G)
  <2>1. k \in Keys(rows)
    OBVIOUS
  <2> HIDE DEF rows
  <2> QED
    BY <1>3, <2>1, OffenderIs
<1> HIDE DEF weight, blocked, ones, minus, rest, G
<1>7. /\ IsFiniteSet(G)
      /\ \A i \in G : /\ weight[i] \in Int /\ ones[i] = 1 /\ ones[i] \in Int
                      /\ minus[i] = (-50) * ones[i] /\ minus[i] \in Int
                      /\ rest[i] = weight[i] + minus[i] /\ rest[i] \in Int
                      /\ blocked[i] \in Int /\ rest[i] <= blocked[i]
  BY <1>2, <1>4, <1>5, FS_Subset
<1>8. SumFunctionOnSet(ones, G) = Cardinality(G) /\ Cardinality(G) \in Nat
  BY <1>7, SumOnes, FS_CardinalityType
<1>9. SumFunctionOnSet(minus, G) = (-50) * SumFunctionOnSet(ones, G)
  <2>1. \A i \in G : ones[i] \in Int /\ minus[i] = (-50) * ones[i]
    BY <1>7
  <2> DEFINE c == -50
  <2>2. c \in Int /\ \A i \in G : ones[i] \in Int /\ minus[i] = c * ones[i]
    BY <2>1
  <2>3. IsFiniteSet(G)
    BY <1>7
  <2> HIDE DEF c
  <2>4. SumFunctionOnSet(minus, G) = c * SumFunctionOnSet(ones, G)
    BY ONLY <2>2, <2>3, SumTimes
  <2> QED
    BY <2>4 DEF c
<1>10. SumFunctionOnSet(rest, G) = SumFunctionOnSet(weight, G) + SumFunctionOnSet(minus, G)
  <2>1. /\ IsFiniteSet(G)
        /\ \A i \in G : weight[i] \in Int /\ minus[i] \in Int /\ rest[i] = weight[i] + minus[i]
    BY <1>7
  <2> QED
    BY ONLY <2>1, SumPlus
<1>11. SumFunctionOnSet(rest, G) <= SumFunctionOnSet(blocked, G)
  <2>1. /\ IsFiniteSet(G)
        /\ \A i \in G : rest[i] \in Int /\ blocked[i] \in Int /\ rest[i] <= blocked[i]
    BY <1>7
  <2> QED
    BY ONLY <2>1, SumMonotone
<1>12. SumFunctionOnSet(weight, G) \in Int /\ SumFunctionOnSet(blocked, G) \in Int
  BY <1>7, SumType
<1> QED
  BY <1>6, <1>8, <1>9, <1>10, <1>11, <1>12 DEF G, blocked

(* The listed groups of tasks block no longer than the tasks did.          *)
LEMMA TopsBlock ==
  ASSUME NEW tasks \in Seq(Entries("longtask")), NEW n \in Nat
  PROVE  LET top == FirstOf(Offenders(TaskRows(tasks)), n)
             sum == SumOver(top, LAMBDA o : o.total - 50 * o.count)
         IN  /\ sum \in Int /\ SumFunction(Blocked(tasks)) \in Int
             /\ sum <= SumFunction(Blocked(tasks))
<1> DEFINE rows == TaskRows(tasks)
           top == FirstOf(Offenders(rows), n)
           v == Blocked(tasks)
           f == [i \in DOMAIN top |-> top[i].total - 50 * top[i].count]
           w == [i \in DOMAIN top |-> SumFunctionOnSet(v, Group(rows, top[i].key))]
<1>1. /\ DOMAIN rows = DOMAIN tasks /\ DOMAIN v = DOMAIN tasks
      /\ \A i \in DOMAIN tasks : rows[i].weight \in Nat /\ v[i] \in Nat
  <2>1. \A i \in DOMAIN tasks : tasks[i] \in Entries("longtask")
    OBVIOUS
  <2>2. \A i \in DOMAIN tasks : tasks[i].duration \in Nat
    BY <2>1, TaskIs
  <2> QED
    BY <2>2 DEF TaskRows, Blocked
<1>2. IsFiniteSet(DOMAIN tasks)
  <2>1. IsFiniteSet(1 .. Len(tasks)) /\ DOMAIN tasks = 1 .. Len(tasks)
    BY FS_Interval
  <2> QED
    BY <2>1
<1>3. Rows(rows)
  BY <1>1, <1>2 DEF Rows
<1>4. SumOver(top, LAMBDA o : o.total - 50 * o.count) = SumFunctionOnSet(f, DOMAIN top)
  BY DEF SumOver, SumFunction
<1>5. \A i \in DOMAIN top : \E k \in Keys(rows) : top[i] = Offender(rows, k)
  <2> HIDE DEF rows
  <2> QED
    BY <1>3, TopsAre
<1>6. IsFiniteSet(DOMAIN top)
  <2>1. DOMAIN top = 1 .. Len(top) /\ Len(top) \in Nat
    <3> HIDE DEF rows
    <3> QED
      BY <1>3, TopsAre
  <2> HIDE DEF top
  <2> QED
    BY <2>1, FS_Interval
<1>7. \A i \in DOMAIN top : f[i] \in Int /\ w[i] \in Int /\ f[i] <= w[i]
  <2> SUFFICES ASSUME NEW i \in DOMAIN top PROVE f[i] \in Int /\ w[i] \in Int /\ f[i] <= w[i]
    OBVIOUS
  <2>1. PICK k \in Keys(rows) : top[i] = Offender(rows, k)
    BY <1>5
  <2>2. top[i].key = k
    <3> HIDE DEF rows, top
    <3> QED
      BY <1>3, <2>1, OffenderIs
  <2>3. f[i] = top[i].total - 50 * top[i].count /\ w[i] = SumFunctionOnSet(v, Group(rows, k))
    BY <2>2
  <2> HIDE DEF f, w, top
  <2> QED
    BY <2>1, <2>3, GroupBlocks
<1>8. \A i \in DOMAIN top : w[i] = SumFunctionOnSet(v, Group(rows, top[i].key))
  OBVIOUS
<1> HIDE DEF f, w, v, rows
<1>9. /\ \A i \in DOMAIN rows : v[i] \in Int /\ v[i] >= 0
      /\ SumFunction(v) = SumFunctionOnSet(v, DOMAIN rows)
  BY <1>1 DEF SumFunction
<1>10. SumFunctionOnSet(w, DOMAIN top) <= SumFunctionOnSet(v, DOMAIN rows)
  BY <1>3, <1>8, <1>9, TopSums
<1> HIDE DEF top
<1>11. SumFunctionOnSet(f, DOMAIN top) <= SumFunctionOnSet(w, DOMAIN top)
  BY ONLY <1>6, <1>7, SumMonotone
<1>12. /\ SumFunctionOnSet(f, DOMAIN top) \in Int /\ SumFunctionOnSet(w, DOMAIN top) \in Int
       /\ SumFunctionOnSet(v, DOMAIN rows) \in Int
  BY <1>1, <1>2, <1>6, <1>7, <1>9, SumType
<1> DEFINE sum == SumOver(top, LAMBDA o : o.total - 50 * o.count)
<1>13. sum = SumFunctionOnSet(f, DOMAIN top)
  BY <1>4
<1> HIDE DEF sum
<1>14. sum \in Int /\ SumFunction(v) \in Int /\ sum <= SumFunction(v)
  BY <1>9, <1>10, <1>11, <1>12, <1>13
<1> QED
  BY <1>14, Zenon DEF sum, top, v, rows

(* A list of frames has as many rows as its frames have scripts.           *)
LEMMA ScriptsCount ==
  ASSUME NEW frames \in Seq({Kept(e) : e \in Entries("long-animation-frame")})
  PROVE  /\ Rows(LoafRows(frames))
         /\ Cardinality(DOMAIN LoafRows(frames))
              = SumOver(frames, LAMBDA f : Cardinality(DOMAIN f.scripts))
<1> DEFINE K == DOMAIN frames
           lists == [i \in K |-> frames[i].scripts]
           rows == LoafRows(frames)
           u == [i \in K |-> Cardinality(DOMAIN frames[i].scripts)]
           ones == [p \in Places(lists) |-> 1]
<1>1. \A i \in K : /\ IsFiniteSet(DOMAIN frames[i].scripts)
                   /\ \A j \in DOMAIN frames[i].scripts : frames[i].scripts[j].duration \in Nat
  <2> SUFFICES ASSUME NEW i \in K
               PROVE  /\ IsFiniteSet(DOMAIN frames[i].scripts)
                      /\ \A j \in DOMAIN frames[i].scripts :
                           frames[i].scripts[j].duration \in Nat
    OBVIOUS
  <2>1. frames[i] \in {Kept(e) : e \in Entries("long-animation-frame")}
    OBVIOUS
  <2> QED
    BY <2>1, KeptIs
<1>2. /\ IsFiniteSet(K) /\ DOMAIN lists = K
      /\ \A i \in K : IsFiniteSet(DOMAIN lists[i]) /\ lists[i] = frames[i].scripts
  <2>1. IsFiniteSet(1 .. Len(frames)) /\ DOMAIN frames = 1 .. Len(frames)
    BY FS_Interval
  <2> QED
    BY <2>1, <1>1
<1>3. /\ DOMAIN rows = Places(lists)
      /\ \A p \in Places(lists) : rows[p].weight = frames[p[1]].scripts[p[2]].duration
  BY DEF LoafRows
<1>4. \A p \in Places(lists) : p[1] \in K /\ p[2] \in DOMAIN lists[p[1]]
  BY DEF Places
<1>5. \A i \in K : \A j \in DOMAIN lists[i] : <<i, j>> \in Places(lists)
  BY DEF Places
<1>6. SumOver(frames, LAMBDA f : Cardinality(DOMAIN f.scripts)) = SumFunctionOnSet(u, K)
  BY DEF SumOver, SumFunction
<1>7. /\ \A p \in Places(lists) : ones[p] = 1 /\ ones[p] \in Int
      /\ \A i \in K : /\ \A j \in DOMAIN lists[i] : ones[<<i, j>>] = 1
                      /\ u[i] = 1 * Cardinality(DOMAIN lists[i])
  <2>1. \A i \in K : /\ u[i] = Cardinality(DOMAIN lists[i])
                     /\ Cardinality(DOMAIN lists[i]) \in Nat
    BY <1>2, FS_CardinalityType
  <2>2. \A p \in Places(lists) : ones[p] = 1
    OBVIOUS
  <2> HIDE DEF u, ones, lists
  <2> QED
    BY <2>1, <2>2, <1>5
<1> HIDE DEF rows, lists, u, ones
<1>8. IsFiniteSet(Places(lists))
  BY <1>2, PlacesFinite
<1>9. Rows(rows)
  BY <1>1, <1>2, <1>3, <1>4, <1>8 DEF Rows
<1>10. SumFunctionOnSet(ones, Places(lists)) = Cardinality(Places(lists))
  BY <1>7, <1>8, SumOnes
<1>11. SumFunctionOnSet(ones, Places(lists)) = SumFunctionOnSet(u, K)
  <2>1. \A i \in K : \E c \in Int : /\ \A j \in DOMAIN lists[i] : ones[<<i, j>>] = c
                                    /\ u[i] = c * Cardinality(DOMAIN lists[i])
    BY <1>7
  <2> QED
    BY <1>2, <1>7, <2>1, PlaceSums
<1> QED
  BY <1>3, <1>6, <1>9, <1>10, <1>11 DEF rows

LEMMA OffendersAccountedFor == Bounded /\ Accounted => OffendersAgree
<1> SUFFICES ASSUME Bounded, Accounted PROVE OffendersAgree
  OBVIOUS
<1> DEFINE tasks == vitals.long_task_entries
           frames == vitals.loaf_entries
           rows == TaskRows(tasks)
           top == LongTaskTopOffenders(tasks)
           loaf == LoafTopOffenders(frames)
           scripts == SumOver(frames, LAMBDA f : Cardinality(DOMAIN f.scripts))
<1>1. /\ tasks \in Seq(Entries("longtask"))
      /\ frames \in Seq({Kept(e) : e \in Entries("long-animation-frame")})
      /\ Len(frames) <= MaxLoaf
  BY DEF Bounded
<1>2. TopOffenders \in Nat
  <2>1. {MaxClsEntries, MaxLongTasks, MaxLoaf, ScriptsPerFrame, TopOffenders} \subseteq Nat
    BY CapsAssumption
  <2> QED
    BY <2>1
<1>3. Len(tasks) <= vitals.long_tasks
  BY Caps DEF Bounded
<1>4. /\ top = FirstOf(Offenders(rows), TopOffenders)
      /\ loaf = FirstOf(Offenders(LoafRows(frames)), TopOffenders)
  BY DEF LongTaskTopOffenders, LoafTopOffenders
<1>5. /\ DOMAIN rows = DOMAIN tasks
      /\ \A i \in DOMAIN tasks : /\ rows[i].key = TaskSource(tasks[i])
                                 /\ rows[i].weight = tasks[i].duration
                                 /\ tasks[i].duration \in Nat
  <2>1. \A i \in DOMAIN tasks : tasks[i] \in Entries("longtask")
    BY <1>1
  <2> QED
    BY <2>1, TaskIs DEF TaskRows
<1>6. SumFunction(Blocked(tasks)) <= vitals.tbt /\ vitals.tbt \in Nat
  BY DEF Accounted
<1> HIDE DEF tasks, frames
<1>7. IsFiniteSet(DOMAIN tasks) /\ Cardinality(DOMAIN tasks) = Len(tasks)
  <2>1. DOMAIN tasks = 1 .. Len(tasks) /\ Len(tasks) \in Nat
    BY <1>1
  <2> DEFINE n == Len(tasks)
  <2> HIDE DEF n
  <2>2. n \in Nat
    BY <2>1 DEF n
  <2>3. IsFiniteSet(1 .. n) /\ Cardinality(1 .. n) = n
    BY <2>2, FS_Interval
  <2> QED
    BY <2>1, <2>3 DEF n
<1>8. Rows(rows)
  BY <1>5, <1>7 DEF Rows
<1> DEFINE sum == SumOver(top, LAMBDA o : o.total - 50 * o.count)
<1>9. sum <= vitals.tbt
  <2> DEFINE listed == FirstOf(Offenders(TaskRows(tasks)), TopOffenders)
             blocks == SumOver(listed, LAMBDA o : o.total - 50 * o.count)
  <2>1. /\ blocks \in Int /\ SumFunction(Blocked(tasks)) \in Int
        /\ blocks <= SumFunction(Blocked(tasks))
    BY <1>1, <1>2, TopsBlock
  <2>2. blocks = sum
    BY <1>4, Zenon
  <2> HIDE DEF blocks, sum
  <2> QED
    BY <2>1, <2>2, <1>6
<1> HIDE DEF sum, rows, top, loaf, scripts
<1>10. \A i \in DOMAIN top : top[i].worst <= top[i].total
  <2> SUFFICES ASSUME NEW i \in DOMAIN top PROVE top[i].worst <= top[i].total
    OBVIOUS
  <2>1. PICK k \in Keys(rows) : top[i] = Offender(rows, k)
    BY <1>2, <1>4, <1>8, TopsAre
  <2> QED
    BY <1>8, <2>1, OffenderIs
<1>11. Len(top) < TopOffenders => SumOver(top, LAMBDA o : o.count) = Len(tasks)
  <2> SUFFICES ASSUME Len(top) < TopOffenders
               PROVE  SumOver(top, LAMBDA o : o.count) = Len(tasks)
    OBVIOUS
  <2>1. Len(FirstOf(Offenders(rows), TopOffenders)) < TopOffenders
    BY <1>4
  <2>2. SumOver(FirstOf(Offenders(rows), TopOffenders), LAMBDA o : o.count)
          = Cardinality(DOMAIN rows)
    BY <1>2, <1>8, <2>1, TopsCount
  <2> QED
    BY <2>2, <1>4, <1>5, <1>7
<1>12. \A i \in DOMAIN tasks, j \in DOMAIN top :
         \/ \E k \in DOMAIN top : top[k].key = TaskSource(tasks[i])
         \/ tasks[i].duration <= top[j].total
  <2>1. \A i \in DOMAIN rows, j \in DOMAIN top :
          \/ \E k \in DOMAIN top : top[k].key = rows[i].key
          \/ rows[i].weight <= top[j].total
    BY <1>2, <1>4, <1>8, TopsAre
  <2> QED
    BY <2>1, <1>5
<1>13. Len(loaf) < TopOffenders => SumOver(loaf, LAMBDA o : o.count) = scripts
  <2> SUFFICES ASSUME Len(loaf) < TopOffenders
               PROVE  SumOver(loaf, LAMBDA o : o.count) = scripts
    OBVIOUS
  <2>1. Len(FirstOf(Offenders(LoafRows(frames)), TopOffenders)) < TopOffenders
    BY <1>4
  <2>2. /\ Rows(LoafRows(frames))
        /\ Cardinality(DOMAIN LoafRows(frames)) = scripts
    BY <1>1, ScriptsCount DEF scripts
  <2>3. SumOver(FirstOf(Offenders(LoafRows(frames)), TopOffenders), LAMBDA o : o.count)
          = Cardinality(DOMAIN LoafRows(frames))
    BY <1>2, <2>1, <2>2, TopsCount
  <2> QED
    BY <2>2, <2>3, <1>4
<1> QED
  BY <1>1, <1>3, <1>9, <1>10, <1>11, <1>12, <1>13, Zenon
    DEF OffendersAgree, sum, tasks, frames, top, loaf, scripts

(* Whenever the observers are read, whatever entries came and in whatever  *)
(* order, their counters, their capped lists and the roll-ups of the lists *)
(* agree with each other (WEB_VITALS_SETUP_JS, DOM_MUTATIONS_SETUP_JS and  *)
(* the aggregate_ functions).                                              *)
THEOREM VitalsHold == Spec => []VitalsAgree
<1>1. Init => Bounded /\ Accounted /\ MutationsCounted
  BY BoundedStarts, NoneAccounted, NoneMutated
<1>2. Bounded /\ Accounted /\ MutationsCounted /\ [Next]_vars
        => (Bounded /\ Accounted /\ MutationsCounted)'
  BY BoundedStep, AccountedStep, MutationsStep
<1>3. Bounded /\ Accounted /\ MutationsCounted /\ FramesAgree => VitalsAgree
  BY ShiftsAddUp, OffendersAccountedFor, TopMutations DEF VitalsAgree
<1> QED
  BY <1>1, <1>2, <1>3, FramesHold, PTL DEF Spec

-----------------------------------------------------------------------------
(* Resources by size.                                                      *)

(* The indexes I of a list of resources, the largest first.                *)
LEMMA BySizeIs ==
  ASSUME NEW rs, NEW I \in SUBSET Nat, IsFiniteSet(I), \A i \in I : rs[i].size \in Int
  PROVE  \E at \in SetToSeqs(I) :
           /\ BySize(rs, I) = [k \in DOMAIN at |-> rs[at[k]]]
           /\ \A k, l \in DOMAIN at : k < l => rs[at[k]].size >= rs[at[l]].size
<1>0. \A i \in I : rs[i].size \in Int /\ i \in Int
  OBVIOUS
<1> DEFINE Before(i, j) == \/ rs[i].size > rs[j].size
                           \/ ~(rs[j].size > rs[i].size) /\ i < j
           R == {p \in I \X I : Before(p[1], p[2])}
           Nth(x, k) == Cardinality({y \in I : Before(y, x)}) = k - 1
           below == [x \in I |-> {y \in I : Before(y, x)}]
           at == InOrder(I, LAMBDA i, j : \/ rs[i].size > rs[j].size
                                          \/ ~(rs[j].size > rs[i].size) /\ i < j)
<1>1. \A i, j \in I : <<i, j>> \in R <=> Before(i, j)
  <2> HIDE DEF Before, below, at, Nth
  <2> QED
    BY Zenon
<1>2. StrictOrder(I, R)
  <2> DEFINE z == [i \in I |-> rs[i].size]
  <2>1. ASSUME NEW i \in I
        PROVE  z[i] \in Int /\ z[i] = rs[i].size /\ i \in Int
    BY <1>0, Zenon
  <2> HIDE DEF R, z
  <2>2. \A i, j \in I : Before(i, j) <=> z[i] > z[j] \/ (z[i] = z[j] /\ i < j)
    BY <2>1
  <2>3. \A i, j \in I : <<i, j>> \in R <=> z[i] > z[j] \/ (z[i] = z[j] /\ i < j)
    BY <1>1, <2>2
  <2> HIDE DEF Before
  <2>4. \A i \in I : <<i, i>> \notin R
    BY <2>1, <2>3
  <2>5. \A i, j \in I : i # j => <<i, j>> \in R \/ <<j, i>> \in R
    BY <2>1, <2>3
  <2>6. \A i, j, k \in I : <<i, j>> \in R /\ <<j, k>> \in R => <<i, k>> \in R
    BY <2>1, <2>3
  <2> QED
    BY <2>4, <2>5, <2>6 DEF StrictOrder
<1>3. IsBelow(below, I, R)
  BY DEF IsBelow
<1>4. at = [k \in 1 .. Cardinality(I) |-> CHOOSE x \in I : Nth(x, k)]
  BY Zenon DEF InOrder
<1>5. \A x \in I, k \in 1 .. Cardinality(I) : Nth(x, k) <=> Cardinality(below[x]) = k - 1
  BY Zenon
<1>6. BySize(rs, I) = [k \in DOMAIN at |-> rs[at[k]]]
  BY Zenon DEF BySize, Listed
<1> HIDE DEF Nth, below, at, R
<1>7. /\ DOMAIN at = 1 .. Cardinality(I) /\ at = [k \in DOMAIN at |-> at[k]]
      /\ \A k \in DOMAIN at : (\E x \in I : Cardinality(below[x]) = k - 1)
           => at[k] \in I /\ Cardinality(below[at[k]]) = k - 1
  <2>1. DOMAIN at = 1 .. Cardinality(I) /\ at = [k \in DOMAIN at |-> at[k]]
    BY <1>4
  <2>2. ASSUME NEW k \in 1 .. Cardinality(I), NEW x \in I, Cardinality(below[x]) = k - 1
        PROVE  at[k] \in I /\ Cardinality(below[at[k]]) = k - 1
    <3>1. Nth(x, k)
      BY <1>5, <2>2
    <3>2. at[k] = CHOOSE y \in I : Nth(y, k)
      BY <1>4
    <3>3. at[k] \in I /\ Nth(at[k], k)
      BY <3>1, <3>2
    <3> QED
      BY <1>5, <3>3
  <2> QED
    BY <2>1, <2>2
<1> DEFINE V == {at[k] : k \in DOMAIN at}
<1>8. at \in SetToSeqs(I) /\ \A k, l \in DOMAIN at : k < l => <<at[k], at[l]>> \in R
  <2>1. /\ IsFiniteSet(I) /\ StrictOrder(I, R) /\ IsBelow(below, I, R)
        /\ at \in [1 .. Cardinality(I) -> V]
        /\ \A k \in DOMAIN at : (\E x \in I : Cardinality(below[x]) = k - 1)
             => at[k] \in I /\ Cardinality(below[at[k]]) = k - 1
    BY <1>2, <1>3, <1>7
  <2> HIDE DEF Before, V
  <2> QED
    BY ONLY <2>1, OrderIs
<1>9. \A k, l \in DOMAIN at : k < l => rs[at[k]].size >= rs[at[l]].size
  <2>1. \A k \in DOMAIN at : at[k] \in I
    BY <1>8, RankingIsComplete
  <2> SUFFICES ASSUME NEW k \in DOMAIN at, NEW l \in DOMAIN at, k < l
               PROVE  rs[at[k]].size >= rs[at[l]].size
    OBVIOUS
  <2>2. at[k] \in I /\ at[l] \in I /\ Before(at[k], at[l])
    BY <1>1, <1>8, <2>1
  <2>3. rs[at[k]].size \in Int /\ rs[at[l]].size \in Int
    BY <2>2
  <2> QED
    BY <2>2, <2>3
<1> QED
  BY <1>6, <1>8, <1>9

(* The largest of them: how many, that they are some of them, and the      *)
(* first one the largest of all.                                           *)
LEMMA LargestAre ==
  ASSUME NEW rs, NEW I \in SUBSET Nat, IsFiniteSet(I), \A i \in I : rs[i].size \in Int,
         NEW n \in Nat
  PROVE  LET top == FirstOf(BySize(rs, I), n)
         IN  /\ Cardinality(I) \in Nat
             /\ Len(top) = IF Cardinality(I) < n THEN Cardinality(I) ELSE n
             /\ DOMAIN top = 1 .. Len(top)
             /\ \A k \in DOMAIN top : \E i \in I : top[k] = rs[i]
             /\ Len(top) > 0 => \A i \in I : rs[i].size <= top[1].size
<1>1. PICK at \in SetToSeqs(I) :
        /\ BySize(rs, I) = [k \in DOMAIN at |-> rs[at[k]]]
        /\ \A k, l \in DOMAIN at : k < l => rs[at[k]].size >= rs[at[l]].size
  BY BySizeIs
<1>2. /\ Cardinality(I) \in Nat /\ at \in Seq(I) /\ Len(at) = Cardinality(I)
      /\ {at[k] : k \in DOMAIN at} = I
  BY RankingIsComplete
<1> DEFINE s == BySize(rs, I)
           S == {rs[i] : i \in I}
           top == FirstOf(s, n)
           m == Len(top)
<1>3. s \in Seq(S) /\ Len(s) = Len(at) /\ DOMAIN s = DOMAIN at
  <2>1. /\ at \in Seq(I) /\ s = [k \in DOMAIN at |-> rs[at[k]]]
        /\ \A i \in I : rs[i] \in S
    BY <1>1, <1>2
  <2>2. DOMAIN at = 1 .. Len(at) /\ Len(at) \in Nat /\ \A k \in DOMAIN at : at[k] \in I
    BY ONLY <2>1
  <2>3. s \in [1 .. Len(at) -> S]
    BY ONLY <2>1, <2>2
  <2> HIDE DEF s, S
  <2> QED
    BY ONLY <2>2, <2>3
<1>4. \A k \in DOMAIN at : s[k] = rs[at[k]] /\ at[k] \in I
  BY <1>1, <1>2
<1> HIDE DEF s, S
<1>5. /\ m = IF Len(s) < n THEN Len(s) ELSE n
      /\ m \in 0 .. Len(s) /\ DOMAIN top = 1 .. m
      /\ \A k \in 1 .. m : top[k] = s[k] /\ k \in DOMAIN s
  BY <1>3, FirstOfIs
<1> HIDE DEF m, top
<1>6. m > 0 => \A i \in I : rs[i].size <= top[1].size
  <2> SUFFICES ASSUME m > 0, NEW i \in I PROVE rs[i].size <= top[1].size
    OBVIOUS
  <2>1. PICK k \in DOMAIN at : at[k] = i
    BY <1>2
  <2>2. 1 \in 1 .. m /\ 1 \in DOMAIN at /\ k \in Nat /\ 1 <= k
    BY <1>2, <1>3, <1>5, <2>1
  <2>3. top[1] = rs[at[1]] /\ rs[at[1]].size \in Int /\ rs[i].size \in Int
    BY <1>4, <1>5, <2>2
  <2>4. CASE k = 1
    BY <2>1, <2>3, <2>4
  <2>5. CASE k # 1
    <3>1. rs[at[1]].size >= rs[at[k]].size
      BY <1>1, <2>1, <2>2, <2>5
    <3> QED
      BY <2>1, <2>3, <3>1
  <2> QED
    BY <2>4, <2>5
<1>7. \A k \in DOMAIN top : \E i \in I : top[k] = rs[i]
  BY <1>3, <1>4, <1>5
<1>8. m = Len(top) /\ top = FirstOf(BySize(rs, I), n)
  BY DEF m, top, s
<1> QED
  BY <1>2, <1>3, <1>5, <1>6, <1>7, <1>8

(* What they weigh.                                                        *)
LEMMA LargestWeigh ==
  ASSUME NEW rs, NEW I \in SUBSET Nat, IsFiniteSet(I),
         NEW sizes, \A i \in I : sizes[i] \in Nat /\ sizes[i] = rs[i].size, NEW n \in Nat
  PROVE  LET bytes == Bytes(FirstOf(BySize(rs, I), n))
         IN  /\ bytes \in Nat /\ bytes <= SumFunctionOnSet(sizes, I)
             /\ Cardinality(I) <= n => bytes = SumFunctionOnSet(sizes, I)
<1>0. \A i \in I : rs[i].size \in Int
  OBVIOUS
<1>1. PICK at \in SetToSeqs(I) : BySize(rs, I) = [k \in DOMAIN at |-> rs[at[k]]]
  BY <1>0, BySizeIs
<1>2. Cardinality(I) \in Nat /\ at \in Seq(I) /\ Len(at) = Cardinality(I)
  BY RankingIsComplete
<1> DEFINE s == BySize(rs, I)
           S == {rs[i] : i \in I}
           top == FirstOf(s, n)
           m == Len(top)
           g == [k \in DOMAIN top |-> top[k].size]
           J == 1 .. m
<1>3. s \in Seq(S) /\ Len(s) = Len(at) /\ DOMAIN s = DOMAIN at
  <2>1. /\ at \in Seq(I) /\ s = [k \in DOMAIN at |-> rs[at[k]]]
        /\ \A i \in I : rs[i] \in S
    BY <1>1, <1>2
  <2>2. DOMAIN at = 1 .. Len(at) /\ Len(at) \in Nat /\ \A k \in DOMAIN at : at[k] \in I
    BY ONLY <2>1
  <2>3. s \in [1 .. Len(at) -> S]
    BY ONLY <2>1, <2>2
  <2> HIDE DEF s, S
  <2> QED
    BY ONLY <2>2, <2>3
<1>4. \A k \in DOMAIN at : s[k] = rs[at[k]] /\ at[k] \in I
  BY <1>1, <1>2
<1>5. Bytes(top) = SumFunctionOnSet(g, DOMAIN top)
  BY DEF Bytes, SumOver, SumFunction
<1>6. \A k \in DOMAIN top : g[k] = top[k].size
  OBVIOUS
<1> HIDE DEF s, S, g
<1>7. /\ m = IF Len(s) < n THEN Len(s) ELSE n
      /\ m \in 0 .. Len(s) /\ DOMAIN top = J
      /\ \A k \in J : top[k] = s[k] /\ k \in DOMAIN s
  BY <1>3, FirstOfIs
<1> HIDE DEF top
<1>8. ASSUME NEW k \in J PROVE g[k] = sizes[at[k]] /\ g[k] \in Nat
  <2>1. k \in DOMAIN top /\ top[k] = s[k] /\ k \in DOMAIN at
    BY <1>3, <1>7
  <2>2. at[k] \in I /\ s[k] = rs[at[k]]
    BY <1>4, <2>1
  <2>3. sizes[at[k]] \in Nat /\ sizes[at[k]] = rs[at[k]].size
    BY <2>2
  <2> QED
    BY <1>6, <2>1, <2>2, <2>3
<1>9. /\ m = Len(at) => SumFunctionOnSet(g, 1 .. m) = SumFunctionOnSet(sizes, I)
      /\ (\A x \in I : sizes[x] >= 0)
           => SumFunctionOnSet(g, 1 .. m) <= SumFunctionOnSet(sizes, I)
  <2>1. /\ IsFiniteSet(I) /\ at \in SetToSeqs(I) /\ m \in 0 .. Len(at)
        /\ \A x \in I : sizes[x] \in Int
        /\ \A k \in 1 .. m : g[k] = sizes[at[k]]
    <3>1. \A x \in I : sizes[x] \in Int
      OBVIOUS
    <3> QED
      BY <1>1, <1>3, <1>7, <1>8, <3>1
  <2> QED
    BY ONLY <2>1, SumRanked
<1>10. SumFunctionOnSet(g, J) \in Nat
  <2>1. IsFiniteSet(J)
    <3>1. m \in Int /\ 1 \in Int
      BY <1>7
    <3> QED
      BY <3>1, FS_Interval
  <2>2. J \in SUBSET J /\ \A k \in J : g[k] \in Nat
    BY <1>8
  <2> HIDE DEF J
  <2> QED
    BY <2>1, <2>2, SumPart
<1>11. Bytes(top) = SumFunctionOnSet(g, J)
  BY <1>5, <1>7
<1>12. SumFunctionOnSet(g, J) <= SumFunctionOnSet(sizes, I)
  BY <1>9
<1>13. Cardinality(I) <= n => SumFunctionOnSet(g, J) = SumFunctionOnSet(sizes, I)
  BY <1>2, <1>3, <1>7, <1>9
<1> HIDE DEF J
<1> QED
  BY <1>10, <1>11, <1>12, <1>13 DEF top, s

LEMMA LargestIsList ==
  ASSUME NEW rs, NEW I \in SUBSET Nat, IsFiniteSet(I), \A i \in I : rs[i].size \in Int,
         NEW n \in Nat, NEW S, \A i \in I : rs[i] \in S
  PROVE  FirstOf(BySize(rs, I), n) \in Seq(S)
<1>1. PICK at \in SetToSeqs(I) : BySize(rs, I) = [k \in DOMAIN at |-> rs[at[k]]]
  BY BySizeIs
<1>2. at \in Seq(I)
  BY RankingIsComplete
<1>3. BySize(rs, I) \in Seq(S)
  BY <1>1, <1>2
<1> QED
  BY <1>3, FirstOfIs

-----------------------------------------------------------------------------
(* One turn of the loop over the resources, figure by figure: what every   *)
(* resource counts under, what a response or a cache hit does, and what    *)
(* its host does.                                                          *)

Listings == {"bytes_by_type", "count_by_type", "status_distribution",
             "cache_control_present", "cache_control_missing", "legacy_image_bytes",
             "modern_image_bytes", "source_maps_present", "source_maps_missing", "largest"}
Payments == {"cache_hits", "cached_bytes", "connections_reused", "connections_new",
             "protocol_distribution", "modern_hits", "compression_breakdown",
             "compressed_count", "uncompressed_text_count", "uncompressed_text_bytes"}
Hostings == {"hosts", "third_party_bytes", "third_party_script_bytes", "by_host",
             "scripts_by_host"}
Figures == Listings \cup Payments \cup Hostings
Same(t, s, F) == \A f \in F : t[f] = s[f]

(* An uncompressed text that came over the wire; another host's resource.  *)
Plain(r) == ~r.from_cache /\ IsTextCompressible(r.mime) /\ r.encoding = Absent
Third(r) == Target # Absent /\ r.host # Absent /\ r.host # Target

Lists(t, s, r) ==
  /\ t.bytes_by_type = Plus(s.bytes_by_type, MimeBucket(r.mime), r.size)
  /\ t.count_by_type = Plus(s.count_by_type, MimeBucket(r.mime), 1)
  /\ t.status_distribution = Plus(s.status_distribution, StatusBucket(r.status), 1)
  /\ t.cache_control_present = s.cache_control_present + If(r.cache_control # Absent, 1)
  /\ t.cache_control_missing = s.cache_control_missing + If(r.cache_control = Absent, 1)
  /\ t.legacy_image_bytes = s.legacy_image_bytes + If(LegacyImage(r), r.size)
  /\ t.modern_image_bytes = s.modern_image_bytes + If(ModernImage(r), r.size)
  /\ t.largest = IF s.largest = Absent THEN [url |-> r.url, size |-> r.size]
                 ELSE IF r.size > s.largest.size THEN [url |-> r.url, size |-> r.size]
                 ELSE s.largest
Pays(t, s, r) ==
  /\ r.from_cache =>
       /\ t.cache_hits = s.cache_hits + 1 /\ t.cached_bytes = s.cached_bytes + r.size
       /\ Same(t, s, Payments \ {"cache_hits", "cached_bytes"})
  /\ ~r.from_cache =>
       /\ Same(t, s, {"cache_hits", "cached_bytes"})
       /\ t.connections_reused = s.connections_reused + If(r.reused, 1)
       /\ t.connections_new = s.connections_new + If(~r.reused, 1)
       /\ t.protocol_distribution = Plus(s.protocol_distribution, Protocol(r), 1)
       /\ t.modern_hits = s.modern_hits + If(Modern(r), 1)
       /\ t.compression_breakdown = IF IsTextCompressible(r.mime)
                                      THEN Plus(s.compression_breakdown, Coding(r), 1)
                                      ELSE s.compression_breakdown
       /\ t.compressed_count = s.compressed_count + If(r.encoding # Absent, 1)
       /\ t.uncompressed_text_count = s.uncompressed_text_count + If(Plain(r), 1)
       /\ t.uncompressed_text_bytes = s.uncompressed_text_bytes + If(Plain(r), r.size)
Hosts(t, s, r) ==
  /\ t.hosts = IF r.host = Absent THEN s.hosts ELSE s.hosts \cup {r.host}
  /\ Third(r) => /\ t.third_party_bytes = s.third_party_bytes + r.size
                 /\ t.by_host = Plus(s.by_host, r.host, r.size)
  /\ ~Third(r) => Same(t, s, {"third_party_bytes", "by_host"})
  /\ Third(r) /\ IsScript(r) =>
       /\ t.third_party_script_bytes = s.third_party_script_bytes + r.size
       /\ t.scripts_by_host = Plus(s.scripts_by_host, r.host, r.size)
  /\ ~(Third(r) /\ IsScript(r)) =>
       Same(t, s, {"third_party_script_bytes", "scripts_by_host"})

LEMMA TallyAllIs ==
  ASSUME NEW s, DOMAIN s = Figures, NEW r
  PROVE  LET t == TallyAll(s, r)
         IN  DOMAIN t = Figures /\ Lists(t, s, r) /\ Same(t, s, Payments \cup Hostings)
<1>1. DOMAIN TallyAll(s, r) = Figures
  BY Zenon DEF TallyAll
<1>2. Lists(TallyAll(s, r), s, r)
  BY Zenon DEF TallyAll, Figures, Listings, Lists
<1>3. Same(TallyAll(s, r), s, Payments \cup Hostings)
  BY DEF TallyAll, Figures, Payments, Hostings, Same
<1> QED
  BY <1>1, <1>2, <1>3, Zenon

LEMMA TallyPaidIs ==
  ASSUME NEW s, DOMAIN s = Figures, NEW r
  PROVE  LET t == IF r.from_cache THEN TallyCached(s, r) ELSE TallyNetwork(s, r)
         IN  DOMAIN t = Figures /\ Pays(t, s, r) /\ Same(t, s, Listings \cup Hostings)
<1>1. CASE r.from_cache
  <2> DEFINE t == TallyCached(s, r)
  <2>1. DOMAIN t = Figures /\ Pays(t, s, r) /\ Same(t, s, Listings \cup Hostings)
    BY <1>1 DEF TallyCached, Figures, Listings, Payments, Hostings, Pays, Same
  <2> HIDE DEF t
  <2>2. TallyCached(s, r) = t
    BY DEF t
  <2> QED
    BY <1>1, <2>1, <2>2
<1>2. CASE ~r.from_cache
  <2> DEFINE t == TallyNetwork(s, r)
  <2>1. Plain(r) <=> IsTextCompressible(r.mime) /\ r.encoding = Absent
    BY <1>2 DEF Plain
  <2>2. DOMAIN t = Figures /\ Same(t, s, Listings \cup Hostings)
    BY DEF TallyNetwork, Figures, Listings, Payments, Hostings, Same
  <2>3. Pays(t, s, r)
    BY <1>2, <2>1 DEF TallyNetwork, Figures, Listings, Payments, Hostings, Pays, Same, If
  <2> HIDE DEF t
  <2>4. TallyNetwork(s, r) = t
    BY DEF t
  <2> QED
    BY <1>2, <2>2, <2>3, <2>4
<1> QED
  BY <1>1, <1>2

LEMMA TallyHostIs ==
  ASSUME NEW s, DOMAIN s = Figures, NEW r, r.host # Absent,
         s.third_party_bytes \in Int, s.third_party_script_bytes \in Int
  PROVE  LET t == TallyHost(s, r, Target)
         IN  DOMAIN t = Figures /\ Hosts(t, s, r) /\ Same(t, s, Listings \cup Payments)
<1>1. Third(r) <=> Target # Absent /\ r.host # Target
  BY DEF Third
<1> QED
  BY <1>1 DEF TallyHost, Figures, Listings, Payments, Hostings, Hosts, Same, If

LEMMA TallyIs ==
  ASSUME NEW s, DOMAIN s = Figures, NEW r,
         s.third_party_bytes \in Int, s.third_party_script_bytes \in Int
  PROVE  LET t == Tally(s, r, Target)
         IN  DOMAIN t = Figures /\ Lists(t, s, r) /\ Pays(t, s, r) /\ Hosts(t, s, r)
<1> DEFINE all == TallyAll(s, r)
           paid == IF r.from_cache THEN TallyCached(all, r) ELSE TallyNetwork(all, r)
           t == IF r.host = Absent THEN paid ELSE TallyHost(paid, r, Target)
<1>1. DOMAIN all = Figures /\ Lists(all, s, r) /\ Same(all, s, Payments \cup Hostings)
  BY TallyAllIs
<1> HIDE DEF all
<1>2. DOMAIN paid = Figures /\ Pays(paid, all, r) /\ Same(paid, all, Listings \cup Hostings)
  BY <1>1, TallyPaidIs
<1> HIDE DEF paid
<1>3. Same(paid, s, Hostings)
  BY <1>1, <1>2 DEF Same
<1>4. paid.third_party_bytes \in Int /\ paid.third_party_script_bytes \in Int
  BY <1>3 DEF Same, Hostings
<1>5. DOMAIN t = Figures /\ Hosts(t, paid, r) /\ Same(t, paid, Listings \cup Payments)
  <2>1. CASE r.host = Absent
    <3>1. t = paid /\ ~Third(r)
      BY <2>1 DEF Third
    <3> HIDE DEF t
    <3> QED
      BY <1>2, <2>1, <3>1 DEF Hosts, Same
  <2>2. CASE r.host # Absent
    <3>1. t = TallyHost(paid, r, Target)
      BY <2>2
    <3> HIDE DEF t
    <3> QED
      BY <1>2, <1>4, <2>2, <3>1, TallyHostIs
  <2> QED
    BY <2>1, <2>2
<1> HIDE DEF t
<1>6. Lists(t, s, r)
  <2>1. Same(t, all, Listings)
    BY <1>2, <1>5 DEF Same
  <2> QED
    BY <1>1, <2>1 DEF Same, Lists, Listings
<1>7. Pays(t, s, r)
  <2>1. Same(all, s, Payments) /\ Same(t, paid, Payments)
    BY <1>1, <1>5 DEF Same
  <2> QED
    BY <1>2, <2>1 DEF Same, Pays, Payments
<1>8. Hosts(t, s, r)
  BY <1>3, <1>5 DEF Same, Hosts, Hostings
<1>9. Tally(s, r, Target) = t
  BY DEF Tally, t, paid, all
<1> QED
  BY <1>5, <1>6, <1>7, <1>8, <1>9

(* What the loop has counted after each of the resources.                  *)
Turns(after, rs) ==
  /\ after[0] = Zero
  /\ \A n \in 1 .. Len(rs) : after[n] = Tally(after[n - 1], rs[n], Target)

LEMMA SummaryIs ==
  ASSUME NEW rs, Len(rs) \in Nat
  PROVE  \E after : Turns(after, rs) /\ Summary(rs, Target) = after[Len(rs)]
<1> DEFINE m == Len(rs)
           Step(f, n) == IF n = 0 THEN Zero ELSE Tally(f[n - 1], rs[n], Target)
           IsLoop(f) == f = [n \in 0 .. m |-> Step(f, n)]
           loop == CHOOSE f : IsLoop(f)
           P == {k \in Nat : \E f : /\ DOMAIN f = 0 .. k
                                    /\ \A n \in 0 .. k : f[n] = Step(f, n)}
<1>1. 0 \in P
  <2> DEFINE f == [n \in 0 .. 0 |-> Zero]
  <2>1. DOMAIN f = 0 .. 0 /\ \A n \in 0 .. 0 : f[n] = Step(f, n)
    OBVIOUS
  <2> HIDE DEF f
  <2> QED
    BY <2>1
<1>2. ASSUME NEW k \in 0 .. m - 1, k \in P PROVE k + 1 \in P
  <2>1. k \in Nat /\ 0 .. k + 1 = (0 .. k) \cup {k + 1} /\ k + 1 \in Nat
    OBVIOUS
  <2>2. PICK f : DOMAIN f = 0 .. k /\ \A n \in 0 .. k : f[n] = Step(f, n)
    BY <1>2
  <2> DEFINE g == [n \in 0 .. k + 1 |-> IF n = k + 1 THEN Tally(f[k], rs[k + 1], Target)
                                        ELSE f[n]]
  <2>3. ASSUME NEW n \in 0 .. k + 1 PROVE g[n] = Step(g, n)
    <3>1. CASE n = k + 1
      <4>1. g[n] = Tally(f[k], rs[k + 1], Target) /\ n # 0 /\ n - 1 = k /\ k # k + 1
        BY <2>1, <3>1
      <4>2. g[n - 1] = f[k]
        BY <2>1, <4>1
      <4> QED
        BY <3>1, <4>1, <4>2
    <3>2. CASE n # k + 1
      <4>1. n \in 0 .. k /\ g[n] = f[n]
        BY <2>1, <3>2
      <4>2. n # 0 => n - 1 \in 0 .. k /\ n - 1 # k + 1
        BY <2>1, <4>1
      <4>3. n # 0 => g[n - 1] = f[n - 1]
        BY <2>1, <4>2
      <4> HIDE DEF g
      <4> QED
        BY <2>2, <4>1, <4>3
    <3> QED
      BY <3>1, <3>2
  <2>4. DOMAIN g = 0 .. k + 1
    OBVIOUS
  <2> HIDE DEF g
  <2> QED
    BY <2>1, <2>3, <2>4
<1>3. m \in P
  <2>1. m \in Nat /\ m \in 0 .. m
    OBVIOUS
  <2> HIDE DEF P, m
  <2> QED
    BY <1>1, <1>2, <2>1, UpToInduction
<1>4. PICK f : DOMAIN f = 0 .. m /\ \A n \in 0 .. m : f[n] = Step(f, n)
  BY <1>3
<1>5. IsLoop([n \in 0 .. m |-> f[n]])
  <2> DEFINE g == [n \in 0 .. m |-> f[n]]
  <2>1. ASSUME NEW n \in 0 .. m PROVE Step(f, n) = Step(g, n)
    <3>1. n # 0 => n - 1 \in 0 .. m
      OBVIOUS
    <3> QED
      BY <3>1
  <2>2. g = [n \in 0 .. m |-> Step(g, n)]
    <3>1. \A n \in 0 .. m : g[n] = Step(g, n)
      BY <1>4, <2>1
    <3> QED
      BY <3>1
  <2> QED
    BY <2>2
<1>6. IsLoop(loop)
  <2> HIDE DEF IsLoop
  <2> QED
    BY <1>5
<1>7. loop[0] = Zero /\ \A n \in 1 .. m : loop[n] = Tally(loop[n - 1], rs[n], Target)
  <2> HIDE DEF loop
  <2>1. \A n \in 0 .. m : loop[n] = Step(loop, n)
    BY <1>6
  <2> QED
    BY <2>1
<1>8. Summary(rs, Target) = loop[m]
  BY DEF Summary
<1> HIDE DEF loop
<1> QED
  BY <1>7, <1>8 DEF Turns

-----------------------------------------------------------------------------
(* The first n resources and what was counted of them.                     *)

Sizes(rs) == [i \in DOMAIN rs |-> rs[i].size]
Weight(rs, S) == SumFunctionOnSet(Sizes(rs), S)
Plains(rs) == {i \in DOMAIN rs : Plain(rs[i])}
Stated(rs) == {i \in DOMAIN rs : rs[i].cache_control # Absent}

(* A list of resources is a sequence of them, and they are as assumed.     *)
LEMMA ResourcesAre ==
  ASSUME NEW rs \in Seq(Inputs["resources"])
  PROVE  /\ Len(rs) \in Nat /\ DOMAIN rs = 1 .. Len(rs)
         /\ IsFiniteSet(DOMAIN rs) /\ DOMAIN rs \in SUBSET Nat
         /\ Cardinality(DOMAIN rs) = Len(rs)
         /\ \A i \in DOMAIN rs :
              /\ rs[i].size \in Nat /\ rs[i].from_cache \in BOOLEAN
              /\ rs[i].reused \in BOOLEAN
              /\ rs[i].host # Absent
                   => rs[i].host \in DOMAIN HostRank /\ HostRank[rs[i].host] \in Int
              /\ [url |-> rs[i].url, size |-> rs[i].size] # Absent
              /\ Sizes(rs)[i] = rs[i].size /\ Sizes(rs)[i] \in Nat /\ Sizes(rs)[i] \in Int
         /\ Bytes(rs) = Weight(rs, DOMAIN rs)
<1>1. Len(rs) \in Nat /\ DOMAIN rs = 1 .. Len(rs) /\ DOMAIN rs \in SUBSET Nat
  OBVIOUS
<1>2. IsFiniteSet(1 .. Len(rs)) /\ Cardinality(1 .. Len(rs)) = Len(rs)
  <2> DEFINE n == Len(rs)
  <2>1. n \in Nat /\ 1 \in Int /\ n \in Int
    BY <1>1
  <2> HIDE DEF n
  <2>2. IsFiniteSet(1 .. n) /\ Cardinality(1 .. n) = n
    BY <2>1, FS_Interval
  <2> QED
    BY <2>2 DEF n
<1>3. \A i \in DOMAIN rs : rs[i] \in Inputs["resources"]
  OBVIOUS
<1>4. \A i \in DOMAIN rs :
        /\ rs[i].size \in Nat /\ rs[i].from_cache \in BOOLEAN /\ rs[i].reused \in BOOLEAN
        /\ rs[i].host # Absent
             => rs[i].host \in DOMAIN HostRank /\ HostRank[rs[i].host] \in Int
        /\ [url |-> rs[i].url, size |-> rs[i].size] # Absent
  BY <1>3, ResourcesAssumption, Zenon
<1>5. \A i \in DOMAIN rs :
        Sizes(rs)[i] = rs[i].size /\ Sizes(rs)[i] \in Nat /\ Sizes(rs)[i] \in Int
  BY <1>4 DEF Sizes
<1>6. Bytes(rs) = Weight(rs, DOMAIN rs)
  BY DEF Bytes, SumOver, SumFunction, Weight, Sizes
<1> QED
  BY <1>1, <1>2, <1>4, <1>5, <1>6, Zenon

(* One number more of a set of numbers.                                    *)
LEMMA OneMore ==
  ASSUME NEW S, NEW n \in Nat, NEW f, \A i \in 1 .. n + 1 : f[i] \in Int
  PROVE  LET now == S \cap (1 .. n)
             then == S \cap (1 .. n + 1)
         IN  /\ SumFunctionOnSet(f, now) \in Int /\ Cardinality(now) \in Nat
             /\ n + 1 \in S => /\ SumFunctionOnSet(f, then) = SumFunctionOnSet(f, now) + f[n + 1]
                               /\ Cardinality(then) = Cardinality(now) + 1
             /\ n + 1 \notin S => then = now
<1> DEFINE now == S \cap (1 .. n)
           then == S \cap (1 .. n + 1)
<1>1. IsFiniteSet(1 .. n)
  BY FS_Interval
<1>2. /\ n + 1 \notin now /\ n + 1 \in S => then = now \cup {n + 1}
      /\ n + 1 \notin S => then = now
      /\ \A i \in now \cup {n + 1} : f[i] \in Int
      /\ now \in SUBSET (1 .. n)
  OBVIOUS
<1>3. IsFiniteSet(now)
  BY <1>1, FS_Subset
<1>4. n + 1 \notin now
  OBVIOUS
<1> HIDE DEF now, then
<1>5. SumFunctionOnSet(f, now) \in Int /\ Cardinality(now) \in Nat
  BY <1>2, <1>3, SumType, FS_CardinalityType
<1>6. SumFunctionOnSet(f, now \cup {n + 1}) = SumFunctionOnSet(f, now) + f[n + 1]
  <2> DEFINE k == n + 1
  <2>1. IsFiniteSet(now) /\ k \notin now /\ \A y \in now \cup {k} : f[y] \in Int
    BY <1>2, <1>3, <1>4
  <2> HIDE DEF k
  <2>2. SumFunctionOnSet(f, now \cup {k}) = SumFunctionOnSet(f, now) + f[k]
    BY ONLY <2>1, SumAdd
  <2> QED
    BY <2>2 DEF k
<1>7. Cardinality(now \cup {n + 1}) = Cardinality(now) + 1
  BY <1>3, <1>4, FS_AddElement
<1>8. n + 1 \in S => then = now \cup {n + 1}
  BY <1>4 DEF now, then
<1>9. n + 1 \in S => /\ SumFunctionOnSet(f, then) = SumFunctionOnSet(f, now) + f[n + 1]
                     /\ Cardinality(then) = Cardinality(now) + 1
  BY <1>6, <1>7, <1>8
<1>10. n + 1 \notin S => then = now
  BY <1>2
<1> QED
  BY <1>5, <1>9, <1>10 DEF now, then

(* What the first n resources count under: their types and statuses, ...   *)
TypesCounted(s, rs, n) ==
  /\ Table(s.bytes_by_type) /\ SumFunction(s.bytes_by_type) = Weight(rs, 1 .. n)
  /\ Table(s.count_by_type) /\ SumFunction(s.count_by_type) = n
  /\ Table(s.status_distribution) /\ SumFunction(s.status_distribution) = n
  /\ s.cache_control_present = Cardinality(Stated(rs) \cap (1 .. n))
  /\ s.cache_control_present + s.cache_control_missing = n
  /\ s.cache_control_missing \in Nat
  /\ s.legacy_image_bytes \in Nat /\ s.modern_image_bytes \in Nat
  /\ s.legacy_image_bytes + s.modern_image_bytes <= Weight(rs, 1 .. n)
(* ... what was transferred for them, ...                                  *)
PaidCounted(s, rs, n) ==
  /\ s.cache_hits \in Nat /\ s.connections_new \in Nat /\ s.connections_reused \in Nat
  /\ s.cache_hits + s.connections_new + s.connections_reused = n
  /\ s.cached_bytes \in Nat /\ s.cached_bytes <= Weight(rs, 1 .. n)
  /\ Table(s.protocol_distribution)
  /\ SumFunction(s.protocol_distribution) = s.connections_new + s.connections_reused
  /\ s.modern_hits \in Nat /\ s.modern_hits <= s.connections_new + s.connections_reused
  /\ Table(s.compression_breakdown)
  /\ s.uncompressed_text_count <= SumFunction(s.compression_breakdown)
  /\ s.compressed_count \in Nat
  /\ s.compressed_count + s.uncompressed_text_count
       <= s.connections_new + s.connections_reused
  /\ s.uncompressed_text_count = Cardinality(Plains(rs) \cap (1 .. n))
  /\ s.uncompressed_text_bytes = Weight(rs, Plains(rs) \cap (1 .. n))
(* ... the hosts they came from, ...                                       *)
HostsCounted(s, rs, n) ==
  /\ Table(s.by_host) /\ SumFunction(s.by_host) = s.third_party_bytes
  /\ Table(s.scripts_by_host)
  /\ SumFunction(s.scripts_by_host) = s.third_party_script_bytes
  /\ s.third_party_bytes \in Nat /\ s.third_party_script_bytes \in Nat
  /\ s.third_party_script_bytes <= s.third_party_bytes
  /\ s.third_party_bytes <= Weight(rs, 1 .. n)
  /\ \A h \in DOMAIN s.scripts_by_host :
       h \in DOMAIN s.by_host /\ s.scripts_by_host[h] <= s.by_host[h]
  /\ \A h \in s.hosts : h \in DOMAIN HostRank /\ HostRank[h] \in Int
  /\ DOMAIN s.by_host \subseteq s.hosts \ {Target}
  /\ Target # Absent => s.hosts \ {Target} \subseteq DOMAIN s.by_host
(* ... and the largest of them.                                            *)
LargestFound(s, rs, n) ==
  /\ n = 0 => s.largest = Absent
  /\ n > 0 => \E i \in 1 .. n : s.largest = [url |-> rs[i].url, size |-> rs[i].size]
  /\ \A i \in 1 .. n : rs[i].size <= s.largest.size

LEMMA ZeroIs ==
  ASSUME NEW rs
  PROVE  /\ DOMAIN Zero = Figures
         /\ TypesCounted(Zero, rs, 0) /\ PaidCounted(Zero, rs, 0)
         /\ HostsCounted(Zero, rs, 0) /\ LargestFound(Zero, rs, 0)
<1>1. Table(Empty) /\ SumFunction(Empty) = 0 /\ DOMAIN Empty = {}
  <2>1. DOMAIN Empty = {} /\ IsFiniteSet({})
    BY FS_EmptySet DEF Empty
  <2> QED
    BY <2>1, SumEmpty DEF Table, SumFunction
<1>2. DOMAIN Zero = Figures
  BY DEF Zero, Figures, Listings, Payments, Hostings
<1>3. 1 .. 0 = {} /\ Stated(rs) \cap (1 .. 0) = {} /\ Plains(rs) \cap (1 .. 0) = {}
  OBVIOUS
<1>4. Weight(rs, 1 .. 0) = 0
  BY <1>3, SumEmpty DEF Weight
<1>5. Weight(rs, Plains(rs) \cap (1 .. 0)) = 0
  BY <1>3, SumEmpty DEF Weight
<1>6. Cardinality(Stated(rs) \cap (1 .. 0)) = 0 /\ Cardinality(Plains(rs) \cap (1 .. 0)) = 0
  BY <1>3, FS_EmptySet
<1>7. /\ \A f \in {"bytes_by_type", "count_by_type", "status_distribution",
                   "protocol_distribution", "compression_breakdown", "by_host",
                   "scripts_by_host"} : Zero[f] = Empty
      /\ Zero.hosts = {} /\ Zero.largest = Absent
      /\ \A f \in {"cache_control_present", "cache_control_missing", "legacy_image_bytes",
                   "modern_image_bytes", "cache_hits", "cached_bytes",
                   "connections_reused", "connections_new", "modern_hits",
                   "compressed_count", "uncompressed_text_count",
                   "uncompressed_text_bytes", "third_party_bytes",
                   "third_party_script_bytes"} : Zero[f] = 0
  BY DEF Zero
<1>8. TypesCounted(Zero, rs, 0)
  <2> DEFINE W == Weight(rs, 1 .. 0)
             c == Cardinality(Stated(rs) \cap (1 .. 0))
  <2>1. W = 0 /\ c = 0
    BY <1>4, <1>6
  <2>2. /\ Zero.bytes_by_type = Empty /\ Zero.count_by_type = Empty
        /\ Zero.status_distribution = Empty /\ Zero.cache_control_present = 0
        /\ Zero.cache_control_missing = 0 /\ Zero.legacy_image_bytes = 0
        /\ Zero.modern_image_bytes = 0
    BY <1>7
  <2> HIDE DEF W, c
  <2> QED
    BY <1>1, <2>1, <2>2 DEF TypesCounted, W, c
<1>9. PaidCounted(Zero, rs, 0)
  <2> DEFINE W == Weight(rs, 1 .. 0)
             c == Cardinality(Plains(rs) \cap (1 .. 0))
             w == Weight(rs, Plains(rs) \cap (1 .. 0))
  <2>1. W = 0 /\ c = 0 /\ w = 0
    BY <1>4, <1>5, <1>6
  <2>2. /\ Zero.protocol_distribution = Empty /\ Zero.compression_breakdown = Empty
        /\ Zero.cache_hits = 0 /\ Zero.cached_bytes = 0 /\ Zero.connections_reused = 0
        /\ Zero.connections_new = 0 /\ Zero.modern_hits = 0 /\ Zero.compressed_count = 0
        /\ Zero.uncompressed_text_count = 0 /\ Zero.uncompressed_text_bytes = 0
    BY <1>7
  <2> HIDE DEF W, c, w
  <2> QED
    BY <1>1, <2>1, <2>2 DEF PaidCounted, W, c, w
<1>10. HostsCounted(Zero, rs, 0)
  BY <1>1, <1>4, <1>7 DEF HostsCounted
<1>11. LargestFound(Zero, rs, 0)
  BY <1>3, <1>7 DEF LargestFound
<1> QED
  BY <1>2, <1>8, <1>9, <1>10, <1>11

LEMMA BothGrow ==
  ASSUME NEW x \in Nat, NEW y \in Nat, NEW w \in Int, x + y <= w,
         NEW a \in Nat, NEW b \in Nat, NEW c \in Nat, a + b <= c
  PROVE  (x + a) + (y + b) <= w + c
OBVIOUS

LEMMA GrowsInNat ==
  ASSUME NEW x \in Nat, NEW y \in Nat
  PROVE  x + y \in Nat
OBVIOUS

(* One resource more.                                                      *)
LEMMA OneHeavier ==
  ASSUME NEW rs \in Seq(Inputs["resources"]), NEW n \in 0 .. Len(rs) - 1
  PROVE  /\ n \in Nat /\ n + 1 \in DOMAIN rs /\ rs[n + 1].size \in Nat
         /\ Weight(rs, 1 .. n + 1) = Weight(rs, 1 .. n) + rs[n + 1].size
         /\ Weight(rs, 1 .. n) \in Nat
         /\ \A i \in 1 .. n + 1 : Sizes(rs)[i] \in Int
<1>1. /\ n \in Nat /\ n + 1 \in DOMAIN rs
      /\ rs[n + 1].size \in Nat /\ Sizes(rs)[n + 1] = rs[n + 1].size
      /\ \A i \in 1 .. n + 1 : Sizes(rs)[i] \in Int /\ Sizes(rs)[i] \in Nat
  BY ResourcesAre
<1>2. \A i \in 1 .. n + 1 : Sizes(rs)[i] \in Int
  BY <1>1
<1>3. SumFunctionOnSet(Sizes(rs), 1 .. n + 1)
        = SumFunctionOnSet(Sizes(rs), 1 .. n) + Sizes(rs)[n + 1]
  BY <1>1, <1>2, SumLonger
<1>4. Weight(rs, 1 .. n) \in Nat
  <2> DEFINE I == 1 .. n
  <2>1. (\A i \in I : Sizes(rs)[i] \in Nat) /\ I \in SUBSET I
    BY <1>1
  <2>2. IsFiniteSet(I)
    BY <1>1, FS_Interval
  <2> HIDE DEF I
  <2>3. SumFunctionOnSet(Sizes(rs), I) \in Nat
    BY ONLY <2>1, <2>2, SumPart
  <2> QED
    BY <2>3 DEF Weight, I
<1> QED
  BY <1>1, <1>2, <1>3, <1>4 DEF Weight

LEMMA TypesStep ==
  ASSUME NEW rs \in Seq(Inputs["resources"]), NEW n \in 0 .. Len(rs) - 1, NEW s, NEW t,
         TypesCounted(s, rs, n), Lists(t, s, rs[n + 1])
  PROVE  TypesCounted(t, rs, n + 1)
<1> DEFINE r == rs[n + 1]
           k == n + 1
           W == Weight(rs, 1 .. n)
           now == Stated(rs) \cap (1 .. n)
           then == Stated(rs) \cap (1 .. k)
<1>1. n \in Nat /\ k \in Nat /\ k \in DOMAIN rs /\ r.size \in Nat
  BY OneHeavier
<1>2. Weight(rs, 1 .. k) = W + r.size /\ W \in Int
  BY OneHeavier
<1>3. /\ Cardinality(now) \in Nat
      /\ r.cache_control # Absent => Cardinality(then) = Cardinality(now) + 1
      /\ r.cache_control = Absent => Cardinality(then) = Cardinality(now)
  <2>1. k \in Stated(rs) <=> r.cache_control # Absent
    BY <1>1 DEF Stated
  <2>2. \A i \in 1 .. n + 1 : Sizes(rs)[i] \in Int
    BY OneHeavier
  <2>3. /\ Cardinality(now) \in Nat
        /\ k \in Stated(rs) => Cardinality(then) = Cardinality(now) + 1
        /\ k \notin Stated(rs) => then = now
    BY <1>1, <2>2, OneMore
  <2> QED
    BY <2>1, <2>3
<1>4. ASSUME NEW f, Table(f), NEW x, NEW m \in Nat
      PROVE  Table(Plus(f, x, m)) /\ SumFunction(Plus(f, x, m)) = SumFunction(f) + m
  BY <1>4, PlusAdds DEF Table
<1>5. 1 \in Nat
  OBVIOUS
<1> HIDE DEF r, k, W, now, then
<1>6. Lists(t, s, r) /\ n + 1 = k
  BY DEF r, k
<1>7. /\ Table(s.bytes_by_type) /\ SumFunction(s.bytes_by_type) = W
      /\ Table(s.count_by_type) /\ SumFunction(s.count_by_type) = n
      /\ Table(s.status_distribution) /\ SumFunction(s.status_distribution) = n
      /\ s.cache_control_present = Cardinality(now)
      /\ s.cache_control_present + s.cache_control_missing = n
      /\ s.cache_control_missing \in Nat
      /\ s.legacy_image_bytes \in Nat /\ s.modern_image_bytes \in Nat
      /\ s.legacy_image_bytes + s.modern_image_bytes <= W
  BY DEF TypesCounted, W, now
<1>8. Table(t.bytes_by_type) /\ SumFunction(t.bytes_by_type) = W + r.size
  BY <1>1, <1>4, <1>6, <1>7 DEF Lists
<1>9. /\ Table(t.count_by_type) /\ SumFunction(t.count_by_type) = n + 1
      /\ Table(t.status_distribution) /\ SumFunction(t.status_distribution) = n + 1
  BY <1>4, <1>5, <1>6, <1>7 DEF Lists
<1>10. /\ t.cache_control_present = Cardinality(then)
       /\ t.cache_control_present + t.cache_control_missing = k
       /\ t.cache_control_missing \in Nat
  <2>1. /\ t.cache_control_present
             = s.cache_control_present + (IF r.cache_control # Absent THEN 1 ELSE 0)
        /\ t.cache_control_missing
             = s.cache_control_missing + (IF r.cache_control = Absent THEN 1 ELSE 0)
    BY <1>6 DEF Lists, If
  <2>2. /\ s.cache_control_present \in Nat /\ s.cache_control_missing \in Nat
        /\ s.cache_control_present + s.cache_control_missing = n
        /\ s.cache_control_present = Cardinality(now) /\ k = n + 1
    BY <1>3, <1>6, <1>7
  <2> QED
    BY <1>1, <1>3, <2>1, <2>2
<1>11. /\ t.legacy_image_bytes \in Nat /\ t.modern_image_bytes \in Nat
       /\ t.legacy_image_bytes + t.modern_image_bytes <= W + r.size
  <2>1. ~(LegacyImage(r) /\ ModernImage(r))
    BY DEF ModernImage
  <2>2. /\ t.legacy_image_bytes
             = s.legacy_image_bytes + (IF LegacyImage(r) THEN r.size ELSE 0)
        /\ t.modern_image_bytes
             = s.modern_image_bytes + (IF ModernImage(r) THEN r.size ELSE 0)
    BY <1>6 DEF Lists, If
  <2> DEFINE a == IF LegacyImage(r) THEN r.size ELSE 0
             b == IF ModernImage(r) THEN r.size ELSE 0
  <2>3. a \in Nat /\ b \in Nat /\ a + b <= r.size
    BY <1>1, <2>1
  <2> HIDE DEF a, b
  <2>4. t.legacy_image_bytes = s.legacy_image_bytes + a
        /\ t.modern_image_bytes = s.modern_image_bytes + b
    BY <2>2 DEF a, b
  <2>5. /\ s.legacy_image_bytes \in Nat /\ s.modern_image_bytes \in Nat
        /\ s.legacy_image_bytes + s.modern_image_bytes <= W
        /\ W \in Int /\ r.size \in Nat
    BY <1>1, <1>2, <1>7
  <2>6. (s.legacy_image_bytes + a) + (s.modern_image_bytes + b) <= W + r.size
    BY ONLY <2>3, <2>5, BothGrow
  <2>7. s.legacy_image_bytes + a \in Nat /\ s.modern_image_bytes + b \in Nat
    BY ONLY <2>3, <2>5, GrowsInNat
  <2> QED
    BY ONLY <2>4, <2>6, <2>7
<1>12. TypesCounted(t, rs, k)
  BY <1>2, <1>6, <1>8, <1>9, <1>10, <1>11 DEF TypesCounted, then
<1> QED
  BY <1>12 DEF k

LEMMA PaidSums ==
  ASSUME NEW h \in Nat, NEW i \in Nat, NEW j \in Nat, NEW n \in Nat, h + i + j = n,
         NEW p \in Nat, NEW q \in Nat, p + q = 1,
         NEW z \in Nat, NEW m \in Nat, z <= i + j, m <= 1,
         NEW y \in Nat, NEW c \in Nat, NEW e \in Nat, NEW u \in Nat,
         y + c <= i + j, e + u <= 1, NEW a \in Nat, NEW x \in Nat, c <= a, u <= x
  PROVE  /\ i + q \in Nat /\ j + p \in Nat /\ h + (i + q) + (j + p) = n + 1
         /\ (i + j) + 1 = (i + q) + (j + p)
         /\ z + m \in Nat /\ z + m <= (i + q) + (j + p)
         /\ y + e \in Nat /\ (y + e) + (c + u) <= (i + q) + (j + p) /\ c + u <= a + x
OBVIOUS

LEMMA PaidStep ==
  ASSUME NEW rs \in Seq(Inputs["resources"]), NEW n \in 0 .. Len(rs) - 1, NEW s, NEW t,
         PaidCounted(s, rs, n), Pays(t, s, rs[n + 1])
  PROVE  PaidCounted(t, rs, n + 1)
<1> DEFINE r == rs[n + 1]
           k == n + 1
           W == Weight(rs, 1 .. n)
           V == Weight(rs, 1 .. k)
           now == Plains(rs) \cap (1 .. n)
           then == Plains(rs) \cap (1 .. k)
<1>1. /\ n \in Nat /\ k \in Nat /\ k \in DOMAIN rs /\ r.size \in Nat
      /\ r.from_cache \in BOOLEAN /\ r.reused \in BOOLEAN
  BY OneHeavier, ResourcesAre
<1>2. V = W + r.size /\ W \in Nat
  BY OneHeavier
<1>3. /\ Cardinality(now) \in Nat /\ Weight(rs, now) \in Int
      /\ Plain(r) => /\ Cardinality(then) = Cardinality(now) + 1
                     /\ Weight(rs, then) = Weight(rs, now) + r.size
      /\ ~Plain(r) => then = now
  <2>1. k \in Plains(rs) <=> Plain(r)
    BY <1>1 DEF Plains
  <2>2. (\A i \in 1 .. n + 1 : Sizes(rs)[i] \in Int) /\ Sizes(rs)[k] = r.size
    BY OneHeavier, ResourcesAre
  <2>3. /\ SumFunctionOnSet(Sizes(rs), now) \in Int /\ Cardinality(now) \in Nat
        /\ k \in Plains(rs) => /\ SumFunctionOnSet(Sizes(rs), then)
                                    = SumFunctionOnSet(Sizes(rs), now) + Sizes(rs)[k]
                               /\ Cardinality(then) = Cardinality(now) + 1
        /\ k \notin Plains(rs) => then = now
    BY <1>1, <2>2, OneMore
  <2> QED
    BY <2>1, <2>2, <2>3 DEF Weight
<1>4. ASSUME NEW f, Table(f), NEW x
      PROVE  Table(Plus(f, x, 1)) /\ SumFunction(Plus(f, x, 1)) = SumFunction(f) + 1
  <2>1. 1 \in Nat
    OBVIOUS
  <2> QED
    BY <1>4, <2>1, PlusAdds DEF Table
<1>5. ASSUME NEW f, Table(f) PROVE SumFunction(f) \in Nat
  <2>1. IsFiniteSet(DOMAIN f) /\ DOMAIN f \in SUBSET DOMAIN f /\ \A x \in DOMAIN f : f[x] \in Nat
    BY <1>5 DEF Table
  <2> QED
    BY <2>1, SumPart DEF SumFunction
<1>6. Pays(t, s, r) /\ n + 1 = k
  OBVIOUS
<1>7. /\ s.cache_hits \in Nat /\ s.connections_new \in Nat /\ s.connections_reused \in Nat
      /\ s.cache_hits + s.connections_new + s.connections_reused = n
      /\ s.cached_bytes \in Nat /\ s.cached_bytes <= W
      /\ Table(s.protocol_distribution)
      /\ SumFunction(s.protocol_distribution) = s.connections_new + s.connections_reused
      /\ s.modern_hits \in Nat /\ s.modern_hits <= s.connections_new + s.connections_reused
      /\ Table(s.compression_breakdown)
      /\ s.uncompressed_text_count <= SumFunction(s.compression_breakdown)
      /\ s.compressed_count \in Nat
      /\ s.compressed_count + s.uncompressed_text_count
           <= s.connections_new + s.connections_reused
      /\ s.uncompressed_text_count = Cardinality(now)
      /\ s.uncompressed_text_bytes = Weight(rs, now)
  BY DEF PaidCounted
<1> DEFINE c == Cardinality(now)
           d == Cardinality(then)
           w == Weight(rs, now)
           v == Weight(rs, then)
           A == SumFunction(s.compression_breakdown)
           B == SumFunction(t.compression_breakdown)
<1> HIDE DEF r, k, W, V, now, then
<1>8. CASE r.from_cache
  <2>1. /\ t.cache_hits = s.cache_hits + 1 /\ t.cached_bytes = s.cached_bytes + r.size
        /\ t.connections_reused = s.connections_reused
        /\ t.connections_new = s.connections_new
        /\ t.protocol_distribution = s.protocol_distribution
        /\ t.modern_hits = s.modern_hits
        /\ t.compression_breakdown = s.compression_breakdown
        /\ t.compressed_count = s.compressed_count
        /\ t.uncompressed_text_count = s.uncompressed_text_count
        /\ t.uncompressed_text_bytes = s.uncompressed_text_bytes
    BY <1>6, <1>8 DEF Pays, Same, Payments
  <2>2. then = now
    BY <1>3, <1>8 DEF Plain
  <2>3. t.cached_bytes \in Nat /\ t.cached_bytes <= V
    <3> DEFINE b == s.cached_bytes
               z == r.size
    <3>1. b \in Nat /\ b <= W /\ z \in Nat /\ W \in Nat
      BY <1>1, <1>2, <1>7
    <3>2. t.cached_bytes = b + z /\ V = W + z
      BY <1>2, <2>1
    <3> HIDE DEF b, z
    <3> QED
      BY ONLY <3>1, <3>2
  <2>4. t.cache_hits \in Nat /\ t.cache_hits + t.connections_new + t.connections_reused = k
    <3> DEFINE h == s.cache_hits
               i == s.connections_new
               j == s.connections_reused
    <3>1. h \in Nat /\ i \in Nat /\ j \in Nat /\ h + i + j = n /\ k = n + 1
      BY <1>6, <1>7
    <3>2. t.cache_hits = h + 1 /\ t.connections_new = i /\ t.connections_reused = j
      BY <2>1
    <3> HIDE DEF h, i, j
    <3> QED
      BY <3>1, <3>2
  <2>5. PaidCounted(t, rs, k)
    BY <1>7, <2>1, <2>2, <2>3, <2>4 DEF PaidCounted, V, then
  <2> QED
    BY <1>6, <2>5 DEF k
<1>9. CASE ~r.from_cache
  <2>1. /\ t.cache_hits = s.cache_hits /\ t.cached_bytes = s.cached_bytes
        /\ t.connections_reused = s.connections_reused + If(r.reused, 1)
        /\ t.connections_new = s.connections_new + If(~r.reused, 1)
        /\ t.protocol_distribution = Plus(s.protocol_distribution, Protocol(r), 1)
        /\ t.modern_hits = s.modern_hits + If(Modern(r), 1)
        /\ t.compression_breakdown = (IF IsTextCompressible(r.mime)
                                        THEN Plus(s.compression_breakdown, Coding(r), 1)
                                        ELSE s.compression_breakdown)
        /\ t.compressed_count = s.compressed_count + If(r.encoding # Absent, 1)
        /\ t.uncompressed_text_count = s.uncompressed_text_count + If(Plain(r), 1)
        /\ t.uncompressed_text_bytes = s.uncompressed_text_bytes + If(Plain(r), r.size)
    BY <1>6, <1>9 DEF Pays, Same
  <2> DEFINE p == If(r.reused, 1)
             q == If(~r.reused, 1)
             m == If(Modern(r), 1)
             e == If(r.encoding # Absent, 1)
             u == If(Plain(r), 1)
             b == If(Plain(r), r.size)
             x == If(IsTextCompressible(r.mime), 1)
  <2>2. /\ p \in Nat /\ q \in Nat /\ p + q = 1 /\ m \in Nat /\ m <= 1 /\ b \in Nat
        /\ e \in Nat /\ u \in Nat /\ e + u <= 1 /\ x \in Nat /\ u <= x
    BY <1>1 DEF If, Plain
  <2>3. d = c + u /\ v = w + b /\ c \in Nat /\ w \in Int
    BY <1>1, <1>3 DEF If
  <2>4. Table(t.protocol_distribution)
        /\ SumFunction(t.protocol_distribution) = SumFunction(s.protocol_distribution) + 1
    BY <1>4, <1>7, <2>1
  <2>5. Table(t.compression_breakdown) /\ B = A + x /\ A \in Nat
    BY <1>4, <1>5, <1>7, <2>1 DEF If
  <2> DEFINE h == s.cache_hits
             i == s.connections_new
             j == s.connections_reused
             z == s.modern_hits
             y == s.compressed_count
  <2>6. /\ h \in Nat /\ i \in Nat /\ j \in Nat /\ h + i + j = n /\ z \in Nat /\ z <= i + j
        /\ y \in Nat /\ y + c <= i + j /\ c <= A
    BY <1>7
  <2>7. /\ t.cache_hits = h /\ t.connections_new = i + q /\ t.connections_reused = j + p
        /\ t.modern_hits = z + m /\ t.compressed_count = y + e
        /\ t.uncompressed_text_count = d /\ t.uncompressed_text_bytes = v
        /\ SumFunction(s.protocol_distribution) = i + j
    BY <1>7, <2>1, <2>3
  <2>8. t.cached_bytes \in Nat /\ t.cached_bytes <= V
    <3> DEFINE o == s.cached_bytes
               g == r.size
    <3>1. o \in Nat /\ o <= W /\ g \in Nat /\ W \in Nat
      BY <1>1, <1>2, <1>7
    <3>2. t.cached_bytes = o /\ V = W + g
      BY <1>2, <2>1
    <3> HIDE DEF o, g
    <3> QED
      BY ONLY <3>1, <3>2
  <2> HIDE DEF p, q, m, e, u, b, x, c, d, v, w, A, B, h, i, j, z, y
  <2>9. /\ i + q \in Nat /\ j + p \in Nat /\ h + (i + q) + (j + p) = n + 1
        /\ (i + j) + 1 = (i + q) + (j + p)
        /\ z + m \in Nat /\ z + m <= (i + q) + (j + p)
        /\ y + e \in Nat /\ (y + e) + (c + u) <= (i + q) + (j + p) /\ c + u <= A + x
    BY ONLY <1>1, <2>2, <2>3, <2>5, <2>6, PaidSums
  <2>10. /\ t.uncompressed_text_count = Cardinality(then)
         /\ t.uncompressed_text_bytes = Weight(rs, then)
         /\ SumFunction(t.compression_breakdown) = A + x
    BY <2>5, <2>7 DEF d, v, B
  <2>11. PaidCounted(t, rs, k)
    BY <1>6, <2>3, <2>4, <2>5, <2>6, <2>7, <2>8, <2>9, <2>10 DEF PaidCounted, V, then
  <2> QED
    BY <1>6, <2>11 DEF k
<1> QED
  BY <1>1, <1>8, <1>9

LEMMA HostsStep ==
  ASSUME NEW rs \in Seq(Inputs["resources"]), NEW n \in 0 .. Len(rs) - 1, NEW s, NEW t,
         HostsCounted(s, rs, n), Hosts(t, s, rs[n + 1])
  PROVE  HostsCounted(t, rs, n + 1)
<1> DEFINE r == rs[n + 1]
           k == n + 1
           W == Weight(rs, 1 .. n)
           V == Weight(rs, 1 .. k)
           z == r.size
           u == s.third_party_bytes
           v == s.third_party_script_bytes
<1>1. /\ z \in Nat /\ V = W + z /\ W \in Nat
      /\ r.host # Absent => r.host \in DOMAIN HostRank /\ HostRank[r.host] \in Int
  BY OneHeavier, ResourcesAre
<1>2. Hosts(t, s, r) /\ n + 1 = k
  OBVIOUS
<1>3. /\ Table(s.by_host) /\ SumFunction(s.by_host) = u
      /\ Table(s.scripts_by_host) /\ SumFunction(s.scripts_by_host) = v
      /\ u \in Nat /\ v \in Nat /\ v <= u /\ u <= W
      /\ \A h \in DOMAIN s.scripts_by_host :
           h \in DOMAIN s.by_host /\ s.scripts_by_host[h] <= s.by_host[h]
      /\ \A h \in s.hosts : h \in DOMAIN HostRank /\ HostRank[h] \in Int
      /\ DOMAIN s.by_host \subseteq s.hosts \ {Target}
      /\ Target # Absent => s.hosts \ {Target} \subseteq DOMAIN s.by_host
  BY DEF HostsCounted
<1> HIDE DEF r, k, W, V, z, u, v
<1>4. z = r.size /\ u = s.third_party_bytes /\ v = s.third_party_script_bytes
  BY DEF z, u, v
<1>5. ASSUME NEW f, Table(f), NEW x
      PROVE  /\ Table(Plus(f, x, z)) /\ SumFunction(Plus(f, x, z)) = SumFunction(f) + z
             /\ DOMAIN Plus(f, x, z) = DOMAIN f \cup {x}
             /\ \A y \in DOMAIN f : Plus(f, x, z)[y] = f[y] + (IF y = x THEN z ELSE 0)
             /\ x \notin DOMAIN f => Plus(f, x, z)[x] = z
  <2>1. /\ DOMAIN Plus(f, x, z) = DOMAIN f \cup {x}
        /\ \A y \in DOMAIN f : Plus(f, x, z)[y] = f[y] + (IF y = x THEN z ELSE 0)
        /\ x \notin DOMAIN f => Plus(f, x, z)[x] = z
    BY <1>1 DEF Plus
  <2> QED
    BY <1>1, <1>5, <2>1, PlusAdds DEF Table
<1>6. CASE ~Third(r)
  <2>1. /\ t.third_party_bytes = u /\ t.by_host = s.by_host
        /\ t.third_party_script_bytes = v /\ t.scripts_by_host = s.scripts_by_host
        /\ t.hosts = IF r.host = Absent THEN s.hosts ELSE s.hosts \cup {r.host}
    BY <1>2, <1>4, <1>6 DEF Hosts, Same
  <2>2. t.hosts \ {Target} = s.hosts \ {Target} \/ Target = Absent
    BY <1>6, <2>1 DEF Third
  <2>3. /\ \A h \in t.hosts : h \in DOMAIN HostRank /\ HostRank[h] \in Int
        /\ DOMAIN t.by_host \subseteq t.hosts \ {Target}
        /\ Target # Absent => t.hosts \ {Target} \subseteq DOMAIN t.by_host
    BY <1>1, <1>3, <2>1, <2>2
  <2>4. u <= V
    BY <1>1, <1>3
  <2>5. HostsCounted(t, rs, k)
    BY <1>3, <2>1, <2>3, <2>4 DEF HostsCounted, V
  <2> QED
    BY <1>2, <2>5 DEF k
<1>7. CASE Third(r)
  <2> DEFINE x == r.host
  <2>1. /\ x # Absent /\ x # Target /\ Target # Absent
        /\ t.third_party_bytes = u + z /\ t.by_host = Plus(s.by_host, x, z)
        /\ t.hosts = s.hosts \cup {x}
    BY <1>2, <1>4, <1>7 DEF Hosts, Third
  <2>2. /\ Table(t.by_host) /\ SumFunction(t.by_host) = u + z
        /\ DOMAIN t.by_host = DOMAIN s.by_host \cup {x}
        /\ \A y \in DOMAIN s.by_host : t.by_host[y] = s.by_host[y] + (IF y = x THEN z ELSE 0)
        /\ x \notin DOMAIN s.by_host => t.by_host[x] = z
    <3> DEFINE f == s.by_host
    <3>1. Table(f) /\ SumFunction(f) = u /\ t.by_host = Plus(f, x, z)
      BY <1>3, <2>1
    <3> HIDE DEF f, x
    <3>2. /\ Table(Plus(f, x, z)) /\ SumFunction(Plus(f, x, z)) = u + z
          /\ DOMAIN Plus(f, x, z) = DOMAIN f \cup {x}
          /\ \A y \in DOMAIN f : Plus(f, x, z)[y] = f[y] + (IF y = x THEN z ELSE 0)
          /\ x \notin DOMAIN f => Plus(f, x, z)[x] = z
      BY <1>5, <3>1
    <3> QED
      BY <3>1, <3>2 DEF f
  <2>3. \A h \in t.hosts : h \in DOMAIN HostRank /\ HostRank[h] \in Int
    BY <1>1, <1>3, <2>1
  <2>4. /\ DOMAIN t.by_host \subseteq t.hosts \ {Target}
        /\ t.hosts \ {Target} \subseteq DOMAIN t.by_host
    BY <1>3, <2>1, <2>2
  <2>5. u + z <= V /\ u + z \in Nat /\ v <= u + z /\ v + z <= u + z /\ v + z \in Nat
    BY <1>1, <1>3
  <2>6. \A h \in DOMAIN s.by_host : s.by_host[h] \in Nat
    BY <1>3 DEF Table
  <2>7. \A h \in DOMAIN s.scripts_by_host : s.scripts_by_host[h] \in Nat
    BY <1>3 DEF Table
  <2>8. CASE ~IsScript(r)
    <3>1. t.third_party_script_bytes = v /\ t.scripts_by_host = s.scripts_by_host
      BY <1>2, <1>4, <2>8 DEF Hosts, Same
    <3>2. \A h \in DOMAIN t.scripts_by_host :
            h \in DOMAIN t.by_host /\ t.scripts_by_host[h] <= t.by_host[h]
      <4> SUFFICES ASSUME NEW h \in DOMAIN s.scripts_by_host
                   PROVE  h \in DOMAIN t.by_host /\ s.scripts_by_host[h] <= t.by_host[h]
        BY <3>1
      <4>1. h \in DOMAIN s.by_host /\ s.scripts_by_host[h] <= s.by_host[h]
        BY <1>3
      <4> DEFINE a == s.by_host[h]
                 b == s.scripts_by_host[h]
                 c == t.by_host[h]
      <4>2. a \in Nat /\ b \in Nat /\ b <= a /\ z \in Nat
        BY <1>1, <2>6, <2>7, <4>1
      <4>3. h \in DOMAIN t.by_host /\ c = a + (IF h = x THEN z ELSE 0)
        BY ONLY <2>2, <4>1, Zenon
      <4> HIDE DEF a, b, c, x
      <4>4. b <= c
        BY ONLY <4>2, <4>3
      <4> QED
        BY <4>3, <4>4 DEF a, b, c
    <3>3. HostsCounted(t, rs, k)
      BY <1>3, <2>1, <2>2, <2>3, <2>4, <2>5, <3>1, <3>2 DEF HostsCounted, V
    <3> QED
      BY <1>2, <3>3 DEF k
  <2>9. CASE IsScript(r)
    <3>1. /\ t.third_party_script_bytes = v + z
          /\ t.scripts_by_host = Plus(s.scripts_by_host, x, z)
      BY <1>2, <1>4, <1>7, <2>9 DEF Hosts
    <3>2. /\ Table(t.scripts_by_host) /\ SumFunction(t.scripts_by_host) = v + z
          /\ DOMAIN t.scripts_by_host = DOMAIN s.scripts_by_host \cup {x}
          /\ \A y \in DOMAIN s.scripts_by_host :
               t.scripts_by_host[y] = s.scripts_by_host[y] + (IF y = x THEN z ELSE 0)
          /\ x \notin DOMAIN s.scripts_by_host => t.scripts_by_host[x] = z
      <4> DEFINE f == s.scripts_by_host
      <4>1. Table(f) /\ SumFunction(f) = v /\ t.scripts_by_host = Plus(f, x, z)
        BY <1>3, <3>1
      <4> HIDE DEF f, x
      <4>2. /\ Table(Plus(f, x, z)) /\ SumFunction(Plus(f, x, z)) = v + z
            /\ DOMAIN Plus(f, x, z) = DOMAIN f \cup {x}
            /\ \A y \in DOMAIN f : Plus(f, x, z)[y] = f[y] + (IF y = x THEN z ELSE 0)
            /\ x \notin DOMAIN f => Plus(f, x, z)[x] = z
        BY <1>5, <4>1
      <4> QED
        BY <4>1, <4>2 DEF f
    <3>3. \A h \in DOMAIN t.scripts_by_host :
            h \in DOMAIN t.by_host /\ t.scripts_by_host[h] <= t.by_host[h]
      <4> SUFFICES ASSUME NEW h \in DOMAIN t.scripts_by_host
                   PROVE  h \in DOMAIN t.by_host /\ t.scripts_by_host[h] <= t.by_host[h]
        OBVIOUS
      <4>1. CASE h \in DOMAIN s.scripts_by_host
        <5>1. h \in DOMAIN s.by_host /\ s.scripts_by_host[h] <= s.by_host[h]
          BY <1>3, <4>1
        <5>2. /\ t.scripts_by_host[h] = s.scripts_by_host[h] + (IF h = x THEN z ELSE 0)
              /\ t.by_host[h] = s.by_host[h] + (IF h = x THEN z ELSE 0)
          BY <2>2, <3>2, <4>1, <5>1
        <5> QED
          BY <1>1, <2>2, <2>6, <2>7, <4>1, <5>1, <5>2
      <4>2. CASE h \notin DOMAIN s.scripts_by_host
        <5>1. h = x /\ t.scripts_by_host[h] = z
          BY <3>2, <4>2
        <5>2. h \in DOMAIN s.by_host => t.by_host[h] = s.by_host[h] + z
          BY <2>2, <5>1
        <5> QED
          BY <1>1, <2>2, <2>6, <5>1, <5>2
      <4> QED
        BY <4>1, <4>2
    <3>4. HostsCounted(t, rs, k)
      BY <1>3, <2>1, <2>2, <2>3, <2>4, <2>5, <3>1, <3>2, <3>3 DEF HostsCounted, V
    <3> QED
      BY <1>2, <3>4 DEF k
  <2> QED
    BY <2>8, <2>9
<1> QED
  BY <1>6, <1>7

LEMMA LargestStep ==
  ASSUME NEW rs \in Seq(Inputs["resources"]), NEW n \in 0 .. Len(rs) - 1, NEW s, NEW t,
         LargestFound(s, rs, n), Lists(t, s, rs[n + 1])
  PROVE  LargestFound(t, rs, n + 1)
<1> DEFINE r == rs[n + 1]
           new == [url |-> r.url, size |-> r.size]
<1>1. /\ n \in Nat /\ n + 1 \in 1 .. n + 1 /\ r.size \in Nat
      /\ \A i \in 1 .. n + 1 : /\ rs[i].size \in Nat
                               /\ [url |-> rs[i].url, size |-> rs[i].size] # Absent
  BY ResourcesAre
<1>2. \A i \in 1 .. n + 1 : i \in 1 .. n \/ i = n + 1
  BY <1>1
<1>3. t.largest = IF s.largest = Absent THEN new
                  ELSE IF r.size > s.largest.size THEN new ELSE s.largest
  BY DEF Lists
<1>4. CASE n = 0
  <2>1. t.largest = new
    BY <1>3, <1>4 DEF LargestFound
  <2> QED
    BY <1>1, <1>2, <1>4, <2>1 DEF LargestFound
<1>5. CASE n > 0
  <2>1. PICK i \in 1 .. n : s.largest = [url |-> rs[i].url, size |-> rs[i].size]
    BY <1>5 DEF LargestFound
  <2>2. i \in 1 .. n + 1 /\ s.largest # Absent /\ s.largest.size = rs[i].size
        /\ rs[i].size \in Nat
    BY <1>1, <2>1
  <2>3. \A j \in 1 .. n : rs[j].size <= s.largest.size /\ rs[j].size \in Nat
    BY <1>1 DEF LargestFound
  <2>4. CASE r.size > s.largest.size
    <3>1. t.largest = new /\ new.size = r.size
      BY <1>3, <2>2, <2>4
    <3>2. \A j \in 1 .. n + 1 : rs[j].size <= r.size
      BY <1>1, <1>2, <2>2, <2>3, <2>4
    <3> QED
      BY <1>1, <1>5, <3>1, <3>2 DEF LargestFound
  <2>5. CASE ~(r.size > s.largest.size)
    <3>1. t.largest = s.largest
      BY <1>3, <2>2, <2>5
    <3>2. \A j \in 1 .. n + 1 : rs[j].size <= s.largest.size
      BY <1>1, <1>2, <2>2, <2>3, <2>5
    <3> QED
      BY <1>1, <1>5, <2>1, <2>2, <3>1, <3>2 DEF LargestFound
  <2> QED
    BY <2>4, <2>5
<1> QED
  BY <1>1, <1>4, <1>5

(* Whatever the list, the loop ends with all of it counted.                *)
LEMMA SummaryCounts ==
  ASSUME NEW rs \in Seq(Inputs["resources"])
  PROVE  LET s == Summary(rs, Target)
         IN  /\ TypesCounted(s, rs, Len(rs)) /\ PaidCounted(s, rs, Len(rs))
             /\ HostsCounted(s, rs, Len(rs)) /\ LargestFound(s, rs, Len(rs))
<1> DEFINE m == Len(rs)
           Counted(s, n) == /\ DOMAIN s = Figures
                            /\ TypesCounted(s, rs, n) /\ PaidCounted(s, rs, n)
                            /\ HostsCounted(s, rs, n) /\ LargestFound(s, rs, n)
<1>1. m \in Nat
  OBVIOUS
<1>2. PICK after : Turns(after, rs) /\ Summary(rs, Target) = after[m]
  BY <1>1, SummaryIs
<1> DEFINE P == {n \in Nat : Counted(after[n], n)}
<1>3. 0 \in P
  BY <1>2, ZeroIs DEF Turns
<1>4. ASSUME NEW n \in 0 .. m - 1, n \in P PROVE n + 1 \in P
  <2> DEFINE s == after[n]
             t == after[n + 1]
             r == rs[n + 1]
  <2>1. n \in Nat /\ n + 1 \in 1 .. m /\ (n + 1) - 1 = n /\ n + 1 \in Nat
    BY <1>1
  <2>2. t = Tally(s, r, Target)
    BY <1>2, <2>1 DEF Turns
  <2>3. Counted(s, n)
    BY <1>4
  <2> HIDE DEF s, t
  <2>4. s.third_party_bytes \in Int /\ s.third_party_script_bytes \in Int
    BY <2>3 DEF HostsCounted
  <2>5. DOMAIN t = Figures /\ Lists(t, s, r) /\ Pays(t, s, r) /\ Hosts(t, s, r)
    BY <2>2, <2>3, <2>4, TallyIs
  <2> HIDE DEF r
  <2>6. Lists(t, s, rs[n + 1]) /\ Pays(t, s, rs[n + 1]) /\ Hosts(t, s, rs[n + 1])
    BY <2>5 DEF r
  <2>7. Counted(t, n + 1)
    BY <2>3, <2>5, <2>6, TypesStep, PaidStep, HostsStep, LargestStep
  <2> QED
    BY <2>1, <2>7 DEF t
<1> HIDE DEF P
<1>5. m \in P
  <2>1. m \in 0 .. m
    BY <1>1
  <2> HIDE DEF m
  <2> QED
    BY <1>1, <1>3, <1>4, <2>1, UpToInduction
<1> QED
  BY <1>2, <1>5 DEF P

(* Every heading partitions the list.                                      *)
LEMMA HeadingsHold ==
  ASSUME NEW rs \in Seq(Inputs["resources"])
  PROVE  HeadingsAddUp(rs, Summary(rs, Target))
<1> DEFINE s == Summary(rs, Target)
<1>1. TypesCounted(s, rs, Len(rs)) /\ PaidCounted(s, rs, Len(rs))
  BY SummaryCounts
<1>2. Bytes(rs) = Weight(rs, 1 .. Len(rs))
  BY ResourcesAre
<1> HIDE DEF s
<1>3. HeadingsAddUp(rs, s)
  BY <1>1, <1>2 DEF HeadingsAddUp, TypesCounted, PaidCounted
<1> QED
  BY <1>3 DEF s

LEMMA ListCaps ==
  /\ MaxHops \in Nat /\ TopDomains \in Nat /\ TopLargest \in Nat /\ TopIssues \in Nat
  /\ TopLargest # 0
<1>1. {MaxHops, TopDomains, TopLargest, TopIssues} \subseteq Nat /\ TopLargest # 0
  BY ListsAssumption
<1> QED
  BY <1>1

(* The uncompressed files that are listed are those that are counted, but  *)
(* for the small ones.                                                     *)
LEMMA CompressionHolds ==
  ASSUME NEW rs \in Seq(Inputs["resources"])
  PROVE  CompressionAgrees(rs, Summary(rs, Target))
<1> DEFINE s == Summary(rs, Target)
           D == DOMAIN rs
           I == {i \in D : /\ ~rs[i].from_cache /\ rs[i].encoding = Absent
                           /\ IsTextCompressible(rs[i].mime)
                           /\ rs[i].size >= UncompressedFloor}
           P == Plains(rs)
           R == P \ I
           top == UncompressedText(rs)
           z == Sizes(rs)
<1>1. PaidCounted(s, rs, Len(rs))
  BY SummaryCounts
<1>2. /\ D = 1 .. Len(rs) /\ IsFiniteSet(D) /\ D \in SUBSET Nat
      /\ \A i \in D : rs[i].size \in Nat /\ z[i] = rs[i].size /\ z[i] \in Nat
  BY ResourcesAre
<1>3. I \in SUBSET P /\ P \in SUBSET D
  BY DEF Plains, Plain
<1>4. top = FirstOf(BySize(rs, I), TopIssues)
  BY Zenon DEF UncompressedText, Where
<1>5. \A i \in R : rs[i].size < UncompressedFloor /\ i \in D
  <2> SUFFICES ASSUME NEW i \in R PROVE rs[i].size < UncompressedFloor /\ i \in D
    OBVIOUS
  <2>1. i \in D /\ ~(rs[i].size >= UncompressedFloor) /\ rs[i].size \in Nat
    BY <1>2 DEF Plains, Plain
  <2> QED
    BY <2>1 DEF UncompressedFloor
<1>6. P \cap (1 .. Len(rs)) = P
  BY <1>2, <1>3
<1>7. P \cap I = I /\ P = I \cup R /\ I \cap R = {}
  BY <1>3
<1> HIDE DEF s, D, I, P, R, top, z
<1>8. IsFiniteSet(I) /\ IsFiniteSet(P) /\ IsFiniteSet(R)
  BY <1>2, <1>3, FS_Subset DEF R
<1>9. Cardinality(R) = Cardinality(P) - Cardinality(I)
  BY <1>7, <1>8, FS_Difference DEF R
<1>10. Cardinality(R) \in Nat /\ Cardinality(I) \in Nat /\ Cardinality(P) \in Nat
  BY <1>8, FS_CardinalityType
<1>11. SumFunctionOnSet(z, P) = SumFunctionOnSet(z, I) + SumFunctionOnSet(z, R)
  <2>1. /\ IsFiniteSet(I) /\ IsFiniteSet(R) /\ I \cap R = {}
        /\ \A x \in I \cup R : z[x] \in Int
    BY <1>2, <1>3, <1>7, <1>8
  <2>2. SumFunctionOnSet(z, I \cup R) = SumFunctionOnSet(z, I) + SumFunctionOnSet(z, R)
    BY ONLY <2>1, SumDisjoint
  <2> QED
    BY <1>7, <2>2
<1>12. /\ SumFunctionOnSet(z, R) \in Nat /\ SumFunctionOnSet(z, I) \in Nat
       /\ SumFunctionOnSet(z, R) <= (UncompressedFloor - 1) * Cardinality(R)
  <2>1. UncompressedFloor - 1 \in Int /\ UncompressedFloor \in Nat
    BY DEF UncompressedFloor
  <2>2. \A x \in R : z[x] \in Nat /\ z[x] \in Int /\ z[x] <= UncompressedFloor - 1
    BY <1>2, <1>5, <2>1
  <2>3. \A x \in I : z[x] \in Nat
    BY <1>2, <1>3
  <2>4. SumFunctionOnSet(z, R) <= (UncompressedFloor - 1) * Cardinality(R)
    BY <1>8, <2>1, <2>2, SumBounded
  <2>5. I \in SUBSET I /\ R \in SUBSET R
    OBVIOUS
  <2> QED
    BY <1>8, <2>2, <2>3, <2>4, <2>5, SumPart
<1>13. /\ Len(top) = IF Cardinality(I) < TopIssues THEN Cardinality(I) ELSE TopIssues
       /\ Cardinality(I) <= TopIssues => Bytes(top) = SumFunctionOnSet(z, I)
  <2>1. /\ I \in SUBSET Nat /\ IsFiniteSet(I) /\ TopIssues \in Nat
        /\ \A i \in I : rs[i].size \in Int
        /\ \A i \in I : z[i] \in Nat /\ z[i] = rs[i].size
    <3>1. \A i \in I : z[i] \in Nat /\ z[i] = rs[i].size /\ rs[i].size \in Int
      BY <1>2, <1>3
    <3>2. I \in SUBSET Nat
      BY <1>2, <1>3
    <3> QED
      BY <1>8, <3>1, <3>2, ListCaps
  <2>2. Len(FirstOf(BySize(rs, I), TopIssues))
          = IF Cardinality(I) < TopIssues THEN Cardinality(I) ELSE TopIssues
    BY ONLY <2>1, LargestAre
  <2>3. Cardinality(I) <= TopIssues
          => Bytes(FirstOf(BySize(rs, I), TopIssues)) = SumFunctionOnSet(z, I)
    BY ONLY <2>1, LargestWeigh
  <2> QED
    BY <1>4, <2>2, <2>3
<1>14. /\ s.uncompressed_text_count = Cardinality(P)
       /\ s.uncompressed_text_bytes = SumFunctionOnSet(z, P)
       /\ s.compressed_count + s.uncompressed_text_count
            <= s.connections_new + s.connections_reused
       /\ s.uncompressed_text_count <= SumFunction(s.compression_breakdown)
  <2>1. Plains(rs) \cap (1 .. Len(rs)) = P
    BY <1>6 DEF P
  <2> QED
    BY <1>1, <2>1 DEF PaidCounted, Weight, z
<1> DEFINE left_out == s.uncompressed_text_count - Len(top)
           rest == s.uncompressed_text_bytes - Bytes(top)
<1>15. left_out >= 0
  BY <1>9, <1>10, <1>13, <1>14, ListCaps
<1>16. Len(top) < TopIssues => 0 <= rest /\ rest <= left_out * (UncompressedFloor - 1)
  <2> SUFFICES ASSUME Len(top) < TopIssues
               PROVE  0 <= rest /\ rest <= left_out * (UncompressedFloor - 1)
    OBVIOUS
  <2>1. Cardinality(I) <= TopIssues /\ Len(top) = Cardinality(I)
    BY <1>10, <1>13, ListCaps
  <2>2. left_out = Cardinality(R)
    BY <1>9, <1>10, <1>14, <2>1
  <2>3. rest = SumFunctionOnSet(z, R)
    BY <1>11, <1>12, <1>13, <1>14, <2>1
  <2>4. (UncompressedFloor - 1) * Cardinality(R) = Cardinality(R) * (UncompressedFloor - 1)
    BY <1>10 DEF UncompressedFloor
  <2> HIDE DEF left_out, rest
  <2> QED
    BY <1>12, <2>2, <2>3, <2>4
<1> QED
  BY <1>14, <1>15, <1>16, Zenon DEF CompressionAgrees, s, top

(* The largest resource heads the ranking of its type, and a cache policy  *)
(* issue belongs to a resource that states a policy.                       *)
LEMMA FindingsHold ==
  ASSUME NEW rs \in Seq(Inputs["resources"]), rs # << >>
  PROVE  FindingsAgree(rs, Summary(rs, Target))
<1> DEFINE s == Summary(rs, Target)
           D == DOMAIN rs
           z == Sizes(rs)
           Of(b) == {i \in D : /\ MimeBucket(rs[i].mime) = b
                               /\ ~(rs[i].from_cache /\ rs[i].size = 0)}
           ranked == {"javascript", "css", "image", "font"}
           tops == {TopLargestOf(rs, b) : b \in ranked} \ {<< >>}
           mixed == MixedContent(rs, TRUE)
<1>1. /\ D = 1 .. Len(rs) /\ IsFiniteSet(D) /\ D \in SUBSET Nat /\ Len(rs) \in Nat
      /\ \A i \in D : rs[i].size \in Nat /\ z[i] = rs[i].size /\ z[i] \in Nat
      /\ Bytes(rs) = SumFunctionOnSet(z, D)
  BY ResourcesAre DEF Weight
<1>2. PICK l \in D : s.largest.size = rs[l].size /\ \A j \in D : rs[j].size <= rs[l].size
  <2>1. LargestFound(s, rs, Len(rs)) /\ Len(rs) > 0
    BY <1>1, SummaryCounts
  <2>2. PICK l \in 1 .. Len(rs) : s.largest = [url |-> rs[l].url, size |-> rs[l].size]
    BY <2>1 DEF LargestFound
  <2>3. s.largest.size = rs[l].size
    BY <2>2
  <2> QED
    BY <1>1, <2>1, <2>2, <2>3 DEF LargestFound
<1>3. s.cache_control_present = Cardinality(Stated(rs))
  <2>1. TypesCounted(s, rs, Len(rs))
    BY SummaryCounts
  <2>2. Stated(rs) \cap (1 .. Len(rs)) = Stated(rs)
    BY <1>1 DEF Stated
  <2> QED
    BY <2>1, <2>2 DEF TypesCounted
<1>4. \A b : TopLargestOf(rs, b) = FirstOf(BySize(rs, Of(b)), TopLargest)
  BY Zenon DEF TopLargestOf, Where
<1> HIDE DEF s
<1>5. ASSUME NEW I \in SUBSET D, NEW n \in Nat
      PROVE  LET top == FirstOf(BySize(rs, I), n)
             IN  /\ Len(top) <= Cardinality(I) /\ Cardinality(I) \in Nat
                 /\ Len(top) \in Nat /\ Bytes(top) \in Int
                 /\ top # << >> => \E i \in I : Head(top) = rs[i]
                 /\ top # << >> => \A i \in I : rs[i].size <= Head(top).size
                 /\ n > 0 /\ I # {} => top # << >>
                 /\ Bytes(top) <= SumFunctionOnSet(z, I)
  <2> DEFINE top == FirstOf(BySize(rs, I), n)
  <2>1. /\ I \in SUBSET Nat /\ IsFiniteSet(I) /\ n \in Nat
        /\ \A i \in I : rs[i].size \in Int
        /\ \A i \in I : z[i] \in Nat /\ z[i] = rs[i].size
    BY <1>1, FS_Subset
  <2> HIDE DEF z, D
  <2>2. /\ Cardinality(I) \in Nat
        /\ Len(top) = IF Cardinality(I) < n THEN Cardinality(I) ELSE n
        /\ DOMAIN top = 1 .. Len(top)
        /\ \A k \in DOMAIN top : \E i \in I : top[k] = rs[i]
        /\ Len(top) > 0 => \A i \in I : rs[i].size <= top[1].size
        /\ Bytes(top) \in Int /\ Bytes(top) <= SumFunctionOnSet(z, I)
    <3>1. /\ Cardinality(I) \in Nat
          /\ Len(top) = IF Cardinality(I) < n THEN Cardinality(I) ELSE n
          /\ DOMAIN top = 1 .. Len(top)
          /\ \A k \in DOMAIN top : \E i \in I : top[k] = rs[i]
          /\ Len(top) > 0 => \A i \in I : rs[i].size <= top[1].size
      BY ONLY <2>1, LargestAre
    <3>2. Bytes(top) \in Nat /\ Bytes(top) <= SumFunctionOnSet(z, I)
      BY ONLY <2>1, LargestWeigh
    <3> QED
      BY <3>1, <3>2
  <2>3. I # {} => Cardinality(I) > 0
    BY <2>1, <2>2, FS_EmptySet
  <2> DEFINE S == {rs[i] : i \in I}
  <2>4. \A i \in I : rs[i] \in S
    OBVIOUS
  <2> HIDE DEF S
  <2>5. top \in Seq(S)
    <3>1. \A i \in I : rs[i].size \in Int
      BY ONLY <2>1
    <3> QED
      BY <2>4, <2>1, <3>1, LargestIsList
  <2> HIDE DEF top
  <2>6. top # << >> <=> Len(top) > 0
    BY <2>5
  <2>7. Len(top) > 0 => Head(top) = top[1] /\ 1 \in DOMAIN top
    BY <2>2, <2>5
  <2>8. /\ Len(top) <= Cardinality(I) /\ Cardinality(I) \in Nat
        /\ Len(top) \in Nat /\ Bytes(top) \in Int
        /\ top # << >> => \E i \in I : Head(top) = rs[i]
        /\ top # << >> => \A i \in I : rs[i].size <= Head(top).size
        /\ n > 0 /\ I # {} => top # << >>
        /\ Bytes(top) <= SumFunctionOnSet(z, I)
    BY <2>2, <2>3, <2>6, <2>7
  <2> QED
    BY <2>8 DEF top
<1>6. ASSUME NEW top \in tops PROVE Head(top).size <= s.largest.size
  <2>1. PICK b \in ranked : top = FirstOf(BySize(rs, Of(b)), TopLargest) /\ top # << >>
    BY <1>4
  <2>2. Of(b) \in SUBSET D
    OBVIOUS
  <2>3. PICK i \in Of(b) : Head(top) = rs[i]
    BY <1>5, <2>1, <2>2, ListCaps
  <2> QED
    BY <1>2, <2>2, <2>3
<1>7. ASSUME NEW i \in D, rs[i].size = s.largest.size, rs[i].size > 0,
             MimeBucket(rs[i].mime) \in ranked
      PROVE  \E top \in tops : Head(top).size = rs[i].size
  <2> DEFINE b == MimeBucket(rs[i].mime)
             top == TopLargestOf(rs, b)
  <2>1. i \in Of(b) /\ Of(b) \in SUBSET D
    BY <1>1, <1>7
  <2>2. top = FirstOf(BySize(rs, Of(b)), TopLargest)
    BY <1>4
  <2>3. TopLargest > 0 /\ Of(b) # {}
    BY <2>1, ListCaps
  <2>4. top # << >> /\ rs[i].size <= Head(top).size
    BY <1>5, <2>1, <2>2, <2>3, ListCaps
  <2>5. top \in tops
    BY <1>7, <2>4
  <2>6. PICK j \in Of(b) : Head(top) = rs[j]
    <3>1. Of(b) \in SUBSET D /\ TopLargest \in Nat
      BY <2>1, ListCaps
    <3> HIDE DEF top, b, Of, tops
    <3> QED
      BY ONLY <1>5, <2>2, <2>4, <3>1
  <2>7. Head(top).size = rs[i].size
    <3>1. j \in D
      BY <2>1, <2>6, Zenon
    <3>2. rs[j].size <= s.largest.size /\ rs[j].size \in Nat
      BY <1>1, <1>2, <3>1
    <3>3. rs[i].size = s.largest.size /\ rs[i].size \in Nat /\ Head(top).size = rs[j].size
      BY <1>1, <1>7, <2>6, Zenon
    <3>4. rs[i].size <= Head(top).size
      BY <2>4, Zenon
    <3> HIDE DEF top, b, tops
    <3> QED
      BY ONLY <3>2, <3>3, <3>4
  <2> QED
    BY <2>5, <2>7
<1>8. Len(CachePolicyIssues(rs)) <= s.cache_control_present
  <2> DEFINE I == {i \in D : PolicyIssue(rs[i]) # Absent}
  <2>1. CachePolicyIssues(rs) = FirstOf(BySize(rs, I), TopIssues)
    BY Zenon DEF CachePolicyIssues, Where
  <2>2. I \in SUBSET Stated(rs) /\ I \in SUBSET D /\ Stated(rs) \in SUBSET D
    BY DEF PolicyIssue, Judged, Stated
  <2> HIDE DEF I, D
  <2>3. IsFiniteSet(Stated(rs))
    BY <1>1, <2>2, FS_Subset
  <2>4. Cardinality(I) <= Cardinality(Stated(rs)) /\ Cardinality(Stated(rs)) \in Nat
    BY <2>2, <2>3, FS_Subset, FS_CardinalityType
  <2>5. Len(FirstOf(BySize(rs, I), TopIssues)) <= Cardinality(I) /\ Cardinality(I) \in Nat
    BY <1>5, <2>2, ListCaps
  <2>6. Len(FirstOf(BySize(rs, I), TopIssues)) \in Nat
    BY <1>5, <2>2, ListCaps
  <2> QED
    BY <1>3, <2>1, <2>4, <2>5, <2>6
<1>9. /\ mixed.detected <=> \E i \in D : ~rs[i].https
      /\ Bytes(mixed.resources) <= Bytes(rs)
  <2> DEFINE I == {i \in D : ~rs[i].https}
             top == FirstOf(BySize(rs, I), TopDomains)
  <2>1. mixed.detected = (I # {}) /\ mixed.resources = top
    BY DEF MixedContent, Where
  <2>2. I \in SUBSET D
    OBVIOUS
  <2>3. mixed.detected <=> \E i \in D : ~rs[i].https
    BY <2>1
  <2> HIDE DEF I, mixed, D, z, top
  <2>4. Bytes(top) \in Int /\ Bytes(top) <= SumFunctionOnSet(z, I)
    BY <1>5, <2>2, ListCaps DEF top
  <2>5. SumFunctionOnSet(z, I) <= SumFunctionOnSet(z, D)
    <3>1. IsFiniteSet(D) /\ (\A x \in D : z[x] \in Nat) /\ I \in SUBSET D
      BY <1>1, <2>2
    <3> QED
      BY ONLY <3>1, SumPart
  <2>6. SumFunctionOnSet(z, I) \in Int /\ SumFunctionOnSet(z, D) \in Int
    <3>1. IsFiniteSet(D) /\ IsFiniteSet(I)
      BY <1>1, <2>2, FS_Subset
    <3>2. (\A x \in D : z[x] \in Int) /\ \A x \in I : z[x] \in Int
      BY <1>1, <2>2
    <3> QED
      BY <3>1, <3>2, SumType
  <2>7. Bytes(mixed.resources) <= Bytes(rs)
    BY <1>1, <2>1, <2>4, <2>5, <2>6
  <2> QED
    BY <2>3, <2>7
<1> QED
  BY <1>6, <1>7, <1>8, <1>9, Zenon DEF FindingsAgree, s

-----------------------------------------------------------------------------
(* Repeated URLs.                                                          *)

(* All but the largest of some resources.                                  *)
LEMMA TailWeighs ==
  ASSUME NEW rs, NEW I \in SUBSET Nat, IsFiniteSet(I), I # {},
         NEW sizes, \A i \in I : sizes[i] \in Nat /\ sizes[i] = rs[i].size
  PROVE  LET s == BySize(rs, I)
         IN  /\ Head(s).size \in Nat /\ Bytes(Tail(s)) \in Nat
             /\ SumFunctionOnSet(sizes, I) = Bytes(Tail(s)) + Head(s).size
             /\ Cardinality(I) = 1 => Bytes(Tail(s)) = 0
<1>1. PICK at \in SetToSeqs(I) : BySize(rs, I) = [k \in DOMAIN at |-> rs[at[k]]]
  <2>1. \A i \in I : rs[i].size \in Int
    OBVIOUS
  <2> QED
    BY <2>1, BySizeIs
<1>2. /\ Cardinality(I) \in Nat /\ at \in Seq(I) /\ Len(at) = Cardinality(I)
      /\ Cardinality(I) # 0
  BY RankingIsComplete, FS_EmptySet
<1> DEFINE s == BySize(rs, I)
           n == Len(s)
           S == {rs[i] : i \in I}
           g == [k \in 1 .. n |-> s[k].size]
           f == [k \in DOMAIN Tail(s) |-> Tail(s)[k].size]
           h == [k \in 1 .. n - 1 |-> k + 1]
           J == 1 .. n - 1
           H == {h[k] : k \in J}
<1>3. s \in Seq(S) /\ n = Cardinality(I) /\ n = Len(at) /\ DOMAIN s = DOMAIN at
  BY <1>1, <1>2
<1>4. n \in Nat /\ n > 0 /\ DOMAIN at = 1 .. n
  BY <1>2, <1>3
<1>5. \A k \in 1 .. n : s[k] = rs[at[k]] /\ at[k] \in I /\ s[k].size = sizes[at[k]]
  <2> SUFFICES ASSUME NEW k \in 1 .. n
               PROVE  s[k] = rs[at[k]] /\ at[k] \in I /\ s[k].size = sizes[at[k]]
    OBVIOUS
  <2>1. k \in DOMAIN at
    BY <1>4
  <2>2. s[k] = rs[at[k]]
    BY <1>1, <2>1
  <2>3. at[k] \in I
    BY <1>2, <2>1
  <2> HIDE DEF s, n
  <2> QED
    BY <2>2, <2>3
<1>6. \A k \in 1 .. n : g[k] = sizes[at[k]] /\ g[k] = s[k].size /\ g[k] \in Nat
  BY <1>5
<1> HIDE DEF s, S
<1>7. Head(s) = s[1] /\ DOMAIN Tail(s) = J /\ \A k \in J : Tail(s)[k] = s[k + 1]
  BY <1>3, <1>4
<1>8. Bytes(Tail(s)) = SumFunctionOnSet(f, J)
  BY <1>7 DEF Bytes, SumOver, SumFunction
<1>9. \A k \in J : f[k] = g[h[k]] /\ f[k] \in Nat /\ h[k] = k + 1
  <2> SUFFICES ASSUME NEW k \in J PROVE f[k] = g[h[k]] /\ f[k] \in Nat /\ h[k] = k + 1
    OBVIOUS
  <2>1. k + 1 \in 1 .. n /\ h[k] = k + 1
    BY <1>4
  <2>2. f[k] = s[k + 1].size
    BY <1>7
  <2> QED
    BY <1>6, <2>1, <2>2
<1>10. IsFiniteSet(J) /\ IsFiniteSet(1 .. n)
  <2>1. n \in Int /\ n - 1 \in Int /\ 1 \in Int
    BY <1>4
  <2> QED
    BY <2>1, FS_Interval
<1>11. H = (1 .. n) \ {1}
  <2>1. \A k \in J : h[k] \in (1 .. n) \ {1}
    BY <1>4, <1>9
  <2>2. ASSUME NEW k \in (1 .. n) \ {1} PROVE k \in H
    <3>1. k - 1 \in J /\ h[k - 1] = k
      BY <1>4
    <3> QED
      BY <3>1
  <2> HIDE DEF n, f, g, h, J
  <2> QED
    BY ONLY <2>1, <2>2, Zenon DEF H
<1> HIDE DEF n, f, g, h, H, J
<1>12. SumFunctionOnSet(f, J) = SumFunctionOnSet(g, {h[k] : k \in J})
  <2>1. /\ IsFiniteSet(J) /\ \A k \in J : f[k] = g[h[k]] /\ f[k] \in Int
        /\ \A k, l \in J : h[k] = h[l] => k = l
    BY <1>4, <1>9, <1>10 DEF J
  <2> QED
    BY ONLY <2>1, SumRenamed
<1>13. SumFunctionOnSet(f, J) = SumFunctionOnSet(g, (1 .. n) \ {1})
  BY <1>11, <1>12, Zenon DEF H
<1>14. SumFunctionOnSet(g, 1 .. n) = SumFunctionOnSet(g, (1 .. n) \ {1}) + g[1]
  <2> DEFINE K == 1 .. n
  <2>1. 1 \in K /\ IsFiniteSet(K) /\ \A k \in K : g[k] \in Int
    BY <1>4, <1>6, <1>10
  <2> HIDE DEF K
  <2>2. SumFunctionOnSet(g, K) = SumFunctionOnSet(g, K \ {1}) + g[1]
    BY ONLY <2>1, SumRemove
  <2> QED
    BY <2>2 DEF K
<1>15. SumFunctionOnSet(g, 1 .. n) = SumFunctionOnSet(sizes, I)
  <2>1. /\ IsFiniteSet(I) /\ at \in SetToSeqs(I) /\ n \in 0 .. Len(at)
        /\ \A x \in I : sizes[x] \in Int
        /\ \A k \in 1 .. n : g[k] = sizes[at[k]]
    <3>1. \A x \in I : sizes[x] \in Int
      OBVIOUS
    <3> QED
      BY <1>1, <1>3, <1>4, <1>6, <3>1
  <2>2. /\ n = Len(at) => SumFunctionOnSet(g, 1 .. n) = SumFunctionOnSet(sizes, I)
        /\ (\A x \in I : sizes[x] >= 0)
             => SumFunctionOnSet(g, 1 .. n) <= SumFunctionOnSet(sizes, I)
    BY ONLY <2>1, SumRanked
  <2> QED
    BY <1>3, <2>2
<1>16. SumFunctionOnSet(f, J) \in Nat
  <2>1. J \in SUBSET J /\ \A k \in J : f[k] \in Nat
    BY <1>9
  <2> QED
    BY <1>10, <2>1, SumPart
<1>17. Head(s).size = g[1] /\ g[1] \in Nat
  BY <1>4, <1>6, <1>7
<1>18. n = 1 => SumFunctionOnSet(f, J) = 0
  <2>1. n = 1 => J = {}
    BY DEF J
  <2> QED
    BY <2>1, SumEmpty
<1> QED
  BY <1>3, <1>8, <1>13, <1>14, <1>15, <1>16, <1>17, <1>18 DEF s

(* What repeated URLs waste is all that was loaded beyond the largest copy *)
(* of each URL.                                                            *)
LEMMA RepeatsHold == ASSUME NEW rs \in Seq(Inputs["resources"]) PROVE RepeatsAgree(rs)
<1> DEFINE D == DOMAIN rs
           z == Sizes(rs)
           K == Urls(rs)
           part == [u \in K |-> Copies(rs, u)]
           url == [i \in D |-> rs[i].url]
           weight == [u \in K |-> SumFunctionOnSet(z, part[u])]
           waste == [u \in K |-> UrlWaste(rs, u)]
           best == [u \in K |-> Head(BySize(rs, Copies(rs, u))).size]
           R == RepeatedUrls(rs)
           exact == [u \in R |-> UrlWaste(rs, u)]
<1>1. /\ IsFiniteSet(D) /\ D \in SUBSET Nat /\ Bytes(rs) = SumFunctionOnSet(z, D)
      /\ \A i \in D : z[i] \in Nat /\ z[i] \in Int /\ z[i] = rs[i].size
  BY ResourcesAre DEF Weight
<1>2. \A u \in K : \A i : i \in part[u] <=> i \in D /\ url[i] = u
  BY DEF Copies, Where
<1>3. IsFiniteSet(K)
  <2>1. K = {url[i] : i \in D}
    BY DEF Urls
  <2>2. IsFiniteSet(D)
    BY <1>1
  <2> HIDE DEF D, url, K
  <2>3. IsFiniteSet({url[i] : i \in D})
    BY ONLY <2>2, ImageFinite
  <2> QED
    BY <2>1, <2>3
<1>4. \A i \in D : url[i] \in K
  BY DEF Urls
<1>5. \A u \in K : part[u] \in SUBSET D /\ part[u] # {}
  <2> SUFFICES ASSUME NEW u \in K PROVE part[u] \in SUBSET D /\ part[u] # {}
    OBVIOUS
  <2>1. PICK i \in D : rs[i].url = u
    BY DEF Urls
  <2>2. i \in part[u]
    BY <1>2, <2>1
  <2> QED
    BY <1>2, <2>2
<1>6. \A u \in K : /\ part[u] = Copies(rs, u) /\ waste[u] = UrlWaste(rs, u)
                   /\ best[u] = Head(BySize(rs, Copies(rs, u))).size
                   /\ weight[u] = SumFunctionOnSet(z, part[u])
                   /\ waste[u] = Bytes(Tail(BySize(rs, Copies(rs, u))))
                   /\ u \in R <=> Cardinality(part[u]) >= 2
  BY DEF RepeatedUrls, UrlWaste
<1>7. /\ ExactWaste(rs) = SumFunctionOnSet(exact, R)
      /\ SumFunction(best) = SumFunctionOnSet(best, K)
      /\ R \in SUBSET K /\ \A u \in R : exact[u] = waste[u]
  BY DEF ExactWaste, SumFunction, RepeatedUrls
<1> HIDE DEF D, z, K, part, url, weight, waste, R, exact
<1>8. ASSUME NEW u \in K
      PROVE  /\ best[u] \in Nat /\ waste[u] \in Nat /\ weight[u] = waste[u] + best[u]
             /\ u \notin R => waste[u] = 0
  <2> DEFINE I == part[u]
  <2>1. I \in SUBSET Nat /\ IsFiniteSet(I) /\ I # {}
    BY <1>1, <1>5, FS_Subset
  <2>2. \A i \in I : z[i] \in Nat /\ z[i] = rs[i].size
    BY <1>1, <1>5
  <2>3. Cardinality(I) \in Nat /\ Cardinality(I) # 0
    BY <2>1, FS_CardinalityType, FS_EmptySet
  <2> HIDE DEF I, best
  <2>4. /\ Head(BySize(rs, I)).size \in Nat /\ Bytes(Tail(BySize(rs, I))) \in Nat
        /\ SumFunctionOnSet(z, I) = Bytes(Tail(BySize(rs, I))) + Head(BySize(rs, I)).size
        /\ Cardinality(I) = 1 => Bytes(Tail(BySize(rs, I))) = 0
    BY <2>1, <2>2, TailWeighs
  <2>5. /\ best[u] = Head(BySize(rs, I)).size /\ waste[u] = Bytes(Tail(BySize(rs, I)))
        /\ weight[u] = SumFunctionOnSet(z, I) /\ (u \notin R => ~(Cardinality(I) >= 2))
    BY <1>6 DEF I
  <2> QED
    BY <2>3, <2>4, <2>5
<1> HIDE DEF best
<1>9. SumFunctionOnSet(weight, K) = SumFunctionOnSet(z, D)
  <2>1. SharedOut(D, K, z, weight, url, part)
    BY <1>1, <1>2, <1>3, <1>4, <1>6 DEF SharedOut
  <2> QED
    BY <2>1, SumShares
<1>10. SumFunctionOnSet(weight, K) = SumFunctionOnSet(waste, K) + SumFunctionOnSet(best, K)
  <2>1. /\ IsFiniteSet(K)
        /\ \A u \in K : waste[u] \in Int /\ best[u] \in Int /\ weight[u] = waste[u] + best[u]
    BY <1>3, <1>8
  <2> QED
    BY ONLY <2>1, SumPlus
<1> DEFINE O == K \ R
<1>11. /\ IsFiniteSet(R) /\ IsFiniteSet(O) /\ R \cap O = {} /\ R \cup O = K
  BY <1>3, <1>7, FS_Subset
<1>12. SumFunctionOnSet(waste, R \cup O)
         = SumFunctionOnSet(waste, R) + SumFunctionOnSet(waste, O)
  <2>1. /\ IsFiniteSet(R) /\ IsFiniteSet(O) /\ R \cap O = {}
        /\ \A u \in R \cup O : waste[u] \in Int
    BY <1>8, <1>11
  <2> HIDE DEF O
  <2> QED
    BY ONLY <2>1, SumDisjoint
<1>13. SumFunctionOnSet(waste, O) = 0
  <2>1. \A u \in O : waste[u] = 0
    BY <1>8
  <2> DEFINE zero == [u \in O |-> 0]
  <2>2. \A u \in O : waste[u] \in Nat /\ waste[u] \in Int /\ waste[u] <= 0
    BY <2>1
  <2> HIDE DEF O
  <2>3. SumFunctionOnSet(waste, O) \in Nat
    <3>1. IsFiniteSet(O) /\ O \in SUBSET O /\ \A u \in O : waste[u] \in Nat
      BY <1>11, <2>2
    <3> QED
      BY ONLY <3>1, SumPart
  <2>4. SumFunctionOnSet(waste, O) <= 0 * Cardinality(O)
    <3>1. IsFiniteSet(O) /\ 0 \in Int /\ \A u \in O : waste[u] \in Int /\ waste[u] <= 0
      BY <1>11, <2>2
    <3> QED
      BY ONLY <3>1, SumBounded
  <2>5. Cardinality(O) \in Nat
    BY <1>11, FS_CardinalityType
  <2> QED
    BY <2>3, <2>4, <2>5
<1>14. SumFunctionOnSet(exact, R) = SumFunctionOnSet(waste, R)
  <2>1. IsFiniteSet(R) /\ \A u \in R : exact[u] \in Int /\ exact[u] = waste[u]
    BY <1>7, <1>8, <1>11
  <2> QED
    BY ONLY <2>1, SumAgrees
<1>15. SumFunctionOnSet(waste, R) \in Int /\ SumFunctionOnSet(best, K) \in Int
  <2>1. (\A u \in R : waste[u] \in Int) /\ \A u \in K : best[u] \in Int
    BY <1>7, <1>8
  <2> QED
    BY <1>3, <1>11, <2>1, SumType
<1> HIDE DEF O
<1>16. SumFunctionOnSet(waste, K) = SumFunctionOnSet(waste, R)
  <2>1. SumFunctionOnSet(waste, K) = SumFunctionOnSet(waste, R \cup O)
    BY <1>11
  <2> QED
    BY <1>12, <1>13, <1>15, <2>1
<1>17. ExactWaste(rs) = Bytes(rs) - SumFunction(best)
  BY <1>1, <1>7, <1>9, <1>10, <1>14, <1>15, <1>16
<1> QED
  BY <1>17, Zenon DEF RepeatsAgree, best, K

-----------------------------------------------------------------------------
(* Rankings of hosts.                                                      *)

Hosted(f) == {[host |-> h, bytes |-> f[h]] : h \in DOMAIN f}
Ranks(f) == \A h \in DOMAIN f : h \in DOMAIN HostRank /\ HostRank[h] \in Int
Heavier(a, b) == \/ a.bytes > b.bytes
                 \/ a.bytes = b.bytes /\ HostRank[a.host] < HostRank[b.host]

LEMMA HostedAre ==
  ASSUME NEW f, Table(f)
  PROVE  /\ IsFiniteSet(Hosted(f))
         /\ \A a \in Hosted(f) : a.host \in DOMAIN f /\ a.bytes = f[a.host] /\ a.bytes \in Nat
         /\ \A a, b \in Hosted(f) : a.host = b.host => a = b
<1> DEFINE r == [h \in DOMAIN f |-> [host |-> h, bytes |-> f[h]]]
<1>1. Hosted(f) = {r[h] : h \in DOMAIN f}
  BY DEF Hosted
<1>2. IsFiniteSet(DOMAIN f) /\ \A h \in DOMAIN f : f[h] \in Nat
  BY DEF Table
<1>3. \A a \in Hosted(f) : a.host \in DOMAIN f /\ a.bytes = f[a.host] /\ a.bytes \in Nat
  BY <1>2 DEF Hosted
<1>4. \A a, b \in Hosted(f) : a.host = b.host => a = b
  BY DEF Hosted
<1> HIDE DEF r
<1>5. IsFiniteSet({r[h] : h \in DOMAIN f})
  BY ONLY <1>2, ImageFinite
<1> QED
  BY <1>1, <1>3, <1>4, <1>5

(* Bytes, then the rank of the host, put the hosts in a strict order.      *)
LEMMA HostsInOrder ==
  ASSUME NEW f, Table(f), Ranks(f)
  PROVE  StrictOrder(Hosted(f), {p \in Hosted(f) \X Hosted(f) : Heavier(p[1], p[2])})
<1> DEFINE S == Hosted(f)
           R == {p \in S \X S : Heavier(p[1], p[2])}
           b == [a \in S |-> a.bytes]
           n == [a \in S |-> HostRank[a.host]]
<1>1. \A x \in S : b[x] \in Int /\ n[x] \in Int
  BY HostedAre DEF Ranks
<1>2. \A x, y \in S : x # y => n[x] # n[y]
  <2> SUFFICES ASSUME NEW x \in S, NEW y \in S, n[x] = n[y] PROVE x = y
    OBVIOUS
  <2>1. x.host \in DOMAIN HostRank /\ y.host \in DOMAIN HostRank
    BY HostedAre DEF Ranks
  <2>2. HostRank[x.host] = HostRank[y.host]
    OBVIOUS
  <2>3. x.host = y.host
    BY <2>1, <2>2, RankAssumption
  <2> QED
    BY <2>3, HostedAre
<1>3. \A x, y \in S : <<x, y>> \in R <=> b[x] > b[y] \/ (b[x] = b[y] /\ n[x] < n[y])
  BY DEF Heavier
<1> HIDE DEF S, R, b, n
<1>4. \A x \in S : <<x, x>> \notin R
  BY <1>1, <1>3
<1>5. \A x, y \in S : x # y => <<x, y>> \in R \/ <<y, x>> \in R
  BY <1>1, <1>2, <1>3
<1>6. \A x, y, z \in S : <<x, y>> \in R /\ <<y, z>> \in R => <<x, z>> \in R
  BY <1>1, <1>3
<1>7. StrictOrder(S, R)
  BY <1>4, <1>5, <1>6 DEF StrictOrder
<1> QED
  BY <1>7 DEF S, R

(* A ranking of hosts is the first of all of them, in order.               *)
LEMMA TopHostsIs ==
  ASSUME NEW f, Table(f), Ranks(f)
  PROVE  \E s \in SetToSeqs(Hosted(f)) : TopHosts(f) = FirstOf(s, TopDomains)
<1> DEFINE S == Hosted(f)
           R == {p \in S \X S : Heavier(p[1], p[2])}
           Nth(x, k) == Cardinality({y \in S : Heavier(y, x)}) = k - 1
           below == [x \in S |-> {y \in S : Heavier(y, x)}]
           s == InOrder(S, Heavier)
           V == {s[k] : k \in DOMAIN s}
<1>1. IsFiniteSet(S) /\ StrictOrder(S, R)
  BY HostedAre, HostsInOrder
<1>2. IsBelow(below, S, R)
  BY DEF IsBelow
<1>3. s = [k \in 1 .. Cardinality(S) |-> CHOOSE x \in S : Nth(x, k)]
  BY Zenon DEF InOrder
<1>4. \A x \in S, k \in 1 .. Cardinality(S) : Nth(x, k) <=> Cardinality(below[x]) = k - 1
  BY Zenon
<1>5. TopHosts(f) = FirstOf(s, TopDomains)
  BY Zenon DEF TopHosts, Hosted, InOrder, Heavier
<1> HIDE DEF Nth, below, s, R, S
<1>6. /\ DOMAIN s = 1 .. Cardinality(S) /\ s = [k \in DOMAIN s |-> s[k]]
      /\ \A k \in DOMAIN s : (\E x \in S : Cardinality(below[x]) = k - 1)
           => s[k] \in S /\ Cardinality(below[s[k]]) = k - 1
  <2>1. DOMAIN s = 1 .. Cardinality(S) /\ s = [k \in DOMAIN s |-> s[k]]
    BY <1>3
  <2>2. ASSUME NEW k \in 1 .. Cardinality(S), NEW x \in S, Cardinality(below[x]) = k - 1
        PROVE  s[k] \in S /\ Cardinality(below[s[k]]) = k - 1
    <3>1. Nth(x, k)
      BY <1>4, <2>2
    <3>2. s[k] = CHOOSE y \in S : Nth(y, k)
      BY <1>3
    <3>3. s[k] \in S /\ Nth(s[k], k)
      BY <3>1, <3>2
    <3> QED
      BY <1>4, <3>3
  <2> QED
    BY <2>1, <2>2
<1>7. s \in SetToSeqs(S)
  <2>1. /\ IsFiniteSet(S) /\ StrictOrder(S, R) /\ IsBelow(below, S, R)
        /\ s \in [1 .. Cardinality(S) -> V]
        /\ \A k \in DOMAIN s : (\E x \in S : Cardinality(below[x]) = k - 1)
             => s[k] \in S /\ Cardinality(below[s[k]]) = k - 1
    BY <1>1, <1>2, <1>6
  <2> HIDE DEF V
  <2> QED
    BY ONLY <2>1, OrderIs
<1> QED
  BY <1>5, <1>7 DEF S

(* What a ranking of hosts lists, and what that weighs.                    *)
HostBytes(hosts) == SumOver(hosts, LAMBDA d : d.bytes)

LEMMA TopHostsAre ==
  ASSUME NEW f, Table(f), Ranks(f)
  PROVE  LET top == TopHosts(f)
         IN  /\ Len(top) \in Nat /\ DOMAIN top = 1 .. Len(top)
             /\ \A i \in DOMAIN top : /\ top[i].host \in DOMAIN f
                                      /\ top[i].bytes = f[top[i].host]
             /\ Len(top) < TopDomains =>
                  \A h \in DOMAIN f : \E i \in DOMAIN top : top[i].host = h
             /\ HostBytes(top) <= SumFunction(f)
             /\ Len(top) < TopDomains => HostBytes(top) = SumFunction(f)
<1> DEFINE S == Hosted(f)
           D == DOMAIN f
           top == TopHosts(f)
           m == Len(top)
           w == [a \in S |-> a.bytes]
           g == [i \in DOMAIN top |-> top[i].bytes]
           r == [h \in D |-> [host |-> h, bytes |-> f[h]]]
<1>1. PICK s \in SetToSeqs(S) : top = FirstOf(s, TopDomains)
  BY TopHostsIs
<1>2. /\ IsFiniteSet(S)
      /\ \A a \in S : a.host \in D /\ a.bytes = f[a.host] /\ a.bytes \in Nat /\ w[a] = a.bytes
  BY HostedAre
<1>3. /\ s \in Seq(S) /\ Len(s) \in Nat /\ DOMAIN s = 1 .. Len(s)
      /\ {s[i] : i \in DOMAIN s} = S
  BY <1>2, RankingIsComplete
<1>4. IsFiniteSet(D) /\ \A h \in D : f[h] \in Nat /\ f[h] \in Int
  BY DEF Table
<1>5. \A h \in D : r[h] \in S /\ r[h].host = h /\ r[h].bytes = f[h]
  BY DEF Hosted
<1>6. S = {r[h] : h \in D}
  BY DEF Hosted
<1>7. HostBytes(top) = SumFunctionOnSet(g, DOMAIN top)
  BY DEF HostBytes, SumOver, SumFunction
<1>8. \A i \in DOMAIN top : g[i] = top[i].bytes
  OBVIOUS
<1>9. TopDomains \in Nat
  BY ListCaps
<1>10. SumFunction(f) = SumFunctionOnSet(f, D)
  BY DEF SumFunction
<1>0. HostBytes(top) = HostBytes(TopHosts(f)) /\ TopHosts(f) = top
  OBVIOUS
<1> HIDE DEF S, D, w, g, r
<1>11. /\ m = IF Len(s) < TopDomains THEN Len(s) ELSE TopDomains
       /\ m \in 0 .. Len(s) /\ DOMAIN top = 1 .. m
       /\ \A i \in 1 .. m : top[i] = s[i] /\ i \in DOMAIN s
  <2>1. s \in Seq(S) /\ TopDomains \in Nat /\ top = FirstOf(s, TopDomains)
    BY ONLY <1>1, <1>3, <1>9
  <2> HIDE DEF top
  <2>2. /\ Len(top) = IF Len(s) < TopDomains THEN Len(s) ELSE TopDomains
        /\ Len(top) \in 0 .. Len(s) /\ DOMAIN top = 1 .. Len(top)
        /\ \A i \in 1 .. Len(top) : top[i] = s[i] /\ i \in DOMAIN s
    BY ONLY <2>1, FirstOfIs
  <2> QED
    BY ONLY <2>2, Zenon DEF m
<1> HIDE DEF top, m
<1>12. m < TopDomains => m = Len(s)
  <2> DEFINE n == Len(s)
  <2>1. n \in Nat /\ TopDomains \in Nat /\ m = IF n < TopDomains THEN n ELSE TopDomains
    BY ONLY <1>3, <1>9, <1>11, Zenon
  <2> HIDE DEF n
  <2>2. m < TopDomains => m = n
    BY ONLY <2>1
  <2> QED
    BY <2>2 DEF n
<1>13. \A i \in 1 .. m : top[i] \in S /\ g[i] = w[s[i]]
  <2> SUFFICES ASSUME NEW i \in 1 .. m PROVE top[i] \in S /\ g[i] = w[s[i]]
    OBVIOUS
  <2>1. i \in DOMAIN top /\ i \in DOMAIN s /\ top[i] = s[i]
    BY ONLY <1>11, i \in 1 .. m
  <2>2. s[i] \in S
    BY ONLY <1>3, <2>1
  <2>3. g[i] = top[i].bytes
    BY ONLY <1>8, <2>1
  <2>4. w[s[i]] = s[i].bytes
    BY ONLY <1>2, <2>2
  <2> QED
    BY ONLY <2>1, <2>2, <2>3, <2>4, Zenon
<1>14. /\ m = Len(s) => SumFunctionOnSet(g, 1 .. m) = SumFunctionOnSet(w, S)
       /\ (\A x \in S : w[x] >= 0)
            => SumFunctionOnSet(g, 1 .. m) <= SumFunctionOnSet(w, S)
  <2>1. /\ IsFiniteSet(S) /\ s \in SetToSeqs(S) /\ m \in 0 .. Len(s)
        /\ \A x \in S : w[x] \in Int
        /\ \A i \in 1 .. m : g[i] = w[s[i]]
    BY <1>1, <1>2, <1>11, <1>13
  <2> QED
    BY ONLY <2>1, SumRanked
<1>15. \A x \in S : w[x] >= 0
  BY <1>2
<1>16. SumFunctionOnSet(w, S) = SumFunctionOnSet(f, D)
  <2>1. /\ IsFiniteSet(D) /\ \A h \in D : f[h] = w[r[h]] /\ f[h] \in Int
        /\ \A h, k \in D : r[h] = r[k] => h = k
    BY <1>2, <1>4, <1>5
  <2>2. SumFunctionOnSet(f, D) = SumFunctionOnSet(w, {r[h] : h \in D})
    BY ONLY <2>1, SumRenamed
  <2> QED
    BY <1>6, <2>2
<1>17. /\ HostBytes(top) <= SumFunction(f)
       /\ m < TopDomains => HostBytes(top) = SumFunction(f)
  BY <1>7, <1>10, <1>11, <1>12, <1>14, <1>15, <1>16
<1>18. m < TopDomains => \A h \in D : \E i \in 1 .. m : top[i].host = h
  <2> SUFFICES ASSUME m < TopDomains, NEW h \in D PROVE \E i \in 1 .. m : top[i].host = h
    OBVIOUS
  <2>1. PICK i \in DOMAIN s : s[i] = r[h]
    BY <1>3, <1>5
  <2>2. i \in 1 .. m /\ top[i] = s[i]
    BY <1>3, <1>11, <1>12
  <2> QED
    BY <1>5, <2>1, <2>2
<1>19. \A i \in 1 .. m : top[i].host \in D /\ top[i].bytes = f[top[i].host]
  BY <1>2, <1>13
<1>20. m \in Nat /\ DOMAIN top = 1 .. m /\ m = Len(top)
  BY <1>3, <1>11 DEF m
<1> HIDE DEF HostBytes
<1> QED
  BY <1>0, <1>17, <1>18, <1>19, <1>20 DEF D

(* Every heavy host of a list that the page does not declare is a gap.     *)
LEMMA GapsAreListed ==
  ASSUME NEW top, Len(top) \in Nat, DOMAIN top = 1 .. Len(top),
         NEW i \in DOMAIN top, top[i].bytes >= GapFloor, top[i].host \notin Declared
  PROVE  \E k \in DOMAIN HintGap(top, Declared) : HintGap(top, Declared)[k] = top[i]
<1> DEFINE I == {j \in DOMAIN top : top[j].bytes >= GapFloor /\ top[j].host \notin Declared}
           R == {p \in I \X I : p[1] < p[2]}
           Nth(x, k) == Cardinality({y \in I : FALSE \/ (~FALSE /\ y < x)}) = k - 1
           below == [x \in I |-> {y \in I : FALSE \/ (~FALSE /\ y < x)}]
           at == InOrder(I, LAMBDA x, y : FALSE \/ (~FALSE /\ x < y))
           V == {at[k] : k \in DOMAIN at}
<1>1. IsFiniteSet(I) /\ I \in SUBSET Nat
  <2>1. IsFiniteSet(1 .. Len(top))
    BY FS_Interval
  <2> QED
    BY <2>1, FS_Subset
<1>2. StrictOrder(I, R)
  BY <1>1 DEF StrictOrder
<1>3. IsBelow(below, I, R)
  BY DEF IsBelow
<1>4. at = [k \in 1 .. Cardinality(I) |-> CHOOSE x \in I : Nth(x, k)]
  BY Zenon DEF InOrder
<1>5. \A x \in I, k \in 1 .. Cardinality(I) : Nth(x, k) <=> Cardinality(below[x]) = k - 1
  BY Zenon
<1>6. HintGap(top, Declared) = [k \in DOMAIN at |-> top[at[k]]]
  BY Zenon DEF HintGap, Listed, Where
<1>7. i \in I
  OBVIOUS
<1> HIDE DEF Nth, below, at, R, I
<1>8. /\ DOMAIN at = 1 .. Cardinality(I) /\ at = [k \in DOMAIN at |-> at[k]]
      /\ \A k \in DOMAIN at : (\E x \in I : Cardinality(below[x]) = k - 1)
           => at[k] \in I /\ Cardinality(below[at[k]]) = k - 1
  <2>1. DOMAIN at = 1 .. Cardinality(I) /\ at = [k \in DOMAIN at |-> at[k]]
    BY <1>4
  <2>2. ASSUME NEW k \in 1 .. Cardinality(I), NEW x \in I, Cardinality(below[x]) = k - 1
        PROVE  at[k] \in I /\ Cardinality(below[at[k]]) = k - 1
    <3>1. Nth(x, k)
      BY <1>5, <2>2
    <3>2. at[k] = CHOOSE y \in I : Nth(y, k)
      BY <1>4
    <3>3. at[k] \in I /\ Nth(at[k], k)
      BY <3>1, <3>2
    <3> QED
      BY <1>5, <3>3
  <2> QED
    BY <2>1, <2>2
<1>9. at \in SetToSeqs(I)
  <2>1. /\ IsFiniteSet(I) /\ StrictOrder(I, R) /\ IsBelow(below, I, R)
        /\ at \in [1 .. Cardinality(I) -> V]
        /\ \A k \in DOMAIN at : (\E x \in I : Cardinality(below[x]) = k - 1)
             => at[k] \in I /\ Cardinality(below[at[k]]) = k - 1
    BY <1>1, <1>2, <1>3, <1>8
  <2> HIDE DEF V
  <2> QED
    BY ONLY <2>1, OrderIs
<1>10. PICK k \in DOMAIN at : at[k] = i
  BY <1>1, <1>7, <1>9, RankingIsComplete
<1> QED
  BY <1>6, <1>10

(* The rankings of third parties share out the third-party bytes, and a    *)
(* hint is missing only for a listed one.                                  *)
LEMMA ThirdPartiesHold ==
  ASSUME NEW rs \in Seq(Inputs["resources"])
  PROVE  ThirdPartiesAgree(rs, Summary(rs, Target))
<1> DEFINE s == Summary(rs, Target)
           top == TopHosts(s.by_host)
           scripts == TopHosts(s.scripts_by_host)
           listed(hosts) == {hosts[i].host : i \in DOMAIN hosts}
           gaps == HintGap(top, Declared)
<1>1. HostsCounted(s, rs, Len(rs))
  BY SummaryCounts
<1>2. Bytes(rs) = Weight(rs, 1 .. Len(rs))
  BY ResourcesAre
<1> HIDE DEF s
<1>3. /\ Table(s.by_host) /\ SumFunction(s.by_host) = s.third_party_bytes
      /\ Table(s.scripts_by_host)
      /\ SumFunction(s.scripts_by_host) = s.third_party_script_bytes
      /\ s.third_party_bytes \in Nat /\ s.third_party_script_bytes \in Nat
      /\ s.third_party_script_bytes <= s.third_party_bytes
      /\ s.third_party_bytes <= Bytes(rs)
      /\ \A h \in DOMAIN s.scripts_by_host :
           h \in DOMAIN s.by_host /\ s.scripts_by_host[h] <= s.by_host[h]
      /\ \A h \in s.hosts : h \in DOMAIN HostRank /\ HostRank[h] \in Int
      /\ DOMAIN s.by_host \subseteq s.hosts \ {Target}
      /\ Target # Absent => s.hosts \ {Target} \subseteq DOMAIN s.by_host
  BY <1>1, <1>2, Zenon DEF HostsCounted
<1>4. Ranks(s.by_host) /\ Ranks(s.scripts_by_host)
  BY <1>3 DEF Ranks
<1>5. /\ Len(top) \in Nat /\ DOMAIN top = 1 .. Len(top)
      /\ \A i \in DOMAIN top : /\ top[i].host \in DOMAIN s.by_host
                               /\ top[i].bytes = s.by_host[top[i].host]
      /\ Len(top) < TopDomains =>
           \A h \in DOMAIN s.by_host : \E i \in DOMAIN top : top[i].host = h
      /\ HostBytes(top) <= SumFunction(s.by_host)
      /\ Len(top) < TopDomains => HostBytes(top) = SumFunction(s.by_host)
  BY <1>3, <1>4, TopHostsAre
<1>6. /\ \A i \in DOMAIN scripts : scripts[i].host \in DOMAIN s.scripts_by_host
      /\ Len(scripts) < TopDomains => HostBytes(scripts) = SumFunction(s.scripts_by_host)
  BY <1>3, <1>4, TopHostsAre
<1> HIDE DEF top, scripts
<1>7. Target \notin listed(top) /\ listed(top) \subseteq s.hosts
  BY <1>3, <1>5
<1>8. \A h \in listed(scripts) : s.scripts_by_host[h] <= s.by_host[h]
  BY <1>3, <1>6
<1>9. ASSUME NEW h \in s.hosts \ {Target}, Target # Absent, h \notin Declared,
             s.by_host[h] >= GapFloor, Len(top) < TopDomains
      PROVE  \E i \in DOMAIN gaps : gaps[i].host = h
  <2>1. h \in DOMAIN s.by_host
    BY <1>3, <1>9
  <2>2. PICK i \in DOMAIN top : top[i].host = h
    BY <1>5, <1>9, <2>1
  <2>3. top[i].bytes >= GapFloor /\ top[i].host \notin Declared
    BY <1>5, <1>9, <2>2
  <2>4. \E k \in DOMAIN gaps : gaps[k] = top[i]
    BY <1>5, <2>3, GapsAreListed
  <2> QED
    BY <2>2, <2>4
<1>10. /\ HostBytes(top) <= s.third_party_bytes
       /\ Len(top) < TopDomains => HostBytes(top) = s.third_party_bytes
       /\ Len(scripts) < TopDomains => HostBytes(scripts) = s.third_party_script_bytes
  BY <1>3, <1>5, <1>6
<1>11. /\ SumOver(top, LAMBDA d : d.bytes) = HostBytes(top)
       /\ SumOver(scripts, LAMBDA d : d.bytes) = HostBytes(scripts)
  BY Zenon DEF HostBytes
<1> HIDE DEF HostBytes
<1>12. /\ SumOver(top, LAMBDA d : d.bytes) <= s.third_party_bytes
       /\ Len(top) < TopDomains => SumOver(top, LAMBDA d : d.bytes) = s.third_party_bytes
       /\ Len(scripts) < TopDomains
            => SumOver(scripts, LAMBDA d : d.bytes) = s.third_party_script_bytes
  BY <1>10, <1>11, Zenon
<1>13. /\ s.third_party_bytes <= Bytes(rs)
       /\ s.third_party_script_bytes <= s.third_party_bytes
  BY <1>3
<1>14. \A h \in s.hosts \ {Target} :
         /\ Target # Absent /\ h \notin Declared
         /\ s.by_host[h] >= GapFloor /\ Len(top) < TopDomains
         => \E i \in DOMAIN gaps : gaps[i].host = h
  BY <1>9
<1> QED
  BY <1>7, <1>8, <1>12, <1>13, <1>14, Zenon DEF ThirdPartiesAgree, s, top, scripts

-----------------------------------------------------------------------------
(* Chains of initiators.                                                   *)

Start(url) == [at |-> url, seen |-> {url}, depth |-> 0]
Hop(parent, w) ==
  IF w.at \notin DOMAIN parent THEN w
  ELSE IF parent[w.at] \in w.seen THEN w
  ELSE [at |-> parent[w.at], seen |-> w.seen \cup {parent[w.at]}, depth |-> w.depth + 1]
Hops(hop, parent, url) ==
  hop[0] = Start(url) /\ \A k \in 1 .. MaxHops + 1 : hop[k] = Hop(parent, hop[k - 1])

LEMMA WalkIs ==
  ASSUME NEW parent, NEW url
  PROVE  \E hop : Hops(hop, parent, url) /\ Walk(parent, url) = hop[MaxHops + 1].depth
<1> DEFINE m == MaxHops + 1
           Step(f, k) == IF k = 0 THEN Start(url) ELSE Hop(parent, f[k - 1])
           IsWalk(f) == f = [k \in 0 .. m |-> Step(f, k)]
           walk == CHOOSE f : IsWalk(f)
           P == {k \in Nat : \E f : /\ DOMAIN f = 0 .. k
                                    /\ \A n \in 0 .. k : f[n] = Step(f, n)}
<1>0. m \in Nat
  BY ListCaps
<1>1. 0 \in P
  <2> DEFINE f == [n \in 0 .. 0 |-> Start(url)]
  <2>1. DOMAIN f = 0 .. 0 /\ \A n \in 0 .. 0 : f[n] = Step(f, n)
    OBVIOUS
  <2> HIDE DEF f
  <2> QED
    BY <2>1
<1>2. ASSUME NEW k \in 0 .. m - 1, k \in P PROVE k + 1 \in P
  <2>1. k \in Nat /\ 0 .. k + 1 = (0 .. k) \cup {k + 1} /\ k + 1 \in Nat
    BY <1>0
  <2>2. PICK f : DOMAIN f = 0 .. k /\ \A n \in 0 .. k : f[n] = Step(f, n)
    BY <1>2
  <2> DEFINE g == [n \in 0 .. k + 1 |-> IF n = k + 1 THEN Hop(parent, f[k]) ELSE f[n]]
  <2>3. ASSUME NEW n \in 0 .. k + 1 PROVE g[n] = Step(g, n)
    <3>1. CASE n = k + 1
      <4>1. g[n] = Hop(parent, f[k]) /\ n # 0 /\ n - 1 = k /\ k # k + 1
        BY <2>1, <3>1
      <4>2. g[n - 1] = f[k]
        BY <2>1, <4>1
      <4> QED
        BY <3>1, <4>1, <4>2
    <3>2. CASE n # k + 1
      <4>1. n \in 0 .. k /\ g[n] = f[n]
        BY <2>1, <3>2
      <4>2. n # 0 => n - 1 \in 0 .. k /\ n - 1 # k + 1
        BY <2>1, <4>1
      <4>3. n # 0 => g[n - 1] = f[n - 1]
        BY <2>1, <4>2
      <4> HIDE DEF g
      <4> QED
        BY <2>2, <4>1, <4>3
    <3> QED
      BY <3>1, <3>2
  <2>4. DOMAIN g = 0 .. k + 1
    OBVIOUS
  <2> HIDE DEF g
  <2> QED
    BY <2>1, <2>3, <2>4
<1>3. m \in P
  <2>1. m \in 0 .. m
    BY <1>0
  <2> HIDE DEF P, m
  <2> QED
    BY <1>0, <1>1, <1>2, <2>1, UpToInduction
<1>4. PICK f : DOMAIN f = 0 .. m /\ \A n \in 0 .. m : f[n] = Step(f, n)
  BY <1>3
<1>5. IsWalk([n \in 0 .. m |-> f[n]])
  <2> DEFINE g == [n \in 0 .. m |-> f[n]]
  <2>1. ASSUME NEW n \in 0 .. m PROVE Step(f, n) = Step(g, n)
    <3>1. n # 0 => n - 1 \in 0 .. m
      BY <1>0
    <3> QED
      BY <3>1
  <2>2. g = [n \in 0 .. m |-> Step(g, n)]
    <3>1. \A n \in 0 .. m : g[n] = Step(g, n)
      BY <1>4, <2>1
    <3> QED
      BY <3>1
  <2> QED
    BY <2>2
<1>6. IsWalk(walk)
  <2> HIDE DEF IsWalk
  <2> QED
    BY <1>5
<1>7. walk[0] = Start(url) /\ \A k \in 1 .. m : walk[k] = Hop(parent, walk[k - 1])
  <2> HIDE DEF walk
  <2>1. \A k \in 0 .. m : walk[k] = Step(walk, k)
    BY <1>6
  <2> QED
    BY <1>0, <2>1
<1>8. Walk(parent, url) = walk[m].depth
  BY Zenon DEF Walk, Start, Hop
<1> HIDE DEF walk
<1> QED
  BY <1>7, <1>8 DEF Hops

(* The URLs against the initiators from a URL: in every closed set of URLs *)
(* that has the URL itself.                                                *)
Closed(parent, nodes) ==
  {S \in SUBSET nodes : \A u \in S \cap DOMAIN parent : parent[u] \in S}
Ahead(parent, nodes, url) ==
  {v \in nodes : \A S \in Closed(parent, nodes) : url \in S => v \in S}

(* What the walk has seen after k hops, and that it has stopped when it    *)
(* took fewer.                                                             *)
Walked(w, parent, nodes, url, k) ==
  /\ w.depth \in Nat /\ w.depth <= k
  /\ IsFiniteSet(w.seen) /\ Cardinality(w.seen) = w.depth + 1
  /\ w.at \in w.seen /\ url \in w.seen /\ w.seen \subseteq Ahead(parent, nodes, url)
  /\ \A u \in w.seen : u # w.at /\ u \in DOMAIN parent => parent[u] \in w.seen
  /\ w.depth < k => (w.at \in DOMAIN parent => parent[w.at] \in w.seen)

LEMMA WalkStarts ==
  ASSUME NEW parent, NEW nodes, NEW url \in nodes
  PROVE  Walked(Start(url), parent, nodes, url, 0)
<1> DEFINE w == Start(url)
<1>1. w.at = url /\ w.seen = {url} /\ w.depth = 0
  BY DEF Start
<1>2. url \in Ahead(parent, nodes, url)
  BY DEF Ahead
<1>3. IsFiniteSet({url}) /\ Cardinality({url}) = 1
  BY FS_Singleton
<1> HIDE DEF w
<1> QED
  BY <1>1, <1>2, <1>3 DEF Walked, w

LEMMA WalkGoesOn ==
  ASSUME NEW parent, NEW nodes, \A u \in DOMAIN parent : parent[u] \in nodes,
         NEW url, NEW k \in Nat, NEW w, Walked(w, parent, nodes, url, k)
  PROVE  Walked(Hop(parent, w), parent, nodes, url, k + 1)
<1>1. CASE w.at \in DOMAIN parent /\ parent[w.at] \notin w.seen
  <2> DEFINE v == Hop(parent, w)
             p == parent[w.at]
  <2>1. v.at = p /\ v.seen = w.seen \cup {p} /\ v.depth = w.depth + 1
    BY <1>1 DEF Hop
  <2>2. w.at \in Ahead(parent, nodes, url) /\ p \in nodes
    BY <1>1 DEF Walked
  <2>3. p \in Ahead(parent, nodes, url)
    BY <1>1, <2>2 DEF Ahead, Closed
  <2>4. w.depth = k
    BY <1>1 DEF Walked
  <2>5. IsFiniteSet(w.seen \cup {p}) /\ Cardinality(w.seen \cup {p}) = w.depth + 1 + 1
    <3>1. IsFiniteSet(w.seen) /\ Cardinality(w.seen) = w.depth + 1 /\ p \notin w.seen
      BY <1>1 DEF Walked
    <3> HIDE DEF p
    <3>2. /\ IsFiniteSet(w.seen \cup {p})
          /\ Cardinality(w.seen \cup {p}) = Cardinality(w.seen) + 1
      BY <3>1, FS_AddElement
    <3> QED
      BY <3>1, <3>2
  <2>6. \A u \in w.seen \cup {p} : u # p /\ u \in DOMAIN parent => parent[u] \in w.seen \cup {p}
    BY DEF Walked
  <2> HIDE DEF v
  <2>7. /\ v.depth \in Nat /\ v.depth <= k + 1
        /\ ~(v.depth < k + 1)
    BY <2>1, <2>4
  <2>8. url \in v.seen /\ v.seen \subseteq Ahead(parent, nodes, url)
    BY <2>1, <2>3 DEF Walked
  <2>9. v.at \in v.seen /\ IsFiniteSet(v.seen) /\ Cardinality(v.seen) = v.depth + 1
    BY <2>1, <2>5
  <2>10. \A u \in v.seen : u # v.at /\ u \in DOMAIN parent => parent[u] \in v.seen
    BY <2>1, <2>6
  <2>11. Walked(v, parent, nodes, url, k + 1)
    BY <2>7, <2>8, <2>9, <2>10 DEF Walked
  <2> QED
    BY <2>11 DEF v
<1>2. CASE ~(w.at \in DOMAIN parent /\ parent[w.at] \notin w.seen)
  <2>1. Hop(parent, w) = w
    BY <1>2 DEF Hop
  <2>2. w.depth \in Nat /\ w.depth <= k + 1
    BY DEF Walked
  <2>3. Walked(w, parent, nodes, url, k + 1)
    BY <1>2, <2>2 DEF Walked
  <2> QED
    BY <2>1, <2>3
<1> QED
  BY <1>1, <1>2

(* The walk is as long as the URLs ahead are many, up to one hop over the  *)
(* cap.                                                                    *)
LEMMA WalkMeasures ==
  ASSUME NEW parent, NEW nodes, IsFiniteSet(nodes),
         \A u \in DOMAIN parent : parent[u] \in nodes, NEW url \in nodes
  PROVE  LET ahead == Cardinality(Ahead(parent, nodes, url)) - 1
         IN  /\ Walk(parent, url) = IF ahead < MaxHops + 1 THEN ahead ELSE MaxHops + 1
             /\ Walk(parent, url) \in 0 .. MaxHops + 1
<1> DEFINE m == MaxHops + 1
           A == Ahead(parent, nodes, url)
<1>0. m \in Nat
  BY ListCaps
<1>1. PICK hop : Hops(hop, parent, url) /\ Walk(parent, url) = hop[m].depth
  BY WalkIs
<1> DEFINE P == {k \in Nat : Walked(hop[k], parent, nodes, url, k)}
           w == hop[m]
<1>2. 0 \in P
  BY <1>1, WalkStarts DEF Hops
<1>3. ASSUME NEW k \in 0 .. m - 1, k \in P PROVE k + 1 \in P
  <2>1. k \in Nat /\ k + 1 \in Nat /\ k + 1 \in 1 .. m /\ (k + 1) - 1 = k
    BY <1>0
  <2>2. hop[k + 1] = Hop(parent, hop[k])
    BY <1>1, <2>1 DEF Hops
  <2>3. Walked(hop[k], parent, nodes, url, k)
    BY <1>3
  <2>4. Walked(hop[k + 1], parent, nodes, url, k + 1)
    BY <2>1, <2>2, <2>3, WalkGoesOn
  <2> QED
    BY <2>1, <2>4
<1>4. Walked(w, parent, nodes, url, m)
  <2>1. m \in 0 .. m
    BY <1>0
  <2> HIDE DEF P, m
  <2>2. m \in P
    BY <1>0, <1>2, <1>3, <2>1, UpToInduction
  <2> QED
    BY <2>2 DEF P
<1>5. IsFiniteSet(A) /\ A \in SUBSET nodes /\ Cardinality(A) \in Nat
  <2>1. A \in SUBSET nodes
    BY DEF Ahead
  <2> QED
    BY <2>1, FS_Subset, FS_CardinalityType
<1> HIDE DEF w, m
<1>6. /\ w.depth \in Nat /\ w.depth <= m /\ Cardinality(w.seen) = w.depth + 1
      /\ w.seen \subseteq A
  BY <1>4 DEF Walked
<1>7. w.depth + 1 <= Cardinality(A)
  <2>1. Cardinality(w.seen) <= Cardinality(A)
    BY <1>5, <1>6, FS_Subset
  <2> QED
    BY <1>6, <2>1
<1>8. ASSUME w.depth < m PROVE Cardinality(A) = w.depth + 1
  <2>1. w.seen \in SUBSET nodes
    BY <1>5, <1>6
  <2>2. \A u \in w.seen \cap DOMAIN parent : parent[u] \in w.seen
    BY <1>4, <1>8 DEF Walked
  <2>3. w.seen \in Closed(parent, nodes) /\ url \in w.seen
    BY <1>4, <2>1, <2>2 DEF Closed, Walked
  <2>4. A \subseteq w.seen
    BY <2>3 DEF Ahead
  <2>5. A = w.seen
    BY <1>6, <2>4
  <2> QED
    BY <1>6, <2>5
<1>9. LET ahead == Cardinality(A) - 1
      IN  w.depth = IF ahead < m THEN ahead ELSE m
  <2> DEFINE c == Cardinality(A)
  <2>1. c \in Nat /\ w.depth \in Nat /\ w.depth <= m /\ w.depth + 1 <= c /\ m \in Nat
    BY <1>0, <1>5, <1>6, <1>7
  <2>2. w.depth < m => c = w.depth + 1
    BY <1>8
  <2> HIDE DEF c
  <2>3. w.depth = IF c - 1 < m THEN c - 1 ELSE m
    BY <2>1, <2>2
  <2> QED
    BY <2>3 DEF c
<1> QED
  BY <1>0, <1>1, <1>6, <1>9 DEF w, m

(* The chain is as long as the longest path of distinct URLs against the   *)
(* initiators, up to one hop over the cap.                                 *)
LEMMA ChainsHold == ASSUME NEW rs \in Seq(Inputs["resources"]) PROVE ChainsMeasured(rs)
<1> SUFFICES ASSUME WithInitiator(rs) # {} PROVE ChainsMeasured(rs)
  BY DEF ChainsMeasured
<1> DEFINE parent == Parents(rs)
           nodes == Urls(rs) \cup {parent[u] : u \in DOMAIN parent}
           ahead(u) == Cardinality(Ahead(parent, nodes, u)) - 1
           least(n) == IF n < MaxHops + 1 THEN n ELSE MaxHops + 1
           url == [i \in DOMAIN rs |-> rs[i].url]
           walk == [u \in Urls(rs) |-> Walk(parent, u)]
           depths == {walk[u] : u \in Urls(rs)}
           R == {p \in depths \X depths : p[1] <= p[2]}
<1>1. IsFiniteSet(DOMAIN rs)
  BY ResourcesAre
<1>2. /\ Urls(rs) = {url[i] : i \in DOMAIN rs}
      /\ DOMAIN parent = {url[i] : i \in Parented(rs)} /\ Parented(rs) \in SUBSET DOMAIN rs
      /\ Urls(rs) # {}
  BY DEF Urls, Parents, Parented, WithInitiator
<1>3. IsFiniteSet(Urls(rs)) /\ IsFiniteSet(DOMAIN parent)
  <2>1. IsFiniteSet(Parented(rs))
    BY <1>1, <1>2, FS_Subset
  <2> HIDE DEF url, parent
  <2>2. IsFiniteSet({url[i] : i \in DOMAIN rs})
    BY ONLY <1>1, ImageFinite
  <2>3. IsFiniteSet({url[i] : i \in Parented(rs)})
    BY ONLY <2>1, ImageFinite
  <2> QED
    BY <1>2, <2>2, <2>3
<1> HIDE DEF url, parent
<1>4. IsFiniteSet(nodes) /\ \A u \in DOMAIN parent : parent[u] \in nodes
  <2> DEFINE T == {parent[u] : u \in DOMAIN parent}
  <2>1. IsFiniteSet(T)
    BY ONLY <1>3, ImageFinite
  <2>2. IsFiniteSet(Urls(rs) \cup T)
    BY <1>3, <2>1, FS_Union
  <2> QED
    BY <2>2
<1>5. Urls(rs) \subseteq nodes
  OBVIOUS
<1> HIDE DEF nodes
<1>6. \A u \in Urls(rs) : walk[u] = least(ahead(u)) /\ walk[u] \in 0 .. MaxHops + 1
  BY <1>4, <1>5, WalkMeasures
<1>7. ChainDepth(rs) = CHOOSE d \in depths : \A e \in depths : e <= d
  BY DEF ChainDepth, parent
<1> HIDE DEF walk
<1>8. IsFiniteSet(depths) /\ depths # {} /\ depths \subseteq 0 .. MaxHops + 1
  <2>1. IsFiniteSet({walk[u] : u \in Urls(rs)})
    BY ONLY <1>3, ImageFinite
  <2>2. \A u \in Urls(rs) : walk[u] \in 0 .. MaxHops + 1 /\ walk[u] \in depths
    BY ONLY <1>6, Zenon DEF depths
  <2>3. PICK u \in Urls(rs) : TRUE
    BY <1>2
  <2>4. depths # {} /\ depths \subseteq 0 .. MaxHops + 1
    BY ONLY <2>2, <2>3, Zenon DEF depths
  <2> QED
    BY ONLY <2>1, <2>4, Zenon DEF depths
<1>9. \A d \in depths : d \in Int
  BY <1>8, ListCaps
<1> HIDE DEF least, ahead
<1>10. \E d \in depths : \A e \in depths : e <= d
  <2> HIDE DEF depths
  <2>1. \A x, y \in depths : <<x, y>> \in R <=> x <= y
    OBVIOUS
  <2> HIDE DEF R
  <2>2. \A x, y \in depths : <<x, y>> \in R \/ <<y, x>> \in R
    <3> SUFFICES ASSUME NEW x \in depths, NEW y \in depths
                 PROVE  <<x, y>> \in R \/ <<y, x>> \in R
      OBVIOUS
    <3>1. x \in Int /\ y \in Int
      BY <1>9
    <3>2. x <= y \/ y <= x
      BY ONLY <3>1
    <3> QED
      BY <2>1, <3>2
  <2>3. \A x, y, z \in depths : <<x, y>> \in R /\ <<y, z>> \in R => <<x, z>> \in R
    BY <1>9, <2>1
  <2>4. \E x \in depths : \A y \in depths : <<y, x>> \in R
    BY <1>8, <2>2, <2>3, LastExists
  <2> QED
    BY <2>1, <2>4
<1>11. ChainDepth(rs) \in depths /\ \A e \in depths : e <= ChainDepth(rs)
  <2> HIDE DEF depths
  <2> QED
    BY <1>7, <1>10
<1>12. /\ \A u \in Urls(rs) : ChainDepth(rs) >= least(ahead(u))
       /\ \E u \in Urls(rs) : ChainDepth(rs) = least(ahead(u))
  <2>1. ASSUME NEW u \in Urls(rs) PROVE ChainDepth(rs) >= least(ahead(u))
    <3>1. walk[u] \in depths /\ walk[u] = least(ahead(u))
      BY <1>6
    <3>2. walk[u] \in Int /\ ChainDepth(rs) \in Int /\ walk[u] <= ChainDepth(rs)
      BY <1>9, <1>11, <3>1
    <3> HIDE DEF depths
    <3> QED
      BY <3>1, <3>2
  <2>2. PICK u \in Urls(rs) : ChainDepth(rs) = walk[u]
    BY <1>11
  <2>3. walk[u] = least(ahead(u))
    BY <1>6
  <2> QED
    BY <2>1, <2>2, <2>3
<1> QED
  BY <1>12, Zenon DEF ChainsMeasured, Ahead, Closed, ahead, least, nodes, parent

-----------------------------------------------------------------------------
(* Images by fractions.                                                    *)

LEMMA Scaled ==
  ASSUME NEW x \in Int, NEW y \in Int, NEW c \in Int, c > 0
  PROVE  (x * c > y * c => x > y) /\ (x * c >= y * c => x >= y)
         /\ (x > y => x * c > y * c) /\ (x >= y => x * c >= y * c)
OBVIOUS

(* a/d is at least b/e, which is at least c/f.                             *)
LEMMA FractionsChain ==
  ASSUME NEW a \in Int, NEW b \in Int, NEW c \in Int,
         NEW d \in Int, NEW e \in Int, NEW f \in Int, d > 0, e > 0, f > 0,
         a * e >= b * d, b * f >= c * e
  PROVE  /\ a * f >= c * d
         /\ a * e > b * d \/ b * f > c * e => a * f > c * d
<1>1. /\ (a * e) * f >= (b * d) * f /\ (b * f) * d >= (c * e) * d
      /\ (a * e > b * d => (a * e) * f > (b * d) * f)
      /\ (b * f > c * e => (b * f) * d > (c * e) * d)
  <2>1. a * e \in Int /\ b * d \in Int /\ b * f \in Int /\ c * e \in Int
    OBVIOUS
  <2> QED
    BY <2>1, Scaled
<1>2. /\ (a * e) * f = (a * f) * e /\ (b * d) * f = (b * f) * d
      /\ (c * e) * d = (c * d) * e
  OBVIOUS
<1>3. a * f \in Int /\ c * d \in Int /\ b * d * f \in Int
  OBVIOUS
<1> DEFINE x == a * f
           y == c * d
           u == a * e
           v == b * d
           s == b * f
           t == c * e
           z == s * d
<1>4. x \in Int /\ y \in Int /\ z \in Int /\ x * e \in Int /\ y * e \in Int
  BY <1>3
<1>5. x * e >= z /\ z >= y * e /\ (u > v => x * e > z) /\ (s > t => z > y * e)
  BY <1>1, <1>2
<1>6. (x * e >= y * e => x >= y) /\ (x * e > y * e => x > y)
  BY <1>3, Scaled
<1> HIDE DEF x, y, u, v, s, t, z
<1>7. x >= y /\ (u > v \/ s > t => x > y)
  BY <1>4, <1>5, <1>6
<1> QED
  BY <1>7 DEF x, y, u, v, s, t

(* The larger fraction first, among equal ones the one that was first.     *)
LEMMA FractionsOrder ==
  ASSUME NEW I \in SUBSET Nat, NEW a, NEW b,
         \A i \in I : a[i] \in Int /\ b[i] \in Int /\ b[i] > 0, NEW R,
         \A i, j \in I : <<i, j>> \in R <=> \/ a[i] * b[j] > a[j] * b[i]
                                            \/ ~(a[j] * b[i] > a[i] * b[j]) /\ i < j
  PROVE  StrictOrder(I, R)
<1>0. \A i, j \in I : a[i] * b[j] \in Int /\ i \in Int
  OBVIOUS
<1>1. \A i \in I : <<i, i>> \notin R
  <2> SUFFICES ASSUME NEW i \in I PROVE <<i, i>> \notin R
    OBVIOUS
  <2>1. ~(a[i] * b[i] > a[i] * b[i]) /\ ~(i < i)
    BY <1>0
  <2> QED
    BY <2>1
<1>2. \A i, j \in I : i # j => <<i, j>> \in R \/ <<j, i>> \in R
  <2> SUFFICES ASSUME NEW i \in I, NEW j \in I, i # j
               PROVE  <<i, j>> \in R \/ <<j, i>> \in R
    OBVIOUS
  <2>1. i < j \/ j < i
    BY <1>0
  <2> QED
    BY <2>1
<1>3. ASSUME NEW i \in I, NEW j \in I, NEW k \in I, <<i, j>> \in R, <<j, k>> \in R
      PROVE  <<i, k>> \in R
  <2>1. /\ a[i] \in Int /\ a[j] \in Int /\ a[k] \in Int
        /\ b[i] \in Int /\ b[j] \in Int /\ b[k] \in Int
        /\ b[i] > 0 /\ b[j] > 0 /\ b[k] > 0
    OBVIOUS
  <2>2. /\ a[i] * b[j] > a[j] * b[i] \/ (a[i] * b[j] >= a[j] * b[i] /\ i < j)
        /\ a[j] * b[k] > a[k] * b[j] \/ (a[j] * b[k] >= a[k] * b[j] /\ j < k)
    <3>1. /\ a[i] * b[j] \in Int /\ a[j] * b[i] \in Int
          /\ a[j] * b[k] \in Int /\ a[k] * b[j] \in Int
      BY <1>0
    <3>2. /\ ~(a[j] * b[i] > a[i] * b[j]) => a[i] * b[j] >= a[j] * b[i]
          /\ ~(a[k] * b[j] > a[j] * b[k]) => a[j] * b[k] >= a[k] * b[j]
      BY ONLY <3>1
    <3> QED
      BY <1>3, <3>2, Zenon
  <2>3. a[i] * b[j] >= a[j] * b[i] /\ a[j] * b[k] >= a[k] * b[j]
    <3>1. /\ a[i] * b[j] \in Int /\ a[j] * b[i] \in Int
          /\ a[j] * b[k] \in Int /\ a[k] * b[j] \in Int
      BY <1>0
    <3> QED
      BY ONLY <2>2, <3>1
  <2>4. /\ a[i] * b[k] >= a[k] * b[i]
        /\ a[i] * b[j] > a[j] * b[i] \/ a[j] * b[k] > a[k] * b[j]
             => a[i] * b[k] > a[k] * b[i]
    BY ONLY <2>1, <2>3, FractionsChain
  <2>5. i < j /\ j < k => i < k
    BY <1>0
  <2>6. a[i] * b[k] > a[k] * b[i] \/ (~(a[k] * b[i] > a[i] * b[k]) /\ i < k)
    <3>1. a[i] * b[k] \in Int /\ a[k] * b[i] \in Int
      BY <1>0
    <3>2. ~(a[k] * b[i] > a[i] * b[k])
      BY ONLY <2>4, <3>1
    <3> QED
      BY <2>2, <2>4, <2>5, <3>2, Zenon
  <2> QED
    BY <2>6
<1> QED
  BY <1>1, <1>2, <1>3 DEF StrictOrder

(* How an image's areas, its ratio and the two judgements on it relate.    *)
LEMMA ImageIs ==
  ASSUME NEW x \in Inputs["images"]
  PROVE  /\ NaturalArea(x) \in Nat /\ NeededArea(x) \in Nat
         /\ WasteRatio(x)[1] \in Int /\ WasteRatio(x)[2] \in Int /\ WasteRatio(x)[2] > 0
         /\ Oversized(x) <=> Exceeds(WasteRatio(x), <<1, 2>>)
         /\ Oversized(x) => /\ NaturalArea(x) > 0 /\ NeededArea(x) > 0
                            /\ WasteRatio(x)[1] = NaturalArea(x) - NeededArea(x)
                            /\ WasteRatio(x)[2] = NaturalArea(x)
<1> DEFINE n == NaturalArea(x)
           d == NeededArea(x)
           w == WasteRatio(x)
<1>1. /\ x.natural_width \in Nat /\ x.natural_height \in Nat
      /\ x.display_width \in Nat /\ x.display_height \in Nat /\ x.dpr \in Int
  BY ImagesAssumption
<1>2. \A a, b \in Nat : a * b \in Nat
  OBVIOUS
<1>3. n \in Nat
  BY <1>1, <1>2 DEF NaturalArea
<1>4. d \in Nat
  <2>1. Dpr(x) \in Nat
    BY <1>1 DEF Dpr
  <2>2. x.display_width * Dpr(x) \in Nat
    BY <1>1, <1>2, <2>1
  <2>3. x.display_width * Dpr(x) * x.display_height \in Nat
    BY <1>1, <1>2, <2>2
  <2>4. x.display_width * Dpr(x) * x.display_height * Dpr(x) \in Nat
    BY <1>2, <2>1, <2>3
  <2> QED
    BY <2>4 DEF NeededArea
<1>5. /\ w = IF n = 0 \/ d = 0 THEN <<-1, 1>> ELSE IF d >= n THEN <<0, 1>> ELSE <<n - d, n>>
      /\ Oversized(x) <=> d > 0 /\ n > 2 * d
      /\ Exceeds(w, <<1, 2>>) <=> w[1] * 2 > 1 * w[2]
  BY DEF WasteRatio, NoRatio, Oversized, Exceeds
<1> HIDE DEF n, d, w
<1>6. CASE n = 0 \/ d = 0
  <2>1. w[1] = -1 /\ w[2] = 1
    BY <1>5, <1>6
  <2> QED
    BY <1>3, <1>4, <1>5, <1>6, <2>1 DEF n, d, w
<1>7. CASE ~(n = 0 \/ d = 0) /\ d >= n
  <2>1. w[1] = 0 /\ w[2] = 1
    BY <1>5, <1>7
  <2> QED
    BY <1>3, <1>4, <1>5, <1>7, <2>1 DEF n, d, w
<1>8. CASE ~(n = 0 \/ d = 0) /\ ~(d >= n)
  <2>1. w[1] = n - d /\ w[2] = n
    BY <1>5, <1>8
  <2> QED
    BY <1>3, <1>4, <1>5, <1>8, <2>1 DEF n, d, w
<1> QED
  BY <1>6, <1>7, <1>8

(* Sorted by waste, they are the same images.                              *)
LEMMA ByWasteIs ==
  ASSUME NEW images \in Seq(Inputs["images"])
  PROVE  \E at \in SetToSeqs(DOMAIN images) :
           ByWaste(images) = [k \in DOMAIN at |-> images[at[k]]]
<1> DEFINE I == DOMAIN images
           Before(i, j) ==
             \/ Exceeds(WasteRatio(images[i]), WasteRatio(images[j]))
             \/ ~Exceeds(WasteRatio(images[j]), WasteRatio(images[i])) /\ i < j
           R == {p \in I \X I : Before(p[1], p[2])}
           Nth(x, k) == Cardinality({y \in I : Before(y, x)}) = k - 1
           below == [x \in I |-> {y \in I : Before(y, x)}]
           at == InOrder(I, LAMBDA i, j :
                   \/ Exceeds(WasteRatio(images[i]), WasteRatio(images[j]))
                   \/ ~Exceeds(WasteRatio(images[j]), WasteRatio(images[i])) /\ i < j)
           a == [i \in I |-> WasteRatio(images[i])[1]]
           b == [i \in I |-> WasteRatio(images[i])[2]]
           V == {at[k] : k \in DOMAIN at}
<1>1. IsFiniteSet(I) /\ I \in SUBSET Nat
  <2> DEFINE n == Len(images)
  <2>1. n \in Int /\ 1 \in Int /\ I = 1 .. n
    OBVIOUS
  <2> HIDE DEF n
  <2> QED
    BY <2>1, FS_Interval
<1>2. StrictOrder(I, R)
  <2>1. \A i \in I : a[i] \in Int /\ b[i] \in Int /\ b[i] > 0
    <3>1. \A i \in I : images[i] \in Inputs["images"]
      OBVIOUS
    <3> QED
      BY <3>1, ImageIs
  <2>2. \A i, j \in I : Exceeds(WasteRatio(images[i]), WasteRatio(images[j]))
                          <=> a[i] * b[j] > a[j] * b[i]
    <3>1. \A i \in I : a[i] = WasteRatio(images[i])[1] /\ b[i] = WasteRatio(images[i])[2]
      OBVIOUS
    <3> HIDE DEF a, b
    <3> QED
      BY <3>1 DEF Exceeds
  <2>3. \A i, j \in I : <<i, j>> \in R <=> Before(i, j)
    OBVIOUS
  <2>4. \A i, j \in I : <<i, j>> \in R <=> \/ a[i] * b[j] > a[j] * b[i]
                                           \/ ~(a[j] * b[i] > a[i] * b[j]) /\ i < j
    <3> HIDE DEF R, a, b
    <3> QED
      BY <2>2, <2>3
  <2> HIDE DEF R, a, b, I
  <2> QED
    BY <1>1, <2>1, <2>4, FractionsOrder
<1>3. IsBelow(below, I, R)
  BY DEF IsBelow
<1>4. at = [k \in 1 .. Cardinality(I) |-> CHOOSE x \in I : Nth(x, k)]
  BY Zenon DEF InOrder
<1>5. \A x \in I, k \in 1 .. Cardinality(I) : Nth(x, k) <=> Cardinality(below[x]) = k - 1
  BY Zenon
<1>6. ByWaste(images) = [k \in DOMAIN at |-> images[at[k]]]
  BY Zenon DEF ByWaste, Listed
<1> HIDE DEF Nth, below, at, R, I
<1>7. /\ DOMAIN at = 1 .. Cardinality(I) /\ at = [k \in DOMAIN at |-> at[k]]
      /\ \A k \in DOMAIN at : (\E x \in I : Cardinality(below[x]) = k - 1)
           => at[k] \in I /\ Cardinality(below[at[k]]) = k - 1
  <2>1. DOMAIN at = 1 .. Cardinality(I) /\ at = [k \in DOMAIN at |-> at[k]]
    BY <1>4
  <2>2. ASSUME NEW k \in 1 .. Cardinality(I), NEW x \in I, Cardinality(below[x]) = k - 1
        PROVE  at[k] \in I /\ Cardinality(below[at[k]]) = k - 1
    <3>1. Nth(x, k)
      BY <1>5, <2>2
    <3>2. at[k] = CHOOSE y \in I : Nth(y, k)
      BY <1>4
    <3>3. at[k] \in I /\ Nth(at[k], k)
      BY <3>1, <3>2
    <3> QED
      BY <1>5, <3>3
  <2> QED
    BY <2>1, <2>2
<1>8. at \in SetToSeqs(I)
  <2>1. /\ IsFiniteSet(I) /\ StrictOrder(I, R) /\ IsBelow(below, I, R)
        /\ at \in [1 .. Cardinality(I) -> V]
        /\ \A k \in DOMAIN at : (\E x \in I : Cardinality(below[x]) = k - 1)
             => at[k] \in I /\ Cardinality(below[at[k]]) = k - 1
    BY <1>1, <1>2, <1>3, <1>7
  <2> HIDE DEF V
  <2> QED
    BY ONLY <2>1, OrderIs
<1> QED
  BY <1>6, <1>8 DEF I

(* The oversized images of a list, the most oversized first.               *)
LEMMA OversizedAre ==
  ASSUME NEW images \in Seq(Inputs["images"]),
         NEW I, I = {i \in DOMAIN images : Actionable(images[i]) /\ Oversized(images[i])}
  PROVE  \E at \in SetToSeqs(I) :
           /\ ImageAudit(images).oversized
                = FirstOf([k \in DOMAIN at |-> images[at[k]]], TopImages)
           /\ \A k, l \in DOMAIN at :
                k < l => ~Exceeds(WasteRatio(images[at[l]]), WasteRatio(images[at[k]]))
<1> DEFINE Before(i, j) == \/ ByOversize(images[i], images[j])
                           \/ ~ByOversize(images[j], images[i]) /\ i < j
           R == {p \in I \X I : Before(p[1], p[2])}
           Nth(x, k) == Cardinality({y \in I : Before(y, x)}) = k - 1
           below == [x \in I |-> {y \in I : Before(y, x)}]
           at == InOrder(I, LAMBDA i, j : \/ ByOversize(images[i], images[j])
                                          \/ ~ByOversize(images[j], images[i]) /\ i < j)
           a == [i \in I |-> NaturalArea(images[i])]
           b == [i \in I |-> NeededArea(images[i])]
           V == {at[k] : k \in DOMAIN at}
<1>1. IsFiniteSet(I) /\ I \in SUBSET Nat
  <2> DEFINE n == Len(images)
  <2>1. n \in Int /\ 1 \in Int /\ DOMAIN images = 1 .. n
    OBVIOUS
  <2> HIDE DEF n
  <2>2. IsFiniteSet(1 .. n)
    BY <2>1, FS_Interval
  <2> QED
    BY <2>1, <2>2, FS_Subset
<1>2. \A i \in I : /\ a[i] = NaturalArea(images[i]) /\ b[i] = NeededArea(images[i])
                   /\ a[i] \in Int /\ b[i] \in Int /\ a[i] > 0 /\ b[i] > 0
                   /\ WasteRatio(images[i])[1] = a[i] - b[i]
                   /\ WasteRatio(images[i])[2] = a[i]
  <2>1. \A i \in I : images[i] \in Inputs["images"] /\ Oversized(images[i])
    OBVIOUS
  <2> QED
    BY <2>1, ImageIs
<1>3. \A i, j \in I : ByOversize(images[i], images[j]) <=> a[i] * b[j] > a[j] * b[i]
  <2> HIDE DEF a, b
  <2> QED
    BY <1>2 DEF ByOversize, Exceeds
<1>4. \A i, j \in I : <<i, j>> \in R <=> \/ a[i] * b[j] > a[j] * b[i]
                                         \/ ~(a[j] * b[i] > a[i] * b[j]) /\ i < j
  <2>1. \A i, j \in I : <<i, j>> \in R <=> Before(i, j)
    OBVIOUS
  <2> HIDE DEF R, a, b
  <2> QED
    BY <1>3, <2>1
<1>5. StrictOrder(I, R)
  <2> HIDE DEF R, a, b
  <2>1. \A i \in I : a[i] \in Int /\ b[i] \in Int /\ b[i] > 0
    BY <1>2
  <2> QED
    BY <1>1, <1>4, <2>1, FractionsOrder
<1>6. IsBelow(below, I, R)
  BY DEF IsBelow
<1>7. at = [k \in 1 .. Cardinality(I) |-> CHOOSE x \in I : Nth(x, k)]
  BY Zenon DEF InOrder
<1>8. \A x \in I, k \in 1 .. Cardinality(I) : Nth(x, k) <=> Cardinality(below[x]) = k - 1
  BY Zenon
<1>9. ImageAudit(images).oversized = FirstOf([k \in DOMAIN at |-> images[at[k]]], TopImages)
  <2>1. ImageAudit(images).oversized = Worst(images, Oversized, ByOversize)
    BY DEF ImageAudit
  <2>2. Worst(images, Oversized, ByOversize)
          = FirstOf([k \in DOMAIN at |-> images[at[k]]], TopImages)
    <3>1. Where(images, LAMBDA i : Actionable(i) /\ Oversized(i)) = I
      BY DEF Where
    <3>2. Listed(images, I, ByOversize) = [k \in DOMAIN at |-> images[at[k]]]
      BY Zenon DEF Listed
    <3>3. Worst(images, Oversized, ByOversize)
            = FirstOf(Listed(images, Where(images, LAMBDA i : Actionable(i) /\ Oversized(i)),
                             ByOversize), TopImages)
      BY Zenon DEF Worst
    <3> HIDE DEF at
    <3> QED
      BY <3>1, <3>2, <3>3, Zenon
  <2> QED
    BY <2>1, <2>2
<1> HIDE DEF Nth, below, at, R, a, b, Before
<1>10. /\ DOMAIN at = 1 .. Cardinality(I) /\ at = [k \in DOMAIN at |-> at[k]]
       /\ \A k \in DOMAIN at : (\E x \in I : Cardinality(below[x]) = k - 1)
            => at[k] \in I /\ Cardinality(below[at[k]]) = k - 1
  <2>1. DOMAIN at = 1 .. Cardinality(I) /\ at = [k \in DOMAIN at |-> at[k]]
    BY <1>7
  <2>2. ASSUME NEW k \in 1 .. Cardinality(I), NEW x \in I, Cardinality(below[x]) = k - 1
        PROVE  at[k] \in I /\ Cardinality(below[at[k]]) = k - 1
    <3>1. Nth(x, k)
      BY <1>8, <2>2
    <3>2. at[k] = CHOOSE y \in I : Nth(y, k)
      BY <1>7
    <3>3. at[k] \in I /\ Nth(at[k], k)
      BY <3>1, <3>2
    <3> QED
      BY <1>8, <3>3
  <2> QED
    BY <2>1, <2>2
<1>11. at \in SetToSeqs(I) /\ \A k, l \in DOMAIN at : k < l => <<at[k], at[l]>> \in R
  <2>1. /\ IsFiniteSet(I) /\ StrictOrder(I, R) /\ IsBelow(below, I, R)
        /\ at \in [1 .. Cardinality(I) -> V]
        /\ \A k \in DOMAIN at : (\E x \in I : Cardinality(below[x]) = k - 1)
             => at[k] \in I /\ Cardinality(below[at[k]]) = k - 1
    BY <1>1, <1>5, <1>6, <1>10
  <2> HIDE DEF V
  <2> QED
    BY ONLY <2>1, OrderIs
<1>12. ASSUME NEW k \in DOMAIN at, NEW l \in DOMAIN at, k < l
       PROVE  ~Exceeds(WasteRatio(images[at[l]]), WasteRatio(images[at[k]]))
  <2> DEFINE i == at[k]
             j == at[l]
  <2>1. i \in I /\ j \in I
    BY <1>1, <1>11, RankingIsComplete
  <2>2. <<i, j>> \in R
    BY <1>11, <1>12
  <2> HIDE DEF i, j
  <2>3. a[i] \in Int /\ a[j] \in Int /\ b[i] \in Int /\ b[j] \in Int
    BY <1>2, <2>1
  <2>4. a[i] * b[j] >= a[j] * b[i]
    <3>1. a[i] * b[j] \in Int /\ a[j] * b[i] \in Int
      BY ONLY <2>3
    <3>2. a[i] * b[j] > a[j] * b[i] \/ ~(a[j] * b[i] > a[i] * b[j])
      BY <1>4, <2>1, <2>2, Zenon
    <3> QED
      BY ONLY <3>1, <3>2
  <2>5. ~((a[j] - b[j]) * a[i] > (a[i] - b[i]) * a[j])
    <3>1. /\ (a[j] - b[j]) * a[i] = a[j] * a[i] - a[i] * b[j]
          /\ (a[i] - b[i]) * a[j] = a[j] * a[i] - a[j] * b[i]
      BY ONLY <2>3
    <3>2. a[j] * a[i] \in Int /\ a[i] * b[j] \in Int /\ a[j] * b[i] \in Int
      BY ONLY <2>3
    <3> QED
      BY ONLY <2>4, <3>1, <3>2
  <2>6. Exceeds(WasteRatio(images[j]), WasteRatio(images[i]))
          <=> (a[j] - b[j]) * a[i] > (a[i] - b[i]) * a[j]
    BY <1>2, <2>1 DEF Exceeds
  <2> QED
    BY <2>5, <2>6 DEF i, j
<1> QED
  BY <1>9, <1>11, <1>12

(* The audit and the ratio judge an image alike, and no lesser offender    *)
(* goes before a worse one, for every list of images (build_image_audit).  *)
THEOREM EveryGalleryAgrees ==
  ASSUME NEW images \in Seq(Inputs["images"])
  PROVE  ImagesAgree(images)
<1> DEFINE D == DOMAIN images
           all == ByWaste(images)
           judged(x) == Actionable(x) /\ Oversized(x)
           wasteful(x) == Exceeds(WasteRatio(x), <<1, 2>>)
           I == {i \in DOMAIN all : Actionable(all[i]) /\ Oversized(all[i])}
           over == ImageAudit(all).oversized
           m == Len(over)
           n == Len(images)
<1>1. PICK at \in SetToSeqs(D) : all = [k \in DOMAIN at |-> images[at[k]]]
  BY ByWasteIs
<1>2. IsFiniteSet(D) /\ Cardinality(D) = n /\ n \in Nat /\ TopImages \in Nat
  <2>1. n \in Nat /\ D = 1 .. n /\ 1 \in Int /\ n \in Int
    OBVIOUS
  <2> HIDE DEF n
  <2>2. IsFiniteSet(1 .. n) /\ Cardinality(1 .. n) = n
    BY <2>1, FS_Interval
  <2>3. {MaxTimeout, MaxSettle, TopImages} \subseteq Nat
    BY CeilingsAssumption
  <2> QED
    BY <2>1, <2>2, <2>3
<1> HIDE DEF n
<1>3. /\ at \in Seq(D) /\ Len(at) = n /\ DOMAIN at = 1 .. n
      /\ {at[k] : k \in DOMAIN at} = D
  BY <1>2, RankingIsComplete
<1>4. \A i \in D : images[i] \in Inputs["images"]
  OBVIOUS
<1>5. /\ DOMAIN all = 1 .. n /\ \A k \in 1 .. n : all[k] = images[at[k]] /\ at[k] \in D
      /\ \A i \in D : \E k \in 1 .. n : all[k] = images[i]
  <2>1. DOMAIN all = 1 .. n /\ \A k \in 1 .. n : all[k] = images[at[k]]
    BY <1>1, <1>3
  <2> HIDE DEF all, D
  <2> QED
    BY <1>3, <2>1
<1>6. all \in Seq(Inputs["images"])
  <2>1. \A k \in 1 .. n : all[k] \in Inputs["images"]
    BY <1>4, <1>5
  <2>2. all = [k \in 1 .. n |-> images[at[k]]]
    BY <1>1, <1>3
  <2>3. \A k \in 1 .. n : images[at[k]] \in Inputs["images"]
    BY <1>4, <1>5
  <2> HIDE DEF all
  <2> QED
    BY <1>2, <2>2, <2>3
<1> HIDE DEF all
<1>7. PICK by \in SetToSeqs(I) :
        /\ over = FirstOf([k \in DOMAIN by |-> all[by[k]]], TopImages)
        /\ \A k, l \in DOMAIN by :
             k < l => ~Exceeds(WasteRatio(all[by[l]]), WasteRatio(all[by[k]]))
  BY <1>6, OversizedAre
<1>8. I \in SUBSET (1 .. n)
  BY <1>5
<1>9. \A i \in I : i \in 1 .. n /\ judged(all[i])
  BY <1>5
<1>10. \A i \in 1 .. n : judged(all[i]) => i \in I
  BY <1>5
<1> HIDE DEF I, judged
<1>11. IsFiniteSet(I) /\ Cardinality(I) <= n /\ Cardinality(I) \in Nat
  <2>1. IsFiniteSet(1 .. n) /\ Cardinality(1 .. n) = n
    <3>1. 1 \in Int /\ n \in Int
      BY <1>2
    <3> QED
      BY <1>2, <3>1, FS_Interval
  <2> QED
    BY <1>8, <2>1, FS_Subset, FS_CardinalityType
<1>12. /\ by \in Seq(I) /\ Len(by) = Cardinality(I) /\ DOMAIN by = 1 .. Len(by)
       /\ {by[k] : k \in DOMAIN by} = I
  BY <1>11, RankingIsComplete
<1> DEFINE s == [k \in DOMAIN by |-> all[by[k]]]
           S == {all[i] : i \in I}
<1>13. s \in Seq(S) /\ Len(s) = Len(by) /\ DOMAIN s = DOMAIN by
  BY <1>12
<1>14. \A k \in DOMAIN by : s[k] = all[by[k]] /\ by[k] \in I
  BY <1>12
<1>15. over = FirstOf(s, TopImages)
  BY <1>7
<1> HIDE DEF over, s, S
<1>16. /\ m = IF Len(s) < TopImages THEN Len(s) ELSE TopImages
       /\ m \in 0 .. Len(s) /\ DOMAIN over = 1 .. m
       /\ \A i \in 1 .. m : over[i] = s[i] /\ i \in DOMAIN s
  BY <1>2, <1>13, <1>15, FirstOfIs
<1> HIDE DEF m
<1>17. \A i \in DOMAIN over : /\ i \in DOMAIN by /\ by[i] \in I /\ over[i] = all[by[i]]
                              /\ i \in Nat
  <2> SUFFICES ASSUME NEW i \in DOMAIN over
               PROVE  /\ i \in DOMAIN by /\ by[i] \in I /\ over[i] = all[by[i]]
                      /\ i \in Nat
    OBVIOUS
  <2>1. i \in 1 .. m /\ over[i] = s[i] /\ i \in DOMAIN s
    BY <1>16
  <2>2. i \in Nat
    BY <1>16, <2>1
  <2> QED
    BY <1>13, <1>14, <2>1, <2>2
<1>18. n <= TopImages => DOMAIN over = DOMAIN by
  <2> DEFINE c == Len(by)
  <2>1. /\ c \in Nat /\ c <= n /\ n \in Nat /\ TopImages \in Nat
        /\ m = IF c < TopImages THEN c ELSE TopImages
    BY <1>2, <1>11, <1>12, <1>13, <1>16
  <2> HIDE DEF c
  <2>2. n <= TopImages => m = c
    BY ONLY <2>1
  <2> QED
    BY <1>12, <1>16, <2>2 DEF c
<1>19. \A i \in D : Oversized(images[i]) <=> wasteful(images[i])
  BY <1>4, ImageIs
<1> HIDE DEF D, wasteful
<1> DEFINE listed == {over[i] : i \in DOMAIN over}
           due == {images[i] : i \in {j \in D : Actionable(images[j]) /\ wasteful(images[j])}}
<1>20. ASSUME n <= TopImages PROVE listed = due
  <2>1. ASSUME NEW i \in DOMAIN over PROVE over[i] \in due
    <3>1. by[i] \in 1 .. n /\ judged(all[by[i]]) /\ over[i] = all[by[i]]
      BY <1>9, <1>17
    <3>2. all[by[i]] = images[at[by[i]]] /\ at[by[i]] \in D
      BY <1>5, <3>1
    <3>3. Actionable(images[at[by[i]]]) /\ wasteful(images[at[by[i]]])
      BY <1>19, <3>1, <3>2 DEF judged
    <3> QED
      BY <3>1, <3>2, <3>3
  <2>2. ASSUME NEW j \in D, Actionable(images[j]), wasteful(images[j])
        PROVE  images[j] \in listed
    <3>1. PICK k \in 1 .. n : all[k] = images[j]
      BY <1>5
    <3>2. judged(all[k])
      BY <1>19, <2>2, <3>1 DEF judged
    <3>3. k \in I
      BY <1>10, <3>2
    <3>4. PICK i \in DOMAIN by : by[i] = k
      BY <1>12, <3>3
    <3>5. i \in DOMAIN over
      BY <1>18, <1>20, <3>4
    <3> QED
      BY <1>17, <3>1, <3>4, <3>5
  <2> QED
    BY <2>1, <2>2
<1>21. \A i, j \in DOMAIN over :
         i < j => ~Exceeds(WasteRatio(over[j]), WasteRatio(over[i]))
  BY <1>7, <1>17
<1> QED
  BY <1>20, <1>21, Zenon DEF ImagesAgree, all, over, n, D, wasteful

-----------------------------------------------------------------------------
(* The report.                                                             *)

(* What the summary of a list of resources says under one heading agrees   *)
(* with what it says under the others and with the lists that are derived  *)
(* apart, for every list (build_resource_summary, ...).                    *)
THEOREM EverySummaryAgrees ==
  ASSUME NEW rs \in Seq(Inputs["resources"])
  PROVE  SummaryAgrees(rs)
<1> DEFINE s == Summary(rs, Target)
<1> SUFFICES ASSUME rs # << >>
             PROVE  /\ HeadingsAddUp(rs, s) /\ CompressionAgrees(rs, s)
                    /\ ThirdPartiesAgree(rs, s) /\ FindingsAgree(rs, s)
                    /\ RepeatsAgree(rs) /\ ChainsMeasured(rs)
  BY DEF SummaryAgrees
<1>1. HeadingsAddUp(rs, s)
  BY HeadingsHold
<1>2. CompressionAgrees(rs, s)
  BY CompressionHolds
<1>3. ThirdPartiesAgree(rs, s)
  BY ThirdPartiesHold
<1>4. FindingsAgree(rs, s)
  BY FindingsHold
<1>5. RepeatsAgree(rs)
  BY RepeatsHold
<1>6. ChainsMeasured(rs)
  BY ChainsHold
<1> QED
  BY <1>1, <1>2, <1>3, <1>4, <1>5, <1>6

(* Whatever inputs of whatever kind come, and whenever the report is taken *)
(* of them, the parts that are computed apart agree with each other.       *)
THEOREM ReportIsConsistent == Spec => []ReportAgrees
<1>1. Given /\ QueriesAgree => ReportAgrees
  <2> SUFFICES ASSUME Given, QueriesAgree PROVE ReportAgrees
    OBVIOUS
  <2>1. kind = "resources" => SummaryAgrees(inputs)
    BY EverySummaryAgrees DEF Given
  <2>2. kind = "images" => ImagesAgree(inputs)
    BY EveryGalleryAgrees DEF Given
  <2>3. kind = "cookies" => CookiesAgree(inputs)
    BY EveryJarAgrees DEF Given
  <2>4. kind = "csp" => PoliciesAgree(inputs)
    BY EveryPolicyAgrees DEF Given
  <2>5. ASSUME kind = "timing", NEW i \in DOMAIN inputs PROVE TimingsAgree(inputs[i])
    BY <2>5, TimingsAssumption, EveryTimingAgrees DEF Given
  <2> QED
    BY <2>1, <2>2, <2>3, <2>4, <2>5 DEF ReportAgrees
<1> QED
  BY AlwaysGiven, QueriesHold, <1>1, PTL

-----------------------------------------------------------------------------
(* The coverage of a script.                                               *)

(* A byte of a script is used exactly when the innermost range around it   *)
(* was run, and no stylesheet uses more than it has, for every list of     *)
(* ranges that nest (compute_js_coverage, compute_css_coverage).           *)
LEMMA EveryScriptCovered ==
  ASSUME NEW rs, Spans(rs), Nesting(rs)
  PROVE  CoverageAgrees(rs)
<1> DEFINE size(i) == rs[i].end - rs[i].start
           around(b) == {i \in DOMAIN rs : rs[i].start <= b /\ b < rs[i].end}
           innermost(b) == CHOOSE i \in around(b) : \A j \in around(b) :
                             \/ size(i) < size(j)
                             \/ size(i) = size(j) /\ i >= j
           ends == {0} \cup {rs[i].end : i \in {j \in DOMAIN rs : size(j) > 0}}
           end == CHOOSE n \in ends : \A m \in ends : m <= n
           used == {b \in 0 .. end - 1 : around(b) # {} /\ rs[innermost(b)].count > 0}
           pts == InOrder(Points(rs), SweepsBefore)
           n == Len(pts)
           L == Live(rs)
           s == Starts(rs)
           e == Ends(rs)
           ct == RunsOf(rs)
           at == Offsets(pts)
           C == Closes(pts)
           X == Lit(L, s, e, ct)
<1>1. /\ \A i \in L : s[i] \in Nat /\ e[i] \in Nat /\ ct[i] \in Int
      /\ \A i \in L : s[i] = rs[i].start /\ e[i] = rs[i].end /\ ct[i] = rs[i].count
  <2>1. \A i \in L : s[i] \in Nat /\ e[i] \in Nat /\ ct[i] \in Int
    BY PointsAre
  <2>2. \A i \in L : s[i] = rs[i].start /\ e[i] = rs[i].end /\ ct[i] = rs[i].count
    BY Zenon DEF Starts, Ends, RunsOf
  <2> QED
    BY ONLY <2>1, <2>2
<1>2. ends = {0} \cup {e[i] : i \in L}
  <2>1. ends = {0} \cup {rs[i].end : i \in L}
    BY Zenon DEF Live
  <2> HIDE DEF ends, L, e
  <2> QED
    BY ONLY <1>1, <2>1
<1>3. ASSUME NEW m \in Nat, m \in ends, \A x \in ends : x <= m
      PROVE  end = m
  <2> HIDE DEF L, e
  <2>1. \A x \in ends : x \in Int
    BY ONLY <1>1, <1>2
  <2> HIDE DEF ends
  <2>2. end \in ends /\ \A x \in ends : x <= end
    <3>1. \E n_1 \in ends : \A x \in ends : x <= n_1
      BY ONLY <1>3
    <3> QED
      BY ONLY <3>1, Zenon
  <2> HIDE DEF end
  <2>3. end <= m /\ m <= end /\ end \in Int /\ m \in Int
    BY ONLY <1>3, <2>1, <2>2
  <2> QED
    BY ONLY <2>3
<1>4. \A b \in Nat : around(b) = Around(L, s, e, b)
  <2> SUFFICES ASSUME NEW b \in Nat PROVE around(b) = Around(L, s, e, b)
    OBVIOUS
  <2>1. ASSUME NEW i \in around(b) PROVE i \in Around(L, s, e, b)
    <3>1. /\ i \in DOMAIN rs /\ rs[i].start \in Nat /\ rs[i].end \in Nat
          /\ rs[i].start <= b /\ b < rs[i].end
      BY <2>1 DEF Spans
    <3>2. rs[i].end - rs[i].start > 0
      BY ONLY <3>1, b \in Nat
    <3>3. i \in L
      BY <3>1, <3>2 DEF Live
    <3> HIDE DEF L, s, e
    <3> QED
      BY <1>1, <3>1, <3>3 DEF Around
  <2>2. ASSUME NEW i \in Around(L, s, e, b) PROVE i \in around(b)
    <3>1. i \in L /\ s[i] <= b /\ b < e[i]
      BY DEF Around
    <3>2. i \in DOMAIN rs
      BY <3>1 DEF Live
    <3> HIDE DEF L, s, e
    <3> QED
      BY <1>1, <3>1, <3>2
  <2> HIDE DEF around
  <2> QED
    BY <2>1, <2>2
<1>5. \A b \in Nat : b \in X <=> around(b) # {} /\ rs[innermost(b)].count > 0
  <2> SUFFICES ASSUME NEW b \in Nat
               PROVE  b \in X <=> around(b) # {} /\ rs[innermost(b)].count > 0
    OBVIOUS
  <2> DEFINE U == Around(L, s, e, b)
  <2>1. around(b) = U /\ \A i \in U : i \in L
    BY <1>4 DEF Around
  <2>2. innermost(b) = Innermost(U, s, e)
    <3>1. \A i \in U : s[i] = rs[i].start /\ e[i] = rs[i].end
      BY <1>1, <2>1
    <3> DEFINE V == around(b)
    <3>2. \A i \in V : s[i] = rs[i].start /\ e[i] = rs[i].end
      BY ONLY <2>1, <3>1
    <3>3. Innermost(V, s, e) = innermost(b)
      <4>1. innermost(b) = CHOOSE i \in V : \A j \in V :
              \/ rs[i].end - rs[i].start < rs[j].end - rs[j].start
              \/ rs[i].end - rs[i].start = rs[j].end - rs[j].start /\ i >= j
        BY Zenon
      <4> HIDE DEF innermost, V, s, e
      <4> QED
        BY ONLY <3>2, <4>1, InnermostIs, Zenon
    <3> HIDE DEF innermost, U, s, e
    <3> QED
      BY ONLY <2>1, <3>3
  <2> DEFINE t == Innermost(U, s, e)
  <2>3. b \in X <=> U # {} /\ ct[t] > 0
    BY Zenon DEF Lit
  <2> HIDE DEF innermost, around, X
  <2>4. ASSUME U # {} PROVE ct[t] = rs[t].count
    <3>1. t \in U
      <4>1. Len(rs) \in Nat /\ U \in SUBSET (1 .. Len(rs)) /\ U # {}
        BY <2>1, <2>4 DEF Live, Spans
      <4>2. \A i \in U : s[i] \in Nat /\ e[i] \in Nat /\ s[i] < e[i]
        BY <2>1, PointsAre
      <4> HIDE DEF U, s, e
      <4> QED
        BY ONLY <4>1, <4>2, InnermostExists
    <3> HIDE DEF t, U
    <3> QED
      BY <1>1, <2>1, <3>1
  <2> HIDE DEF t, U
  <2> QED
    BY <2>1, <2>2, <2>3, <2>4 DEF t
<1>6. end \in Nat => used = Below(X, end)
  <2> SUFFICES ASSUME end \in Nat PROVE used = Below(X, end)
    OBVIOUS
  <2>1. X \in SUBSET Nat
    BY DEF Lit
  <2> HIDE DEF X, end, around, innermost
  <2>2. \A b : b \in 0 .. end - 1 <=> b \in Nat /\ b < end
    OBVIOUS
  <2> QED
    BY <1>5, <2>1, <2>2 DEF Below
<1>7. /\ n \in Nat /\ DOMAIN pts = 1 .. n
      /\ \A k \in 1 .. n : pts[k].at \in Int /\ pts[k].count \in Int
      /\ \E o, c : /\ Swept(L, s, e, n, at, C, o, c)
                   /\ OpenedOutwards(L, s, e, o)
                   /\ \A i \in L : pts[o[i]].count = ct[i]
  BY PointsSwept
<1>8. PICK o, c : /\ Swept(L, s, e, n, at, C, o, c)
                  /\ OpenedOutwards(L, s, e, o)
                  /\ \A i \in L : pts[o[i]].count = ct[i]
  BY ONLY <1>7, Zenon
<1>9. JsCoverage(rs) = IF pts = << >> THEN [used |-> 0, total |-> 0]
                       ELSE [used |-> Sweep([used |-> 0, last |-> pts[1].at, stack |-> << >>],
                                            pts).used,
                             total |-> Longest(pts)]
  BY Zenon DEF JsCoverage, Sweep, Longest
<1>10. pts = << >> <=> n = 0
  <2>1. pts \in Seq(Points(rs))
    <3>1. pts \in SetToSeqs(Points(rs)) /\ IsFiniteSet(Points(rs))
      BY PointsOrdered, PointsAre
    <3> HIDE DEF pts
    <3> QED
      BY ONLY <3>1, RankingIsComplete
  <2> HIDE DEF pts
  <2> QED
    BY ONLY <2>1
<1>11. \A k \in 1 .. n : pts[k].at = at[k] /\ (pts[k].close <=> k \in C)
  <2> HIDE DEF pts
  <2> QED
    BY DEF Offsets, Closes
<1> HIDE DEF pts, n, L, s, e, ct, at, C, X, used, end, ends, around, innermost, size
<1>12. Labelled(pts, L, n, at, C, o, ct)
  <2>1. \A k \in 1 .. n : pts[k].at = at[k] /\ pts[k].count \in Int /\ (pts[k].close <=> k \in C)
    BY ONLY <1>7, <1>11
  <2>2. \A i \in L : ct[i] \in Int /\ pts[o[i]].count = ct[i]
    BY ONLY <1>1, <1>8
  <2>3. DOMAIN pts = 1 .. n
    BY ONLY <1>7
  <2> QED
    BY ONLY <2>1, <2>2, <2>3, Zenon DEF Labelled
<1>13. ASSUME n = 0
       PROVE  JsCoverage(rs) = [used |-> Cardinality(used), total |-> end] /\ end \in Nat
  <2>1. L = {}
    <3>1. \A i \in L : o[i] \in 1 .. n
      BY ONLY <1>8, SweptIs
    <3> QED
      BY ONLY <1>13, <3>1
  <2>2. end = 0
    <3>1. 0 \in Nat /\ 0 \in ends /\ \A x \in ends : x <= 0
      BY ONLY <1>2, <2>1
    <3> QED
      BY ONLY <1>3, <3>1
  <2>3. used = {}
    <3>1. used = Below(X, 0) /\ X \in SUBSET Nat
      BY <1>6, <2>2 DEF X, Lit
    <3>2. \A b \in X : ~ b < 0
      BY ONLY <3>1
    <3> QED
      BY ONLY <3>1, <3>2 DEF Below
  <2>4. Cardinality(used) = 0
    BY ONLY <2>3, FS_EmptySet
  <2> QED
    BY ONLY <1>9, <1>10, <1>13, <2>2, <2>4
<1>14. ASSUME n # 0
       PROVE  JsCoverage(rs) = [used |-> Cardinality(used), total |-> end] /\ end \in Nat
  <2>1. /\ Longest(pts) = at[n] /\ at[n] \in Nat
        /\ \E i \in L : e[i] = at[n]
        /\ \A i \in L : e[i] <= at[n]
    BY ONLY <1>8, <1>14, <1>12, SweepEnds
  <2>2. end = at[n]
    <3>1. at[n] \in Nat /\ at[n] \in ends /\ \A x \in ends : x <= at[n]
      BY ONLY <1>2, <2>1
    <3> QED
      BY ONLY <1>3, <3>1
  <2>3. Sweep([used |-> 0, last |-> pts[1].at, stack |-> << >>], pts).used
          = Cardinality(Below(X, at[n]))
    <3>1. Sweep([used |-> 0, last |-> pts[1].at, stack |-> << >>], pts).used
            = Cardinality(Below(Lit(L, s, e, ct), at[n]))
      BY ONLY <1>8, <1>14, <1>12, SweepCounts
    <3> QED
      BY ONLY <3>1 DEF X
  <2>4. used = Below(X, at[n])
    BY ONLY <1>6, <2>1, <2>2
  <2> QED
    BY ONLY <1>9, <1>10, <1>14, <2>1, <2>2, <2>3, <2>4
<1>15. JsCoverage(rs) = [used |-> Cardinality(used), total |-> end] /\ end \in Nat
  BY ONLY <1>13, <1>14
<1>16. CssCoverage(rs, end).used <= end
  <2> DEFINE share == [i \in DOMAIN rs |->
                        IF rs[i].count > 0 THEN AtLeast0(rs[i].end - rs[i].start) ELSE 0]
             sum == SumOver(rs, LAMBDA r : IF r.count > 0 THEN AtLeast0(r.end - r.start) ELSE 0)
  <2>1. sum = SumFunctionOnSet(share, DOMAIN rs)
    BY DEF SumOver, SumFunction
  <2>2. \A i \in DOMAIN rs : share[i] \in Int
    BY DEF Spans, AtLeast0
  <2>3. IsFiniteSet(DOMAIN rs)
    <3>1. DOMAIN rs = 1 .. Len(rs) /\ 1 \in Int /\ Len(rs) \in Int
      BY DEF Spans
    <3> QED
      BY ONLY <3>1, FS_Interval
  <2> HIDE DEF share
  <2>4. SumFunctionOnSet(share, DOMAIN rs) \in Int
    BY ONLY <2>2, <2>3, SumType
  <2>5. CssCoverage(rs, end).used = IF sum < end THEN sum ELSE end
    BY DEF CssCoverage
  <2> HIDE DEF sum
  <2> QED
    BY ONLY <1>15, <2>1, <2>4, <2>5
<1> QED
  BY ONLY <1>15, <1>16, Zenon DEF CoverageAgrees, used, end, ends, around, innermost, size

(* The ranges of a script nest, whichever two of them are looked at. *)
Nested == kind = "script" => \A i, j \in DOMAIN inputs : Nests(inputs[i], inputs[j])

(* A range only arrives when it nests with those that are there. *)
LEMMA AlwaysNested == Spec => []Nested
<1>1. Init => Nested
  BY DEF Init, Nested
<1>2. Given /\ Nested /\ [Next]_vars => Nested'
  <2> SUFFICES ASSUME Given, Nested, [Next]_vars PROVE Nested'
    OBVIOUS
  <2>1. CASE UNCHANGED vars
    BY <2>1 DEF Nested, vars
  <2>2. ASSUME NEW e \in Inputs[kind], Arrives(e),
               kind = "script" => \A i \in DOMAIN inputs : Nests(inputs[i], e)
        PROVE  Nested'
    <3>1. ASSUME kind = "script" PROVE \A i, j \in DOMAIN inputs' : Nests(inputs'[i], inputs'[j])
      <4> DEFINE n == Len(inputs)
      <4>1. /\ inputs \in Seq(Inputs["script"]) /\ e \in Inputs["script"]
            /\ inputs' = Append(inputs, e)
        BY <2>2, <3>1 DEF Given, Arrives
      <4>2. /\ n \in Nat /\ DOMAIN inputs = 1 .. n /\ DOMAIN inputs' = 1 .. n + 1
            /\ inputs'[n + 1] = e /\ \A i \in 1 .. n : inputs'[i] = inputs[i]
        BY ONLY <4>1
      <4>3. \A i, j \in 1 .. n : Nests(inputs[i], inputs[j])
        BY <3>1, <4>2 DEF Nested
      <4>4. \A i \in 1 .. n : Nests(inputs[i], e) /\ Nests(e, inputs[i])
        <5>1. \A i \in 1 .. n : Nests(inputs[i], e)
          BY <2>2, <3>1, <4>2
        <5>2. \A x, y : Nests(x, y) => Nests(y, x)
          BY Zenon DEF Nests
        <5> QED
          BY ONLY <5>1, <5>2, Zenon
      <4>5. Nests(e, e)
        <5>1. e.start \in Nat /\ e.end \in Nat
          BY <4>1, RangesAssumption
        <5> QED
          BY ONLY <5>1 DEF Nests
      <4> HIDE DEF n
      <4>6. \A i \in 1 .. n + 1 : i = n + 1 \/ i \in 1 .. n
        BY ONLY <4>2
      <4>7. ASSUME NEW i \in 1 .. n + 1, NEW j \in 1 .. n + 1
            PROVE  Nests(inputs'[i], inputs'[j])
        <5>1. CASE i = n + 1 /\ j = n + 1
          BY ONLY <4>2, <4>5, <5>1
        <5>2. CASE i = n + 1 /\ j \in 1 .. n
          BY ONLY <4>2, <4>4, <5>2
        <5>3. CASE i \in 1 .. n /\ j = n + 1
          BY ONLY <4>2, <4>4, <5>3
        <5>4. CASE i \in 1 .. n /\ j \in 1 .. n
          BY ONLY <4>2, <4>3, <5>4
        <5> QED
          BY ONLY <4>6, <4>7, <5>1, <5>2, <5>3, <5>4
      <4> QED
        BY ONLY <4>2, <4>7
    <3>2. kind' = kind
      BY <2>2 DEF Arrives
    <3> QED
      BY <3>1, <3>2 DEF Nested
  <2>3. CASE Observed
    BY <2>2, <2>3 DEF Observed
  <2>4. CASE Covered
    BY <2>2, <2>4 DEF Covered
  <2>5. CASE Listing
    BY <2>2, <2>5 DEF Listing
  <2> QED
    BY <2>1, <2>3, <2>4, <2>5 DEF Next
<1> QED
  BY AlwaysGiven, <1>1, <1>2, PTL DEF Spec

(* Whatever nested ranges are reported of a script, the sweep counts       *)
(* exactly the bytes whose innermost range was run, up to the end of the   *)
(* last range (compute_js_coverage, compute_css_coverage).                 *)
THEOREM CoverageHolds == Spec => []CoverageIsInnermost
<1>1. Given /\ Nested => CoverageIsInnermost
  <2> SUFFICES ASSUME Given, Nested, kind = "script" PROVE CoverageIsInnermost
    BY DEF CoverageIsInnermost
  <2>1. inputs \in Seq(Inputs["script"])
    BY DEF Given
  <2>2. Spans(inputs)
    <3>1. DOMAIN inputs = 1 .. Len(inputs) /\ Len(inputs) \in Nat
      BY ONLY <2>1
    <3>2. \A i \in DOMAIN inputs : inputs[i] \in Inputs["script"]
      BY ONLY <2>1
    <3> QED
      BY <3>1, <3>2, RangesAssumption DEF Spans
  <2>3. Nesting(inputs)
    BY Zenon DEF Nested, Nesting, Nests
  <2> QED
    BY ONLY <2>2, <2>3, EveryScriptCovered DEF CoverageIsInnermost
<1> QED
  BY AlwaysGiven, AlwaysNested, <1>1, PTL
=============================================================================
