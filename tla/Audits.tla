-------------------------------- MODULE Audits --------------------------------
(***************************************************************************)
(* Derivations that stand on their own: coverage and image audit and the   *)
(* phases of a request (src/src/browser/mod.rs), the cookie and CSP checks *)
(* (src/src/browser/security.rs), and the way a query becomes the flags of *)
(* a capture (src/src/capture.rs, src/src/config.rs).                      *)
(***************************************************************************)
EXTENDS Rollups

CONSTANTS
  MaxTimeout,  \* BROWSER_HEADLESS_MAX_TIMEOUT_MS, 0: none
  MaxSettle,   \* BROWSER_HEADLESS_MAX_SETTLE_MS, 0: none
  TopImages    \* entries of the image lists

ASSUME CeilingsAssumption == {MaxTimeout, MaxSettle, TopImages} \subseteq Nat

Unset == -1
AtLeast0(n) == IF n > 0 THEN n ELSE 0

-----------------------------------------------------------------------------
(* compute_js_coverage: every range opens and closes; the sweep keeps the  *)
(* counts of the open ranges on a stack, and the top one decides.          *)

Point(at, close, len, count, seq) ==
  [at |-> at, close |-> close, len |-> len, count |-> count, seq |-> seq]
Points(ranges) ==
  UNION {LET r == ranges[i]
             len == r.end - r.start
         IN  IF len <= 0 THEN {}
             ELSE {Point(r.start, FALSE, len, r.count, 2 * i),
                   Point(r.end, TRUE, len, r.count, 2 * i + 1)} : i \in DOMAIN ranges}

MutSweepsBefore(p, q) ==    \* mutant: the shorter range opens first
  IF p.at # q.at THEN p.at < q.at
  ELSE IF p.close # q.close THEN p.close
  ELSE IF p.len # q.len THEN p.len < q.len
  ELSE p.seq < q.seq

(* By offset; what closes goes before what opens; the longer one opens     *)
(* first, the shorter one closes first; else as they were reported.        *)
SweepsBefore(p, q) ==
  IF p.at # q.at THEN p.at < q.at
  ELSE IF p.close # q.close THEN p.close
  ELSE IF p.len # q.len THEN (IF p.close THEN p.len < q.len ELSE p.len > q.len)
  ELSE p.seq < q.seq

SweepStep(w, p) ==
  [used |-> w.used + (IF w.stack # << >> /\ p.at > w.last /\ Last(w.stack) > 0
                        THEN p.at - w.last ELSE 0),
   last |-> p.at,
   stack |-> IF ~p.close THEN Append(w.stack, p.count)
             ELSE IF w.stack = << >> THEN << >> ELSE Front(w.stack)]

JsCoverage(ranges) ==
  LET points == InOrder(Points(ranges), SweepsBefore)
  IN  IF points = << >> THEN [used |-> 0, total |-> 0]
      ELSE [used |-> FoldLeft(SweepStep, [used |-> 0, last |-> points[1].at, stack |-> << >>],
                              points).used,
            total |-> FoldLeft(LAMBDA m, p : IF p.close /\ p.at > m THEN p.at ELSE m,
                               0, points)]

(* compute_css_coverage *)
CssCoverage(rules, total) ==
  LET used == SumOver(rules, LAMBDA r : IF r.count > 0 THEN AtLeast0(r.end - r.start) ELSE 0)
  IN  [used |-> IF used < total THEN used ELSE total, total |-> total]

-----------------------------------------------------------------------------
(* enrich_image_sizing and build_image_audit.  Ratios are kept as          *)
(* fractions <<numerator, denominator>>.                                   *)

Dpr(img) == IF img.dpr > 0 THEN img.dpr ELSE 1
NaturalArea(img) == img.natural_width * img.natural_height
NeededArea(img) == img.display_width * Dpr(img) * img.display_height * Dpr(img)
DisplayArea(img) == img.display_width * img.display_height

NoRatio == <<-1, 1>>
WasteRatio(img) ==
  LET np == NaturalArea(img)
      dp == NeededArea(img)
  IN  IF np = 0 \/ dp = 0 THEN NoRatio
      ELSE IF dp >= np THEN <<0, 1>> ELSE <<np - dp, np>>
Exceeds(p, q) == p[1] * q[2] > q[1] * p[2]

(* Worst first; an unknown ratio sinks to the end. *)
ByWaste(images) ==
  Listed(images, DOMAIN images, LAMBDA a, b : Exceeds(WasteRatio(a), WasteRatio(b)))

Actionable(img) == img.source = "url"    \* neither empty nor a data: URL
SrcsetAreaFloor == 32 * 32
Oversized(img) == /\ NeededArea(img) > 0 /\ NaturalArea(img) > 2 * NeededArea(img)
MissingDimensions(img) == img.loaded /\ ~img.sized /\ DisplayArea(img) > 0
MissingLazy(img) == ~img.in_viewport /\ ~img.lazy
MissingSrcset(img) == ~img.srcset /\ DisplayArea(img) >= SrcsetAreaFloor
Worst(images, P(_), Before(_, _)) ==
  FirstOf(Listed(images, Where(images, LAMBDA i : Actionable(i) /\ P(i)), Before), TopImages)
ByArea(a, b) == DisplayArea(a) > DisplayArea(b)
ByOversize(a, b) == Exceeds(<<NaturalArea(a), NeededArea(a)>>, <<NaturalArea(b), NeededArea(b)>>)
ImageAudit(images) ==
  [oversized |-> Worst(images, Oversized, ByOversize),
   missing_dimensions |-> Worst(images, MissingDimensions, ByArea),
   missing_lazy |-> Worst(images, MissingLazy, ByArea),
   missing_srcset |-> Worst(images, MissingSrcset, ByArea)]

-----------------------------------------------------------------------------
(* The phases of a request, which the browser times in fractions of a      *)
(* millisecond: times are counted in microseconds.  build_document_timing  *)
(* drops the fraction and writes a phase that did not take place as 0,     *)
(* build_har keeps it and writes -1.                                       *)

Millisecond == 1000
WholeMs(d) == IF d > 0 THEN d \div Millisecond ELSE 0    \* d as u32

DocumentTiming(t) ==
  [dns_ms |-> WholeMs(t.dns_end - t.dns_start),
   tcp_ms |-> WholeMs(t.connect_end - t.connect_start),
   tls_ms |-> WholeMs(t.ssl_end - t.ssl_start),
   ttfb_ms |-> WholeMs(t.headers_end - t.send_start)]
HarPhase(start, end) == IF start >= 0 /\ end >= 0 THEN end - start ELSE -Millisecond
HarTimings(t) ==
  [dns |-> HarPhase(t.dns_start, t.dns_end),
   connect |-> HarPhase(t.connect_start, t.connect_end),
   ssl |-> HarPhase(t.ssl_start, t.ssl_end),
   send |-> AtLeast0(t.send_end - t.send_start),
   wait |-> AtLeast0(t.headers_end - t.send_end)]

-----------------------------------------------------------------------------
(* The cookie part of build_security_audit.  Names and values are lengths. *)

CookieCheck(cookies) ==
  LET bytes == SumOver(cookies, LAMBDA c : c.name + 1 + c.value + 2)
  IN  [total |-> Len(cookies),
       secure |-> SumOver(cookies, LAMBDA c : One(c.secure)),
       same_site_set |-> SumOver(cookies, LAMBDA c : One(c.same_site # "absent")),
       none_without_secure |->
         SumOver(cookies, LAMBDA c : One(c.same_site = "none" /\ ~c.secure)),
       header_bytes |-> IF bytes >= 2 THEN bytes - 2 ELSE bytes]

(* parse_csp: the sources of a repeated directive are merged. *)
CspAnalysis(directives) ==
  LET names == {directives[i].name : i \in DOMAIN directives}
      sources(n) == UNION {directives[i].sources :
                             i \in {j \in DOMAIN directives : directives[j].name = n}}
      anywhere(source) == \E n \in names : source \in sources(n)
  IN  [directive_count |-> Cardinality(names),
       unsafe_inline |-> anywhere("'unsafe-inline'"),
       unsafe_eval |-> anywhere("'unsafe-eval'"),
       wildcard_directives |-> {n \in names : "*" \in sources(n)},
       missing_object_src |-> {"object-src", "default-src"} \cap names = {},
       missing_base_uri |-> "base-uri" \notin names,
       missing_frame_ancestors |-> "frame-ancestors" \notin names]
(* A header of no directive is there (csp) but has no analysis.            *)
Analysed(directives) == directives # << >>
Weaknesses(a) ==
  (IF a.unsafe_inline THEN {"unsafe-inline"} ELSE {})
    \cup (IF a.unsafe_eval THEN {"unsafe-eval"} ELSE {})
    \cup (IF a.wildcard_directives # {} THEN {"wildcard-source"} ELSE {})
    \cup (IF a.missing_object_src THEN {"missing-object-src"} ELSE {})
    \cup (IF a.missing_base_uri THEN {"missing-base-uri"} ELSE {})
    \cup (IF a.missing_frame_ancestors THEN {"missing-frame-ancestors"} ELSE {})

-----------------------------------------------------------------------------
(* A query: its profile is expanded, its times are clamped, and its flags  *)
(* become those of the capture.                                            *)

ApplyProfile(q) ==
  CASE q.profile = "content" -> [q EXCEPT !.content_only = TRUE, !.until_load = TRUE]
    [] q.profile = "scrape" -> [q EXCEPT !.content_only = TRUE, !.disable_javascript = TRUE,
                                         !.until_load = TRUE]
    [] q.profile = "audit" -> [q EXCEPT !.all_metrics = TRUE]
    [] q.profile = "lighthouse" -> [q EXCEPT !.all_metrics = TRUE, !.coverage = TRUE]
    [] q.profile = "absent" -> q

(* clamp_timeout_ms and clamp_settle_ms *)
ClampTimeout(t) ==
  LET least == IF t < 1 THEN 1 ELSE t
  IN  IF MaxTimeout = 0 \/ least <= MaxTimeout THEN least ELSE MaxTimeout
ClampSettle(t) == IF MaxSettle = 0 \/ t <= MaxSettle THEN t ELSE MaxSettle
ApplyClamps(q) ==
  [q EXCEPT !.timeout_ms = ClampTimeout(@),
            !.settle_ms = IF @ = Unset THEN Unset ELSE ClampSettle(@)]

(* The flags of the capture: the analytical ones are those in q.metrics.   *)
CaptureFlags(q, analytical) ==
  [lean |-> q.content_only,
   metrics |-> IF q.content_only THEN {} ELSE IF q.all_metrics THEN analytical ELSE q.metrics,
   binary |-> IF q.content_only THEN {} ELSE q.binary,
   coverage |-> q.coverage /\ ~q.content_only]
Resolved(q) == ApplyClamps(ApplyProfile(q))

(* Which kind of result capture_one gives back. *)
Captured(flags) == IF flags.lean THEN "content" ELSE "full"

(* The queries of the MCP tools (src/src/mcp.rs), made of the defaults and *)
(* the caller's arguments, of which wait_for_network_idle is not given.    *)
PageFlags == {"http_errors", "web_vitals", "metadata", "metrics"}
FetchPage(q) == [q EXCEPT !.content_only = TRUE, !.until_load = TRUE]
PageSignals(q) == [q EXCEPT !.until_load = TRUE, !.metrics = PageFlags]
Screenshot(q) == [q EXCEPT !.binary = {"screenshot"}]
PageAudit(q) == [q EXCEPT !.profile = "audit"]
=============================================================================
