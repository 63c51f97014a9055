-------------------------------- MODULE Report --------------------------------
(***************************************************************************)
(* What a capture reports of its page.  One input after another arrives,   *)
(* of one kind per behaviour since the kinds do not interact: entries for  *)
(* the observers in the page (Vitals), resources (ResourceSummary), ranges *)
(* of a script's coverage, images, cookies, CSP directives, timings and    *)
(* queries (Audits).  The report may be taken at any length of the input,  *)
(* so its parts are compared in every state.                               *)
(***************************************************************************)
EXTENDS Vitals, ResourceSummary, Audits

CONSTANTS
  Inputs,      \* kind -> the inputs to consider
  Depth,       \* bound: kind -> how many of them come
  Target,      \* the host of the page
  Declared,    \* the hosts of its resource hints
  Analytical   \* the analytical flags of a query

Kinds == {"observers", "resources", "script", "images", "cookies", "csp", "timing", "query"}
ASSUME InputsAssumption == /\ Kinds = DOMAIN Inputs /\ Depth \in [Kinds -> Nat]

(* What the page's observers deliver: times, durations and counts are not  *)
(* negative, lists are finite, and a shift is a whole number of units for  *)
(* each of the elements that share it.                                     *)
ASSUME EntriesAssumption ==
  \A e \in Inputs["observers"] :
    /\ e.type = "frame" => e.ts \in Nat
    /\ e.type = "layout-shift" =>
         LET sharers == DOMAIN WithNode(e.sources)
         IN  /\ e.value \in Nat /\ IsFiniteSet(DOMAIN e.sources)
             /\ sharers # {} => \E n \in 0 .. e.value : e.value = n * Cardinality(sharers)
    /\ e.type = "longtask" => e.duration \in Nat
    /\ e.type = "long-animation-frame" =>
         /\ IsFiniteSet(DOMAIN e.scripts)
         /\ \A i \in DOMAIN e.scripts : e.scripts[i].duration \in Nat
    /\ e.type = "mutation" =>
         /\ e.target \in DOMAIN NameRank /\ e.attribute \in BOOLEAN
         /\ ~e.attribute => e.added \in Nat /\ e.removed \in Nat
(* Sizes are u64, a host is one of those that are compared, and None is no *)
(* resource.                                                               *)
ASSUME ResourcesAssumption ==
  \A r \in Inputs["resources"] :
    /\ r.size \in Nat /\ r.from_cache \in BOOLEAN /\ r.reused \in BOOLEAN
    /\ r.host # Absent => r.host \in DOMAIN HostRank /\ HostRank[r.host] \in Int
    /\ [url |-> r.url, size |-> r.size] # Absent
(* Widths and heights are u32; the pixel ratio may be anything. *)
ASSUME ImagesAssumption ==
  \A i \in Inputs["images"] :
    /\ i.natural_width \in Nat /\ i.natural_height \in Nat
    /\ i.display_width \in Nat /\ i.display_height \in Nat /\ i.dpr \in Int
(* What V8 reports of a script: offsets into its text, and run counts. *)
ASSUME RangesAssumption ==
  \A r \in Inputs["script"] : r.start \in Nat /\ r.end \in Nat /\ r.count \in Int
ASSUME JarAssumption ==
  \A c \in Inputs["cookies"] : c.name \in Nat /\ c.value \in Nat /\ c.secure \in BOOLEAN

(* What serde lets in: times are u64, settle_ms may be missing. *)
QueryType ==
  [profile : {"absent", "content", "scrape", "audit", "lighthouse"},
   content_only : BOOLEAN, until_load : BOOLEAN, disable_javascript : BOOLEAN,
   all_metrics : BOOLEAN, coverage : BOOLEAN, metrics : SUBSET Analytical,
   binary : SUBSET {"screenshot", "pdf", "har", "save_dom_snapshot"},
   timeout_ms : Nat, settle_ms : Nat \cup {Unset}]
ASSUME QueriesAssumption ==
  /\ Inputs["query"] \subseteq QueryType
  /\ PageFlags \subseteq Analytical

(* What Chrome reports of a request: a phase that did not take place has   *)
(* neither a start nor an end (both are -1 ms), and sending comes before   *)
(* the headers.                                                            *)
Phase(start, end) == /\ start \in Int /\ end \in Int
                     /\ start >= 0 <=> end >= 0
                     /\ start < 0 => start = end
Measured(t) == /\ Phase(t.dns_start, t.dns_end)
               /\ Phase(t.connect_start, t.connect_end)
               /\ Phase(t.ssl_start, t.ssl_end)
               /\ t.send_start \in Nat /\ t.send_end \in Nat /\ t.headers_end \in Nat
               /\ t.send_start <= t.send_end /\ t.send_end <= t.headers_end
ASSUME TimingsAssumption == \A t \in Inputs["timing"] : Measured(t)

VARIABLES kind, inputs
vars == <<kind, inputs, observers>>

Init == kind \in Kinds /\ inputs = << >> /\ InstallObservers

(* V8 reports ranges that nest: two of them are disjoint, or one lies in   *)
(* the other; of two equal ones the outer comes first.                     *)
Nests(x, y) == \/ x.end <= y.start \/ y.end <= x.start
               \/ x.start <= y.start /\ y.end <= x.end
               \/ y.start <= x.start /\ x.end <= y.end

Arrives(e) == /\ Len(inputs) < Depth[kind]
              /\ inputs' = Append(inputs, e)
              /\ UNCHANGED kind

Observed == /\ kind = "observers"
            /\ \E e \in Inputs[kind] : Arrives(e) /\ Delivered(e)
Covered == /\ kind = "script"
           /\ \E e \in Inputs[kind] : /\ \A i \in DOMAIN inputs : Nests(inputs[i], e)
                                      /\ Arrives(e)
           /\ UNCHANGED observers
Listing == /\ kind \notin {"observers", "script"}
           /\ \E e \in Inputs[kind] : Arrives(e)
           /\ UNCHANGED observers

Next == Observed \/ Covered \/ Listing
Spec == Init /\ [][Next]_vars

-----------------------------------------------------------------------------
(* Every heading partitions the list: each resource is counted once under  *)
(* its type, its status and its Cache-Control, and once as a cache hit, a  *)
(* new or a reused connection.                                             *)
HeadingsAddUp(rs, s) ==
  /\ \A n \in {SumFunction(s.count_by_type), SumFunction(s.status_distribution),
               s.cache_control_present + s.cache_control_missing,
               s.cache_hits + s.connections_new + s.connections_reused} : n = Len(rs)
  /\ SumFunction(s.bytes_by_type) = Bytes(rs)
  /\ SumFunction(s.protocol_distribution) = s.connections_new + s.connections_reused
  /\ s.modern_hits <= SumFunction(s.protocol_distribution)
  /\ s.legacy_image_bytes + s.modern_image_bytes <= Bytes(rs)
  /\ s.cached_bytes <= Bytes(rs)

(* The uncompressed files that are listed are those that are counted, but  *)
(* for the small ones: what the list leaves out is below the floor.        *)
CompressionAgrees(rs, s) ==
  LET offenders == UncompressedText(rs)
      left_out == s.uncompressed_text_count - Len(offenders)
  IN  /\ s.compressed_count + s.uncompressed_text_count
           <= s.connections_new + s.connections_reused
      /\ s.uncompressed_text_count <= SumFunction(s.compression_breakdown)
      /\ left_out >= 0
      /\ Len(offenders) < TopIssues =>
           LET rest == s.uncompressed_text_bytes - Bytes(offenders)
           IN  0 <= rest /\ rest <= left_out * (UncompressedFloor - 1)

(* The rankings of third parties share out the third-party bytes, a        *)
(* script's origin is a third party that weighs at least as much, the page *)
(* itself is none, and a hint is missing only for a listed one.            *)
ThirdPartiesAgree(rs, s) ==
  LET top == TopHosts(s.by_host)
      scripts == TopHosts(s.scripts_by_host)
      listed(hosts) == {hosts[i].host : i \in DOMAIN hosts}
      bytes(hosts) == SumOver(hosts, LAMBDA d : d.bytes)
  IN  /\ Target \notin listed(top) /\ listed(top) \subseteq s.hosts
      /\ bytes(top) <= s.third_party_bytes /\ s.third_party_bytes <= Bytes(rs)
      /\ Len(top) < TopDomains => bytes(top) = s.third_party_bytes
      /\ Len(scripts) < TopDomains => bytes(scripts) = s.third_party_script_bytes
      /\ s.third_party_script_bytes <= s.third_party_bytes
      /\ \A h \in listed(scripts) : s.scripts_by_host[h] <= s.by_host[h]
      /\ \A h \in s.hosts \ {Target} :
           /\ Target # Absent /\ h \notin Declared
           /\ s.by_host[h] >= GapFloor /\ Len(top) < TopDomains
           => \E i \in DOMAIN HintGap(top, Declared) :
                HintGap(top, Declared)[i].host = h

(* The largest resource heads the ranking of its type, and a cache policy  *)
(* issue belongs to a resource that states a policy.                       *)
FindingsAgree(rs, s) ==
  LET ranked == {"javascript", "css", "image", "font"}
      tops == {TopLargestOf(rs, b) : b \in ranked} \ {<< >>}
      mixed == MixedContent(rs, TRUE)
  IN  /\ \A top \in tops : Head(top).size <= s.largest.size
      /\ \A i \in DOMAIN rs :
           /\ rs[i].size = s.largest.size /\ rs[i].size > 0
           /\ MimeBucket(rs[i].mime) \in ranked
           => \E top \in tops : Head(top).size = rs[i].size
      /\ Len(CachePolicyIssues(rs)) <= s.cache_control_present
      /\ mixed.detected <=> \E i \in DOMAIN rs : ~rs[i].https
      /\ Bytes(mixed.resources) <= Bytes(rs)

(* What repeated URLs waste is all that was loaded beyond one copy, the    *)
(* largest, of each URL.                                                   *)
RepeatsAgree(rs) ==
  LET best(u) == Head(BySize(rs, Copies(rs, u))).size
  IN  ExactWaste(rs) = Bytes(rs) - SumFunction([u \in Urls(rs) |-> best(u)])

(* The initiator chain is as long as the longest path of distinct URLs     *)
(* against the initiators, if that has at most MaxHops hops, and MaxHops+1 *)
(* if it has more: one over the cap of the comment at mod.rs:1901.  What   *)
(* the document itself asks for is one hop from it, so a flat page has 1,  *)
(* where the comments at mod.rs:1895 and 3945 say 0.  A cycle has an end.  *)
ChainsMeasured(rs) ==
  WithInitiator(rs) # {} =>
    LET parent == Parents(rs)
        nodes == Urls(rs) \cup {parent[u] : u \in DOMAIN parent}
        closed == {S \in SUBSET nodes : \A u \in S \cap DOMAIN parent : parent[u] \in S}
        ahead(u) == Cardinality({v \in nodes : \A S \in closed : u \in S => v \in S}) - 1
        least(n) == IF n < MaxHops + 1 THEN n ELSE MaxHops + 1
    IN  /\ \A u \in Urls(rs) : ChainDepth(rs) >= least(ahead(u))
        /\ \E u \in Urls(rs) : ChainDepth(rs) = least(ahead(u))

SummaryAgrees(rs) ==
  LET s == Summary(rs, Target)
  IN  rs # << >> =>
        /\ HeadingsAddUp(rs, s) /\ CompressionAgrees(rs, s)
        /\ ThirdPartiesAgree(rs, s) /\ FindingsAgree(rs, s)
        /\ RepeatsAgree(rs) /\ ChainsMeasured(rs)

(* The audit and the ratio, computed apart, judge an image alike: it is    *)
(* oversized exactly when more than half of its pixels are wasted; and a   *)
(* list is never headed by a lesser offender than one that follows.        *)
ImagesAgree(images) ==
  LET audit == ImageAudit(ByWaste(images))
      wasteful(img) == Exceeds(WasteRatio(img), <<1, 2>>)
      listed == {audit.oversized[i] : i \in DOMAIN audit.oversized}
  IN  /\ Len(images) <= TopImages =>
           listed = {images[i] : i \in {j \in DOMAIN images :
                       Actionable(images[j]) /\ wasteful(images[j])}}
      /\ \A i, j \in DOMAIN audit.oversized :
           i < j => ~Exceeds(WasteRatio(audit.oversized[j]), WasteRatio(audit.oversized[i]))

(* The estimate is the length of the Cookie header: the pairs, joined. *)
CookiesAgree(jar) ==
  LET check == CookieCheck(jar)
  IN  /\ check.header_bytes = SumOver(jar, LAMBDA c : c.name + 1 + c.value)
                                + 2 * AtLeast0(Len(jar) - 1)
      /\ check.none_without_secure <= check.total - check.secure
      /\ check.none_without_secure <= check.same_site_set

(* However often directives repeat, a source is a finding exactly when     *)
(* some directive lists it, under that directive's name, and a directive   *)
(* is reported as missing exactly when no directive has its name, where    *)
(* default-src does for object-src and for no other.                       *)
PoliciesAgree(csp) ==
  LET found == Weaknesses(CspAnalysis(csp))
      named(n) == \E i \in DOMAIN csp : csp[i].name = n
      lists(source) == {i \in DOMAIN csp : source \in csp[i].sources}
  IN  Analysed(csp) =>
        /\ "unsafe-inline" \in found <=> lists("'unsafe-inline'") # {}
        /\ "unsafe-eval" \in found <=> lists("'unsafe-eval'") # {}
        /\ "wildcard-source" \in found <=> lists("*") # {}
        /\ CspAnalysis(csp).wildcard_directives = {csp[i].name : i \in lists("*")}
        /\ "missing-object-src" \in found <=> ~named("object-src") /\ ~named("default-src")
        /\ "missing-base-uri" \in found <=> ~named("base-uri")
        /\ "missing-frame-ancestors" \in found <=> ~named("frame-ancestors")

(* The document's phases are the archive's without their fractions: never  *)
(* longer, and shorter by less than a millisecond, unless a phase did not  *)
(* take place and is 0 in the one and -1 in the other.  The time to the    *)
(* first byte is the whole milliseconds of sending and waiting together.   *)
TimingsAgree(t) ==
  LET doc == DocumentTiming(t)
      har == HarTimings(t)
      whole(ms, exact) == /\ ms * Millisecond <= exact
                          /\ exact < (ms + 1) * Millisecond
      same(ms, exact) == IF exact < 0 THEN ms = 0 ELSE whole(ms, exact)
  IN  /\ same(doc.dns_ms, har.dns)
      /\ same(doc.tcp_ms, har.connect)
      /\ same(doc.tls_ms, har.ssl)
      /\ whole(doc.ttfb_ms, har.send + har.wait)

(* A content-only capture collects nothing else, whichever flag or profile *)
(* asked for it; coverage and the binary captures are never implied by     *)
(* all_metrics; the clamped times stay under their ceilings and over zero. *)
QueriesResolved(q) ==
  LET r == Resolved(q)
      flags == CaptureFlags(r, Analytical)
  IN  /\ flags.lean <=> q.content_only \/ q.profile \in {"content", "scrape"}
      /\ flags.lean => flags.metrics = {} /\ flags.binary = {} /\ ~flags.coverage
      /\ ~flags.lean => q.metrics \subseteq flags.metrics /\ flags.binary = q.binary
      /\ flags.coverage => q.coverage \/ q.profile = "lighthouse"
      /\ r.timeout_ms >= 1 /\ (MaxTimeout # 0 => r.timeout_ms <= MaxTimeout)
      /\ q.settle_ms = Unset <=> r.settle_ms = Unset
      /\ r.settle_ms <= q.settle_ms /\ (MaxSettle # 0 => r.settle_ms <= MaxSettle)
      /\ Resolved(r) = r

(* A tool gets from the capture what it unpacks, whatever time it asks     *)
(* for: a full result except for fetch_page, with the flags its answer is  *)
(* built from, and no binary but the screenshot.                           *)
Defaults(q) == /\ q.profile = "absent" /\ q.metrics = {} /\ q.binary = {}
               /\ ~q.content_only /\ ~q.all_metrics /\ ~q.coverage
ToolsServed(q) ==
  Defaults(q) =>
    LET flags(tool) == CaptureFlags(Resolved(tool), Analytical)
        signals == flags(PageSignals(q))
        shot == flags(Screenshot(q))
        audit == flags(PageAudit(q))
    IN  /\ Captured(flags(FetchPage(q))) = "content"
        /\ \A f \in {signals, shot, audit} : Captured(f) = "full" /\ ~f.coverage
        /\ signals.binary = {} /\ PageSignals(q).metrics \subseteq signals.metrics
        /\ shot.binary = {"screenshot"}
        /\ audit.binary = {} /\ audit.metrics = Analytical

(* However profile, flags and ceilings combine, a capture is asked for     *)
(* what its query means (apply_profile, apply_clamps), and a tool's query  *)
(* for what the tool's answer needs (mcp.rs).                              *)
QueriesAgree ==
  kind = "query" => \A i \in DOMAIN inputs :
                      QueriesResolved(inputs[i]) /\ ToolsServed(inputs[i])

(* The parts of the report that are computed apart agree with each other,  *)
(* for every list of resources, images, cookies and directives, every      *)
(* timing and every query.                                                 *)
ReportAgrees ==
  /\ kind = "resources" => SummaryAgrees(inputs)
  /\ kind = "images" => ImagesAgree(inputs)
  /\ kind = "cookies" => CookiesAgree(inputs)
  /\ kind = "csp" => PoliciesAgree(inputs)
  /\ kind = "timing" => \A i \in DOMAIN inputs : TimingsAgree(inputs[i])
  /\ QueriesAgree

(* The sweep counts exactly the bytes whose innermost range was run.       *)
CoverageAgrees(ranges) ==
  LET size(i) == ranges[i].end - ranges[i].start
      around(b) == {i \in DOMAIN ranges : ranges[i].start <= b /\ b < ranges[i].end}
      innermost(b) == CHOOSE i \in around(b) : \A j \in around(b) :
                        \/ size(i) < size(j)
                        \/ size(i) = size(j) /\ i >= j
      ends == {0} \cup {ranges[i].end : i \in {j \in DOMAIN ranges : size(j) > 0}}
      end == CHOOSE n \in ends : \A m \in ends : m <= n
      used == {b \in 0 .. end - 1 : around(b) # {} /\ ranges[innermost(b)].count > 0}
  IN  /\ JsCoverage(ranges) = [used |-> Cardinality(used), total |-> end]
      /\ CssCoverage(ranges, end).used <= end

(* A byte of a script is used exactly when the smallest range around it,   *)
(* the last reported of those alike, was run; the sweep counts the used    *)
(* bytes, and no stylesheet uses more than it has.                         *)
CoverageIsInnermost == kind = "script" => CoverageAgrees(inputs)
=============================================================================
