---------------------------- MODULE ResourceSummary ----------------------------
(***************************************************************************)
(* The figures derived from the list of resources (build_resource_summary  *)
(* and the helpers it calls, src/src/browser/mod.rs): one pass that tallies *)
(* every resource under several headings, and the lists of findings.       *)
(*                                                                         *)
(* A resource is a record.  What the code tests of its strings is kept as  *)
(* data: a MIME type is the set of markers the code looks for in it, a URL *)
(* carries whether it parses, its host (a data: URL parses and has none),  *)
(* base name and longest hexadecimal run, Cache-Control is its directives  *)
(* in order, Content-Encoding its codings in order.                        *)
(***************************************************************************)
EXTENDS Rollups

CONSTANTS
  Absent,     \* None
  MaxHops,    \* hops after which the walk along initiators is given up
  TopDomains, \* entries of the rankings of third parties, duplicates, mixed content
  TopLargest, \* entries per type of the largest resources
  TopIssues   \* entries of the uncompressed and cache policy lists

ASSUME ListsAssumption ==
  {MaxHops, TopDomains, TopLargest, TopIssues} \subseteq Nat /\ TopLargest # 0

If(condition, n) == IF condition THEN n ELSE 0
Bytes(rs) == SumOver(rs, LAMBDA r : r.size)
(* sort_by_key(Reverse(..)) of some of the resources. *)
BySize(rs, I) == Listed(rs, I, LAMBDA a, b : a.size > b.size)

-----------------------------------------------------------------------------
(* mime_bucket: the first rule that applies. *)
MimeRules == << <<{"image/"}, "image">>, <<{"video/", "audio/"}, "media">>,
                <<{"font/", "woff", "opentype", "truetype"}, "font">>,
                <<{"javascript", "ecmascript"}, "javascript">>, <<{"css"}, "css">>,
                <<{"html"}, "html">>, <<{"xml"}, "xml">>, <<{"json"}, "json">> >>
MimeBucket(mime) ==
  LET rules == SelectSeq(MimeRules, LAMBDA rule : rule[1] \cap mime # {})
  IN  IF rules = << >> THEN "other" ELSE Head(rules)[2]

IsTextCompressible(mime) ==
  mime \cap {"text/", "javascript", "ecmascript", "json", "xml", "svg", "html"} # {}
IsStaticAsset(mime) == MimeBucket(mime) \in {"javascript", "css", "image", "font"}
IsScript(r) == MimeBucket(r.mime) = "javascript"

StatusBucket(status) ==
  IF status \in 100 .. 599 THEN <<"1xx", "2xx", "3xx", "4xx", "5xx">>[status \div 100]
                           ELSE "other"

(* The first coding listed; an empty one counts as none. *)
Coding(r) == IF r.encoding \in {Absent, << >>} \/ Head(r.encoding) = "" THEN "none"
             ELSE Head(r.encoding)
Protocol(r) == IF r.protocol = "" THEN "unknown" ELSE r.protocol
LegacyImage(r) == r.mime \cap {"jpeg", "png", "gif"} # {}
ModernImage(r) == ~LegacyImage(r) /\ r.mime \cap {"webp", "avif"} # {}
Modern(r) == Protocol(r) \in {"h2", "h3", "h3-29"}

Zero ==
  [bytes_by_type |-> Empty, count_by_type |-> Empty, status_distribution |-> Empty,
   cache_control_present |-> 0, cache_control_missing |-> 0,
   legacy_image_bytes |-> 0, modern_image_bytes |-> 0,
   source_maps_present |-> 0, source_maps_missing |-> 0,
   cache_hits |-> 0, cached_bytes |-> 0,
   connections_reused |-> 0, connections_new |-> 0,
   protocol_distribution |-> Empty, modern_hits |-> 0,
   compression_breakdown |-> Empty, compressed_count |-> 0,
   uncompressed_text_count |-> 0, uncompressed_text_bytes |-> 0,
   hosts |-> {}, third_party_bytes |-> 0, third_party_script_bytes |-> 0,
   by_host |-> Empty, scripts_by_host |-> Empty, largest |-> Absent]

(* What every resource counts under, cached or not. *)
TallyAll(s, r) ==
  LET bucket == MimeBucket(r.mime)
      mapped == bucket \in {"javascript", "css"}
  IN  [s EXCEPT
        !.bytes_by_type = Plus(@, bucket, r.size), !.count_by_type = Plus(@, bucket, 1),
        !.status_distribution = Plus(@, StatusBucket(r.status), 1),
        !.cache_control_present = @ + If(r.cache_control # Absent, 1),
        !.cache_control_missing = @ + If(r.cache_control = Absent, 1),
        !.legacy_image_bytes = @ + If(LegacyImage(r), r.size),
        !.modern_image_bytes = @ + If(ModernImage(r), r.size),
        !.source_maps_present = @ + If(mapped /\ r.source_map, 1),
        !.source_maps_missing = @ + If(mapped /\ ~r.source_map, 1),
        !.largest = IF @ = Absent THEN [url |-> r.url, size |-> r.size]
                    ELSE IF r.size > @.size THEN [url |-> r.url, size |-> r.size] ELSE @]

(* What only a response that came over the wire counts under. *)
TallyNetwork(s, r) ==
  LET text == IsTextCompressible(r.mime)
      plain == text /\ r.encoding = Absent
  IN  [s EXCEPT
        !.connections_reused = @ + If(r.reused, 1), !.connections_new = @ + If(~r.reused, 1),
        !.protocol_distribution = Plus(@, Protocol(r), 1),
        !.modern_hits = @ + If(Modern(r), 1),
        !.compression_breakdown = IF text THEN Plus(@, Coding(r), 1) ELSE @,
        !.compressed_count = @ + If(r.encoding # Absent, 1),
        !.uncompressed_text_count = @ + If(plain, 1),
        !.uncompressed_text_bytes = @ + If(plain, r.size)]

TallyCached(s, r) == [s EXCEPT !.cache_hits = @ + 1, !.cached_bytes = @ + r.size]

(* Another host than the target's, when both are known, is a third party. *)
TallyHost(s, r, target) ==
  LET third == target # Absent /\ r.host # target
      script == third /\ IsScript(r)
  IN  [s EXCEPT
        !.hosts = @ \cup {r.host},
        !.third_party_bytes = @ + If(third, r.size),
        !.third_party_script_bytes = @ + If(script, r.size),
        !.by_host = IF third THEN Plus(@, r.host, r.size) ELSE @,
        !.scripts_by_host = IF script THEN Plus(@, r.host, r.size) ELSE @]

MutTally(s, r, target) ==    \* mutant: a cache hit counts as a response too
  LET all == TallyAll(s, r)
      paid == TallyNetwork(IF r.from_cache THEN TallyCached(all, r) ELSE all, r)
  IN  IF r.host = Absent THEN paid ELSE TallyHost(paid, r, target)

(* One turn of the loop. *)
Tally(s, r, target) ==
  LET all == TallyAll(s, r)
      paid == IF r.from_cache THEN TallyCached(all, r) ELSE TallyNetwork(all, r)
  IN  IF r.host = Absent THEN paid ELSE TallyHost(paid, r, target)

Summary(rs, target) ==
  LET after[n \in 0 .. Len(rs)] ==
        IF n = 0 THEN Zero ELSE Tally(after[n - 1], rs[n], target)
  IN  after[Len(rs)]

-----------------------------------------------------------------------------
(* The lists.                                                              *)

(* By bytes, largest first, then by host: names are compared by their rank. *)
CONSTANT HostRank
ASSUME RankAssumption == \A h, k \in DOMAIN HostRank : HostRank[h] = HostRank[k] => h = k
TopHosts(by_host) ==
  FirstOf(InOrder({[host |-> h, bytes |-> by_host[h]] : h \in DOMAIN by_host},
                  LAMBDA a, b : \/ a.bytes > b.bytes
                                \/ a.bytes = b.bytes /\ HostRank[a.host] < HostRank[b.host]),
          TopDomains)

TopLargestOf(rs, bucket) ==
  FirstOf(BySize(rs, Where(rs, LAMBDA r : /\ MimeBucket(r.mime) = bucket
                                          /\ ~(r.from_cache /\ r.size = 0))), TopLargest)

UncompressedFloor == 1024
UncompressedText(rs) ==
  FirstOf(BySize(rs, Where(rs, LAMBDA r : /\ ~r.from_cache /\ r.encoding = Absent
                                          /\ IsTextCompressible(r.mime)
                                          /\ r.size >= UncompressedFloor)), TopIssues)

(* parse_max_age: the first max-age directive decides, and one that is not *)
(* followed by a number means that there is none.                          *)
MaxAge(directives) ==
  LET ages == SelectSeq(directives, LAMBDA d : d.name = "max-age")
  IN  IF ages = << >> THEN Absent ELSE Head(ages).value
IsHashed(r) == r.hex_run >= 8
Has(directives, name) == \E i \in DOMAIN directives : directives[i].name = name
ShortMaxAge(cc) == MaxAge(cc) # Absent /\ MaxAge(cc) < 60
(* An explicit no-store or no-cache is a policy, not an oversight. *)
Judged(r) == /\ IsStaticAsset(r.mime) /\ r.cache_control # Absent
             /\ ~Has(r.cache_control, "no-store") /\ ~Has(r.cache_control, "no-cache")
PolicyIssue(r) ==
  IF ~Judged(r) THEN Absent
  ELSE IF ShortMaxAge(r.cache_control) THEN "short_max_age"
  ELSE IF r.parsed /\ IsHashed(r) /\ ~Has(r.cache_control, "immutable")
    THEN "missing_immutable" ELSE Absent
CachePolicyIssues(rs) ==
  FirstOf(BySize(rs, Where(rs, LAMBDA r : PolicyIssue(r) # Absent)), TopIssues)

(* build_resource_hints: a heavy third party that no preconnect or         *)
(* dns-prefetch of the page names.                                         *)
GapFloor == 4096
HintGap(top, declared) ==
  Listed(top, Where(top, LAMBDA d : d.bytes >= GapFloor /\ d.host \notin declared),
         LAMBDA a, b : FALSE)

(* build_mixed_content: plain HTTP on a page whose URL is HTTPS. *)
MixedContent(rs, https) ==
  LET offenders == IF https THEN Where(rs, LAMBDA r : ~r.https) ELSE {}
  IN  [detected |-> offenders # {}, total_count |-> Cardinality(offenders),
       resources |-> FirstOf(BySize(rs, offenders), TopDomains)]

-----------------------------------------------------------------------------
(* build_duplicate_resources                                               *)

Urls(rs) == {rs[i].url : i \in DOMAIN rs}
Copies(rs, url) == Where(rs, LAMBDA r : r.url = url)
RepeatedUrls(rs) == {u \in Urls(rs) : Cardinality(Copies(rs, u)) >= 2}
(* All but the largest copy are wasted. *)
UrlWaste(rs, url) == Bytes(Tail(BySize(rs, Copies(rs, url))))
ExactWaste(rs) == SumFunction([u \in RepeatedUrls(rs) |-> UrlWaste(rs, u)])

(* Files of one base name and one size, not empty, from several URLs. *)
NamedSizes(rs) == {<<rs[i].name, rs[i].size>> :
                     i \in {j \in DOMAIN rs : rs[j].name # Absent /\ rs[j].size > 0}}
Sources(rs, ns) == {rs[i].url : i \in Where(rs, LAMBDA r : <<r.name, r.size>> = ns)}
LikelySame(rs) == {ns \in NamedSizes(rs) : Cardinality(Sources(rs, ns)) >= 2}
NameWaste(rs) ==
  SumFunction([ns \in LikelySame(rs) |-> (Cardinality(Sources(rs, ns)) - 1) * ns[2]])

WastedBytes(rs) == ExactWaste(rs) + NameWaste(rs)

-----------------------------------------------------------------------------
(* compute_initiator_chain_depth                                           *)

WithInitiator(rs) == {i \in DOMAIN rs : rs[i].initiator # Absent}
Parented(rs) == {i \in WithInitiator(rs) : rs[i].initiator # ""}
(* The last resource with a URL decides its parent. *)
Parents(rs) ==
  [u \in {rs[i].url : i \in Parented(rs)} |->
     LET mine == {i \in Parented(rs) : rs[i].url = u}
     IN  rs[CHOOSE i \in mine : \A j \in mine : j <= i].initiator]

(* The walk back from a URL: it stops at a root, at a URL it has seen, and *)
(* when it has taken more than MaxHops hops, so at MaxHops + 1.            *)
Walk(parent, url) ==
  LET hop[k \in 0 .. MaxHops + 1] ==
        IF k = 0 THEN [at |-> url, seen |-> {url}, depth |-> 0]
        ELSE LET w == hop[k - 1]
             IN  IF w.at \notin DOMAIN parent THEN w
                 ELSE IF parent[w.at] \in w.seen THEN w
                 ELSE [at |-> parent[w.at], seen |-> w.seen \cup {parent[w.at]},
                       depth |-> w.depth + 1]
  IN  hop[MaxHops + 1].depth
ChainDepth(rs) ==
  IF WithInitiator(rs) = {} THEN Absent
  ELSE LET depths == {Walk(Parents(rs), u) : u \in Urls(rs)}
       IN  CHOOSE d \in depths : \A e \in depths : e <= d
=============================================================================
