------------------------------- MODULE MCReport -------------------------------
(* Inputs of Report for TLC.                                               *)
EXTENDS Report

MCHostRank == "page" :> 1 @@ "cdn" :> 2 @@ "ads" :> 3
MCNameRank == "class" :> 1 @@ "div" :> 2 @@ "p" :> 3 @@ "span" :> 4

Res(url, host, mime, size, cached, encoding, cc, initiator) ==
  [url |-> url, host |-> host, parsed |-> TRUE, name |-> "app", https |-> url # "d", hex_run |-> 8,
   mime |-> mime, status |-> IF size = 0 THEN 304 ELSE 200, size |-> size,
   from_cache |-> cached, reused |-> host = "cdn",
   protocol |-> IF host = "page" THEN "h2" ELSE "", encoding |-> encoding,
   cache_control |-> cc, source_map |-> FALSE, initiator |-> initiator]
Js == {"text/", "javascript"}
Png == {"image/", "png"}
Age(n) == <<[name |-> "max-age", value |-> n]>>
Resources == {
  Res("a", "page", {"text/", "html"}, 1500, FALSE, << "gzip" >>, Absent, Absent),
  Res("b", "cdn", Js, 4500, FALSE, Absent, Age(9), "a"),
  Res("b", "cdn", Js, 0, TRUE, Absent, Age(600), "c"),
  Res("c", "ads", Js, 4500, FALSE, Absent, Absent, "b"),
  Res("c", "ads", Js, 700, FALSE, << "" >>, <<[name |-> "no-store", value |-> Absent]>>, ""),
  Res("d", "ads", Png, 700, FALSE, Absent, Age(600), "c"),
  Res("d", "ads", {"image/", "svg", "xml"}, 200, TRUE, Absent, Age(Absent), "d"),
  [Res("e", Absent, {}, 0, FALSE, Absent, Absent, "d") EXCEPT !.parsed = FALSE],
  Res("f", Absent, Png, 400, FALSE, Absent, Age(600), "a") }

Span(start, end, count) == [start |-> start, end |-> end, count |-> count]
Ranges == {r \in {Span(s, e, c) : s \in 0 .. 3, e \in 1 .. 4, c \in {0, 1}} :
             r.start <= r.end}

Entry(type) == [type |-> type]
Shift(value, recent, nodes) ==
  Entry("layout-shift") @@ [value |-> value, recent |-> recent,
                            sources |-> [i \in DOMAIN nodes |-> [node |-> nodes[i]]]]
Task(duration, name, attribution) ==
  Entry("longtask") @@ [duration |-> duration, name |-> name, attribution |-> attribution]
Frame(scripts) == Entry("long-animation-frame") @@ [blocking |-> 10, scripts |-> scripts]
Script(url, duration) == [url |-> url, duration |-> duration]
Observations ==
  {Entry("frame") @@ [ts |-> ts] : ts \in {5, 20, 40, 60}} \cup
  {Entry("largest-contentful-paint") @@ [start |-> 10, node |-> "hero"],
   Entry("largest-contentful-paint") @@ [start |-> 20, node |-> NoNode],
   Shift(4, FALSE, <<"ad", "nav">>), Shift(6, FALSE, <<"ad", NoNode>>),
   Shift(2, FALSE, << >>), Shift(8, TRUE, <<"nav">>),
   Task(60, "self", << >>), Task(90, "", <<[src |-> "", name |-> ""], [src |-> "", name |-> "f"]>>),
   Task(70, "", << >>),
   Entry("event") @@ [interaction |-> TRUE, duration |-> 30],
   Entry("event") @@ [interaction |-> FALSE, duration |-> 40],
   Frame(<<Script("s", 20), Script("t", 3), Script("t", 9), Script("s", 7)>>), Frame(<< >>),
   Entry("mutation") @@ [attribute |-> TRUE, target |-> "class"],
   Entry("mutation") @@ [attribute |-> FALSE, target |-> "div", added |-> 2, removed |-> 1],
   Entry("mutation") @@ [attribute |-> FALSE, target |-> "p", added |-> 1, removed |-> 1],
   Entry("mutation") @@ [attribute |-> FALSE, target |-> "span", added |-> 0, removed |-> 3]}

Image(natural, display, dpr, source) ==
  [natural_width |-> natural, natural_height |-> natural, display_width |-> display,
   display_height |-> display, dpr |-> dpr, source |-> source, loaded |-> natural > 0,
   sized |-> dpr = 1, in_viewport |-> display < 40, lazy |-> FALSE, srcset |-> FALSE]
Images == {Image(n, d, r, s) : n \in {0, 40, 60}, d \in {0, 20, 40}, r \in {0, 1, 2},
                               s \in {"url", "data"}}

Cookies == [name : {1}, value : {0, 3}, secure : BOOLEAN,
            same_site : {"absent", "none", "lax"}]

Csp == {[name |-> n, sources |-> s] :
          n \in {"default-src", "script-src", "object-src", "base-uri",
                 "frame-ancestors"},
          s \in {{}, {"*"}, {"'unsafe-inline'", "'unsafe-eval'"}}}

Timing(t) == [dns_start |-> t[1], dns_end |-> t[2], connect_start |-> t[3],
              connect_end |-> t[4], ssl_start |-> t[5], ssl_end |-> t[6],
              send_start |-> t[7], send_end |-> t[8], headers_end |-> t[9]]
(* Microseconds: phases under a millisecond, of whole ones, and between.   *)
Phases == {<<-1000, -1000>>, <<0, 0>>, <<200, 1100>>, <<1600, 3600>>, <<900, 4500>>}
Timings == {Timing(d \o c \o s \o <<5000, 5000 + a, 5000 + a + b>>) :
              d \in Phases, c \in Phases, s \in Phases, a \in {0, 700}, b \in {0, 700, 2300}}

MCAnalytical == {"web_vitals", "resources", "http_errors", "metadata", "metrics"}
Queries ==
  [profile : {"absent", "content", "scrape", "audit", "lighthouse"},
   content_only : BOOLEAN, until_load : {FALSE}, disable_javascript : {FALSE},
   all_metrics : BOOLEAN, coverage : BOOLEAN, metrics : {{}, {"resources"}},
   binary : {{}, {"pdf"}}, timeout_ms : {0, 3, 9}, settle_ms : {Unset, 0, 9}]

MCInputs == [observers |-> Observations, resources |-> Resources, script |-> Ranges,
             images |-> Images, cookies |-> Cookies, csp |-> Csp, timing |-> Timings,
             query |-> Queries]
MCDepth == [observers |-> 4, resources |-> 4, script |-> 3, images |-> 2, cookies |-> 2,
            csp |-> 3, timing |-> 1, query |-> 1]
=============================================================================
