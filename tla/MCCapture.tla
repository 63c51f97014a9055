------------------------------ MODULE MCCapture ------------------------------
(* Instances of Capture for TLC: a document, an API call and a blob URL.   *)
EXTENDS Capture, TLC

CONSTANTS doc, api, blob, p, q

MCMatching == doc :> {q} @@ api :> {p, q} @@ blob :> {p}

Request(page, reports, lean, load, initiators, errors, flags, patterns, waits) ==
  [page |-> page, reports |-> reports,
   lean |-> lean, untilLoad |-> load, initiators |-> initiators,
   httpErrors |-> errors, resources |-> "resources" \in flags, har |-> "har" \in flags,
   imageSizing |-> "image_sizing" \in flags, securityScan |-> "security_scan" \in flags,
   waitFor |-> patterns, waits |-> waits]

MCOptions == {
  Request({doc}, 0, FALSE, TRUE, TRUE, TRUE, {"resources"}, << >>, 0),
  Request({doc, api}, 1, FALSE, FALSE, FALSE, FALSE, {"har"}, <<p, q, q>>, 1),
  Request({api, blob}, 0, FALSE, TRUE, TRUE, TRUE, {"image_sizing"}, <<p>>, 0),
  Request({doc, blob}, 1, TRUE, TRUE, FALSE, FALSE, {}, <<q>>, 0),
  Request({api}, 2, FALSE, TRUE, FALSE, FALSE, {"security_scan"}, << >>, 0),
  Request({api}, 1, FALSE, TRUE, TRUE, TRUE, {}, << >>, 0) }
=============================================================================
