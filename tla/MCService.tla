------------------------------ MODULE MCService ------------------------------
(* Instances of Service for TLC. *)
EXTENDS Service

CONSTANTS batch, mixed, nothing, single, scripted, tool, job, status, stranger,
          events

Of(route, urls) == [route |-> route, parsed |-> TRUE, authentic |-> TRUE,
                    urls |-> urls, script |-> FALSE]

MCRequests == {batch, mixed, nothing, single, scripted, tool, job, status,
                stranger, events}
MCShape == [r \in MCRequests |->
  CASE r = batch    -> Of("batch", <<"good", "blocked", "good">>)
    [] r = mixed    -> Of("batch", <<"good", "malformed", "unresolved">>)
    [] r = nothing  -> Of("batch", << >>)
    [] r = single   -> Of("summary", <<"good">>)
    [] r = scripted -> [Of("summary", <<"good">>) EXCEPT !.script = TRUE]
    [] r = tool     -> Of("mcp", <<"good">>)
    [] r = job      -> Of("jobs", <<"good">>)
    [] r = status   -> Of("poll", << >>)
    [] r = stranger -> [Of("mcp", <<"good">>) EXCEPT !.authentic = FALSE]
    [] r = events   -> Of("stream", << >>)]
MCScenarios == {{batch, job}, {tool, single}, {mixed, nothing}, {scripted, stranger, status},
                {events, single}}
=============================================================================
