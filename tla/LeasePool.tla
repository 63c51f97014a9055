------------------------------ MODULE LeasePool ------------------------------
(***************************************************************************)
(* What the browser pool promises its callers, without saying how: page    *)
(* slots are leased one request at a time and never beyond the instance's  *)
(* capacity, and at most one instance is being replaced at any moment.     *)
(* Pool implements this specification (Pool!Leases).                       *)
(***************************************************************************)
EXTENDS Naturals, FiniteSets

CONSTANTS
  Instances,   \* the chromium instances of the pool
  Requests,    \* the callers of checkout
  Pages        \* page slots per instance

VARIABLES
  lessees,     \* lessees[i]: the requests that hold a page slot of i
  replacing    \* the instances whose subprocess is being drained and replaced

leaseVars == <<lessees, replacing>>

Free(r) == \A i \in Instances : r \notin lessees[i]

Init ==
  /\ lessees = [i \in Instances |-> {}]
  /\ replacing = {}

(* A request that holds no slot takes a free one. *)
Lease(r, i) ==
  /\ Free(r)
  /\ Cardinality(lessees[i]) < Pages
  /\ lessees' = [lessees EXCEPT ![i] = @ \cup {r}]
  /\ UNCHANGED replacing

Return(r, i) ==
  /\ r \in lessees[i]
  /\ lessees' = [lessees EXCEPT ![i] = @ \ {r}]
  /\ UNCHANGED replacing

(* The slot goes straight to a request that was waiting for it. *)
HandOver(r, s, i) ==
  /\ r \in lessees[i]
  /\ Free(s)
  /\ lessees' = [lessees EXCEPT ![i] = (@ \ {r}) \cup {s}]
  /\ UNCHANGED replacing

BeginReplace(i) ==
  /\ replacing = {}
  /\ replacing' = {i}
  /\ UNCHANGED lessees

(* The instance is back in service; the next one in line may begin. *)
EndReplace(i) ==
  /\ replacing = {i}
  /\ replacing' \in {{}} \cup {{j} : j \in Instances \ {i}}
  /\ UNCHANGED lessees

Next ==
  \/ \E i \in Instances : BeginReplace(i) \/ EndReplace(i)
  \/ \E i \in Instances, r \in Requests :
       \/ Lease(r, i)
       \/ Return(r, i)
       \/ \E s \in Requests : HandOver(r, s, i)

Spec == Init /\ [][Next]_leaseVars
=============================================================================
