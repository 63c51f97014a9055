---------------------------- MODULE ServiceProofs ----------------------------
(***************************************************************************)
(* For every number of requests, pages, URLs and worker slots, and for     *)
(* every rate, burst and unit: the rate limiter is exact (BucketInv), the  *)
(* gauge counts the captures under way, pages are never oversubscribed and *)
(* a batch is answered whole (ServiceInv).                                 *)
(***************************************************************************)
EXTENDS Service, FiniteSetTheorems, TLAPS

(* What was left at the last visit; no visit is later than now. *)
BucketInv ==
  /\ clock \in Nat /\ last \in Nat /\ last <= clock
  /\ tokens \in Int /\ 0 <= tokens /\ tokens <= Capacity
  /\ grants \in Seq(Nat)
  /\ Rps # 0 => \A i \in 1 .. Len(grants) : tokens <= Left(i, last)
  /\ Rps # 0 => \/ tokens = Capacity
                \/ \E i \in 1 .. Len(grants) : tokens = Left(i, last)

(* The bucket holds at least one token.                                    *)
LEMMA CapacityType == Capacity \in Nat /\ Unit <= Capacity
  <1>1. \A b \in Nat \ {0}, u \in Nat \ {0} : b * u \in Nat /\ u <= b * u
    <2> SUFFICES ASSUME NEW b \in Nat \ {0}, NEW u \in Nat \ {0}
                 PROVE  b * u \in Nat /\ u <= b * u
      OBVIOUS
    <2>1. (b - 1) * u >= 0  OBVIOUS
    <2>2. (b - 1) * u = b * u - u  OBVIOUS
    <2> QED  BY <2>1, <2>2
  <1> QED  BY <1>1, LimiterAssumption DEF Capacity, LimiterAssumption

(* The refill of two spans is the refill of both together. *)
LEMMA RefillAdds ==
  ASSUME NEW a \in Nat, NEW s \in Nat, NEW t \in Nat, NEW u \in Nat
  PROVE  a * (s - u) + a * (t - s) = a * (t - u)
  OBVIOUS

(* A refill is never negative.                                             *)
LEMMA RefillGrows ==
  ASSUME NEW a \in Nat, NEW s \in Nat, NEW t \in Nat, s <= t
  PROVE  a * (t - s) \in Nat
  OBVIOUS

(* What a window has left grows by the refill and by nothing else. *)
LEMMA LeftShifts ==
  ASSUME BucketInv, NEW i \in 1 .. Len(grants)
  PROVE  /\ Left(i, last) \in Int /\ Left(i, clock) \in Int
         /\ Left(i, clock) = Left(i, last) + Rps * (clock - last)
  <1>1. /\ Capacity \in Nat /\ Unit \in Nat /\ Rps \in Nat
        /\ grants[i] \in Nat /\ clock \in Nat /\ last \in Nat
        /\ Len(grants) \in Nat
    BY CapacityType, LimiterAssumption DEF BucketInv, LimiterAssumption
  <1>2. Rps * (last - grants[i]) + Rps * (clock - last) = Rps * (clock - grants[i])
    BY <1>1, RefillAdds
  <1>3. PICK a \in Int, b \in Int, c \in Int, d \in Int :
          /\ a = Rps * (last - grants[i]) /\ b = Rps * (clock - last)
          /\ c = Rps * (clock - grants[i]) /\ d = (Len(grants) + 1 - i) * Unit
    BY <1>1
  <1>4. Left(i, last) = Capacity + a - d /\ Left(i, clock) = Capacity + c - d
    BY <1>3 DEF Left
  <1>5. a + b = c
    BY <1>2, <1>3
  <1>6. /\ Left(i, last) \in Int /\ Left(i, clock) \in Int
        /\ Left(i, clock) = Left(i, last) + b
    BY <1>1, <1>4, <1>5
  <1> QED  BY <1>3, <1>6

(* Refilled up to now the bucket is as exact as it was at its last visit.  *)
LEMMA RefilledExact ==
  ASSUME BucketInv
  PROVE  /\ Refilled \in Int /\ 0 <= Refilled /\ Refilled <= Capacity
         /\ Rps # 0 => \A i \in 1 .. Len(grants) : Refilled <= Left(i, clock)
         /\ Rps # 0 => \/ Refilled = Capacity
                       \/ \E i \in 1 .. Len(grants) : Refilled = Left(i, clock)
  <1> DEFINE refill == Rps * (clock - last)
  <1>1. /\ Capacity \in Nat /\ tokens \in Int
        /\ 0 <= tokens /\ tokens <= Capacity
    BY CapacityType DEF BucketInv
  <1>2. refill \in Nat
    BY RefillGrows, LimiterAssumption DEF BucketInv, LimiterAssumption
  <1> HIDE DEF refill
  <1>3. Refilled = IF tokens + refill < Capacity THEN tokens + refill ELSE Capacity
    BY DEF Refilled, refill
  <1>4. Refilled \in Int /\ 0 <= Refilled /\ Refilled <= Capacity /\ Refilled <= tokens + refill
    BY <1>1, <1>2, <1>3
  <1>5. \A i \in 1 .. Len(grants) :
          /\ Left(i, last) \in Int /\ Left(i, clock) = Left(i, last) + refill
    BY LeftShifts DEF refill
  <1>6. ASSUME Rps # 0, NEW i \in 1 .. Len(grants)
        PROVE  Refilled <= Left(i, clock)
    <2>1. tokens <= Left(i, last)  BY <1>6 DEF BucketInv
    <2> QED  BY <1>1, <1>2, <1>4, <1>5, <2>1
  <1>7. ASSUME Rps # 0
        PROVE  Refilled = Capacity \/ \E i \in 1 .. Len(grants) : Refilled = Left(i, clock)
    <2>1. CASE tokens + refill >= Capacity
      BY <1>1, <1>2, <1>3, <2>1
    <2>2. CASE tokens + refill < Capacity
      <3>1. Refilled = tokens + refill /\ tokens # Capacity
        BY <1>1, <1>2, <1>3, <2>2
      <3>2. PICK i \in 1 .. Len(grants) : tokens = Left(i, last)
        BY <1>7, <3>1 DEF BucketInv
      <3> QED  BY <1>5, <3>1, <3>2
    <2> QED  BY <1>1, <1>2, <2>1, <2>2
  <1> QED  BY <1>4, <1>6, <1>7

(* The invariant is what the property says, at the last visit. *)
LEMMA BucketIsExact == BucketInv => LimiterExact
  BY RefilledExact DEF LimiterExact

(* A grant takes a token and opens a window of its own.                    *)
LEMMA AcquireKeepsBucket ==
  ASSUME BucketInv, Acquire
  PROVE  BucketInv'
  <1>1. /\ Capacity \in Nat /\ Unit \in Nat \ {0} /\ Unit <= Capacity /\ Rps \in Nat
        /\ clock \in Nat /\ last \in Nat /\ last <= clock
        /\ grants \in Seq(Nat) /\ Len(grants) \in Nat
    BY CapacityType, LimiterAssumption DEF BucketInv, LimiterAssumption
  <1>2. /\ grants' = Append(grants, clock) /\ clock' = clock
        /\ grants' \in Seq(Nat) /\ Len(grants') = Len(grants) + 1
        /\ grants'[Len(grants) + 1] = clock
        /\ \A i \in 1 .. Len(grants) : grants'[i] = grants[i]
    BY <1>1 DEF Acquire
  <1>3. CASE Rps = 0
    <2>1. tokens' = tokens /\ last' = last
      BY <1>3 DEF Acquire
    <2> QED  BY <1>1, <1>2, <1>3, <2>1 DEF BucketInv, Capacity
  <1>4. CASE Rps # 0
    <2>1. tokens' = Refilled - Unit /\ last' = clock /\ Unit <= Refilled
      BY <1>1, <1>4, RefilledExact DEF Acquire
    <2>2. tokens' \in Int /\ 0 <= tokens' /\ tokens' <= Capacity - Unit
      BY <1>1, <2>1, RefilledExact
    <2>3. ASSUME NEW i \in 1 .. Len(grants) + 1
          PROVE  Left(i, last)' = Capacity + Rps * (clock - grants'[i])
                                     - (Len(grants) + 2 - i) * Unit
      <3>1. Len(grants) + 1 + 1 - i = Len(grants) + 2 - i  BY <1>1
      <3>2. Left(i, last)' = Capacity + Rps * (last' - grants'[i])
                               - (Len(grants') + 1 - i) * Unit
        BY DEF Left, Capacity
      <3> QED  BY <1>2, <2>1, <3>1, <3>2
    <2>4. ASSUME NEW i \in 1 .. Len(grants)
          PROVE  Left(i, last)' = Left(i, clock) - Unit
      <3>1. i \in 1 .. Len(grants) + 1 /\ grants'[i] = grants[i] /\ grants[i] \in Nat
        BY <1>1, <1>2
      <3>2. Len(grants) + 1 - i \in Int /\ clock - grants[i] \in Int  BY <1>1, <3>1
      <3>3. PICK n, s : /\ n \in Int /\ s \in Int
                        /\ n = Len(grants) + 1 - i /\ s = clock - grants[i]
        BY <3>2
      <3>4. PICK a, c : a \in Int /\ c \in Int /\ a = Rps * s /\ c = n * Unit
        <4>1. Rps * s \in Int /\ n * Unit \in Int  BY <1>1, <3>3
        <4> QED  BY <4>1
      <3>5. (n + 1) * Unit = c + Unit  BY <1>1, <3>3, <3>4
      <3>6. Len(grants) + 2 - i = n + 1  BY <1>1, <3>1, <3>3
      <3>7. Left(i, last)' = Capacity + a - (c + Unit)
        BY <2>3, <3>1, <3>3, <3>4, <3>5, <3>6
      <3>8. Left(i, clock) = Capacity + a - c  BY <3>3, <3>4 DEF Left
      <3> QED  BY <1>1, <3>4, <3>7, <3>8
    <2>5. ASSUME NEW i, i = Len(grants) + 1
          PROVE  Left(i, last)' = Capacity - Unit
      <3>1. /\ i \in 1 .. Len(grants) + 1 /\ grants'[i] = clock
            /\ Len(grants) + 2 - i = 1 /\ clock - clock = 0
        BY <1>1, <1>2, <2>5
      <3>2. Rps * 0 = 0 /\ 1 * Unit = Unit  BY <1>1
      <3>3. Left(i, last)' = Capacity + Rps * 0 - 1 * Unit  BY <2>3, <3>1
      <3> QED  BY <1>1, <3>2, <3>3
    <2>6. ASSUME NEW i \in 1 .. Len(grants')
          PROVE  tokens' <= Left(i, last)'
      <3>1. CASE i \in 1 .. Len(grants)
        <4>1. Refilled <= Left(i, clock)  BY <1>4, <3>1, RefilledExact
        <4>2. Left(i, clock) \in Int /\ Refilled \in Int
          BY <3>1, RefilledExact, LeftShifts
        <4>3. Left(i, last)' = Left(i, clock) - Unit  BY <2>4, <3>1
        <4> QED  BY <1>1, <2>1, <4>1, <4>2, <4>3
      <3>2. CASE i = Len(grants) + 1
        BY <1>1, <2>2, <2>5, <3>2
      <3> QED  BY <1>1, <1>2, <3>1, <3>2
    <2>7. \E i \in 1 .. Len(grants') : tokens' = Left(i, last)'
      <3>1. CASE Refilled = Capacity
        <4>1. Len(grants) + 1 \in 1 .. Len(grants')  BY <1>1, <1>2
        <4>2. PICK i \in 1 .. Len(grants') : i = Len(grants) + 1  BY <4>1
        <4> QED  BY <2>1, <2>5, <3>1, <4>2
      <3>2. CASE \E i \in 1 .. Len(grants) : Refilled = Left(i, clock)
        <4>1. PICK i \in 1 .. Len(grants) : Refilled = Left(i, clock)  BY <3>2
        <4>2. i \in 1 .. Len(grants') /\ tokens' = Left(i, last)'
          BY <1>1, <1>2, <2>1, <2>4, <4>1
        <4> QED  BY <4>2
      <3> QED  BY <1>4, <3>1, <3>2, RefilledExact
    <2>8. Capacity' = Capacity  BY DEF Capacity
    <2>9. tokens' <= Capacity' /\ last' \in Nat /\ last' <= clock' /\ clock' \in Nat
      BY <1>1, <1>2, <2>1, <2>2, <2>8
    <2> QED  BY <1>2, <2>2, <2>6, <2>7, <2>9 DEF BucketInv
  <1> QED  BY <1>3, <1>4

(* A refusal keeps the refill and takes nothing.                           *)
LEMMA DeniedKeepsBucket ==
  ASSUME BucketInv, Denied
  PROVE  BucketInv'
  <1>1. /\ Rps # 0 /\ tokens' = Refilled /\ last' = clock
        /\ clock' = clock /\ grants' = grants /\ Capacity' = Capacity
    BY DEF Denied, Capacity
  <1>2. \A i \in 1 .. Len(grants) : Left(i, last)' = Left(i, clock)
    BY <1>1 DEF Left, Capacity
  <1>3. clock \in Nat /\ clock <= clock
    BY DEF BucketInv
  <1> QED  BY <1>1, <1>2, <1>3, RefilledExact DEF BucketInv

(* Time alone changes nothing that was left at a visit.                    *)
LEMMA TimeKeepsBucket ==
  ASSUME BucketInv, TimePasses
  PROVE  BucketInv'
  BY DEF BucketInv, TimePasses, Left, Capacity

(* What leaves the limiter alone keeps it exact.                           *)
LEMMA StillKeepsBucket ==
  ASSUME BucketInv, UNCHANGED limiterVars
  PROVE  BucketInv'
  BY DEF BucketInv, limiterVars, Left, Capacity

(* Whatever the service does, it touches the bucket only through these. *)
LEMMA ServiceTouchesBucket ==
  ASSUME [Next]_vars
  PROVE  Acquire \/ Denied \/ TimePasses \/ UNCHANGED limiterVars
  <1>1. CASE UNCHANGED vars  BY <1>1 DEF vars, limiterVars
  <1>2. ASSUME NEW r \in Requests, Refuse(r) \/ TooMany(r) \/ Reject(r)
                                    \/ Poll(r) \/ Submit(r) \/ Begin(r)
                                    \/ CallTool(r) \/ Open(r)
        PROVE  Acquire \/ Denied \/ UNCHANGED limiterVars
    BY <1>2 DEF Refuse, TooMany, Reject, Poll, Submit, Begin, CallTool, Open, Granted
  <1>3. CASE Arrival  BY <1>2, <1>3 DEF Arrival
  <1>4. CASE RequestsRun \/ WorkerStops \/ Back \/ Down \/ Done
    BY <1>4 DEF RequestsRun, WorkerStops, Back, Down, Done, vars, limiterVars
  <1>5. CASE Next
    BY <1>3, <1>4, <1>5 DEF Next, limiterVars
  <1> QED  BY <1>1, <1>5

-----------------------------------------------------------------------------
(* The captures of the service.                                            *)

Statuses == {200, 400, 401, 403, 404, 429, 503} \cup Outcomes
Stages == Live \cup {"none", "waiting", "done", "dropped"}

Typed ==
  /\ phase \in [Requests -> {"unsent", "running", "answered", "gone"}]
  /\ reply \in [Requests -> {0} \cup Statuses]
  /\ DOMAIN stage = Requests
  /\ \A r \in Requests : stage[r] \in [Index(r) -> Stages]
  /\ DOMAIN results = Requests
  /\ \A r \in Requests : DOMAIN results[r] \subseteq Index(r)

(* A capture is under way only for a URL that passed the checks before it, *)
(* and every slot that is filled holds its own URL's outcome.              *)
Honest(r, k) ==
  /\ stage[r][k] \in Live => Screened(r, k) = 0
  /\ stage[r][k] = "resolving" => ~AllowPrivate
  /\ stage[r][k] \in {"queued", "capturing"} =>
       AllowPrivate \/ Urls(r)[k] \notin {"blocked", "unresolved"}
  /\ stage[r][k] = "done" => k \in DOMAIN results[r]
  /\ k \in DOMAIN results[r] => /\ results[r][k].url = Urls(r)[k]
                                /\ results[r][k].status \in Expected(r, k)

(* No capture before its request, and a batch's answer after all of them.  *)
Ordered(r) ==
  /\ phase[r] = "running" => Shape[r].route \in {"summary", "batch", "mcp", "stream"}
  /\ phase[r] = "unsent" => \A k \in Index(r) : stage[r][k] = "none"
  /\ phase[r] = "answered" /\ reply[r] = 200 /\ Shape[r].route = "batch" =>
       \A k \in Index(r) : stage[r][k] = "done"
  /\ Cardinality(LiveOf(r)) <= Concurrency(r)

(* There are finitely many captures, and gauge and pages count them.       *)
Counted ==
  /\ IsFiniteSet(At(Live)) /\ worker_jobs \in Nat
  /\ GaugeBalanced
  /\ Taken <= Pages

Requested == /\ Typed
             /\ \A r \in Requests : Ordered(r) /\ \A k \in Index(r) : Honest(r, k)
             /\ Counted

(* The variables that belong to no request.                                *)
Around ==
  /\ clock <= MaxTime
  /\ shutdown \in BOOLEAN
  /\ server \in {"up", "closing", "draining", "stopped", "exited"}
  /\ worker \in {"polling", "lost", "draining", "done"}
  /\ redis \in {"up", "down"} /\ outages \in 0 .. MaxOutages
  /\ worker_jobs \in 0 .. WorkerSlots

ServiceInv == BucketInv /\ Requested /\ Around

(* The URLs of a request, and what ServiceAssumption says of them.         *)
LEMMA RequestFacts ==
  ASSUME NEW r \in Requests
  PROVE  /\ Len(Urls(r)) \in Nat /\ Index(r) \subseteq Nat /\ IsFiniteSet(Index(r))
         /\ Concurrency(r) \in Nat /\ Pages \in Nat
         /\ \A k \in Index(r) : Urls(r)[k] \in UrlKinds
         /\ Shape[r].route \in {"summary", "jobs", "mcp"} => Index(r) = {1}
  <1>1. Urls(r) \in Seq(UrlKinds) /\ Pages \in Nat
        /\ (Shape[r].route \in {"summary", "jobs", "mcp"} => Len(Urls(r)) = 1)
    BY ServiceAssumption DEF ServiceAssumption, Urls
  <1>2. Len(Urls(r)) \in Nat /\ \A k \in 1 .. Len(Urls(r)) : Urls(r)[k] \in UrlKinds
    BY <1>1
  <1>3. IsFiniteSet(1 .. Len(Urls(r)))
    BY <1>2, FS_Interval
  <1> QED  BY <1>1, <1>2, <1>3 DEF Index, Concurrency

(* The captures of a request are finitely many.                            *)
LEMMA LiveFinite ==
  ASSUME NEW r \in Requests
  PROVE  IsFiniteSet(LiveOf(r)) /\ Cardinality(LiveOf(r)) \in Nat
  <1>1. LiveOf(r) \subseteq Index(r)  BY DEF LiveOf
  <1> QED  BY <1>1, RequestFacts, FS_Subset, FS_CardinalityType

(* An item is a request and the index of one of its URLs.                  *)
LEMMA ItemsAre ==
  ASSUME NEW r \in Requests, NEW k \in Index(r)
  PROVE  /\ <<r, k>> \in Items /\ <<r, k>>[1] = r /\ <<r, k>>[2] = k
  BY DEF Items

(* And every item is one.                                                  *)
LEMMA ItemOf ==
  ASSUME NEW i \in Items
  PROVE  i[1] \in Requests /\ i[2] \in Index(i[1]) /\ i = <<i[1], i[2]>>
  <1>1. PICK r \in Requests : i \in {<<r, k>> : k \in Index(r)}  BY DEF Items
  <1>2. PICK k \in Index(r) : i = <<r, k>>  BY <1>1
  <1> QED  BY <1>2

(* One item moves, every other one stays where it is.                      *)
LEMMA Moved ==
  ASSUME Typed, NEW r \in Requests, NEW k \in Index(r), NEW to \in Stages, Move(r, k, to)
  PROVE  /\ DOMAIN stage' = Requests
         /\ \A q \in Requests : stage'[q] \in [Index(q) -> Stages]
         /\ stage'[r][k] = to
         /\ \A q \in Requests : \A j \in Index(q) :
              q # r \/ j # k => stage'[q][j] = stage[q][j]
  BY DEF Typed, Move

(* Who stands where, after one item has moved.                             *)
LEMMA MovedAt ==
  ASSUME Typed, NEW r \in Requests, NEW k \in Index(r), NEW to \in Stages, Move(r, k, to),
         NEW S
  PROVE  At(S)' = IF to \in S THEN At(S) \cup {<<r, k>>} ELSE At(S) \ {<<r, k>>}
  <1>1. ASSUME NEW i \in Items
        PROVE  stage'[i[1]][i[2]] = IF i = <<r, k>> THEN to ELSE stage[i[1]][i[2]]
    BY Moved, ItemOf
  <1>2. <<r, k>> \in Items  BY ItemsAre
  <1>3. At(S)' = {i \in Items : stage'[i[1]][i[2]] \in S}  BY DEF At
  <1>4. CASE to \in S
    <2>1. \A i \in Items : stage'[i[1]][i[2]] \in S <=> i = <<r, k>> \/ stage[i[1]][i[2]] \in S
      BY <1>1, <1>4
    <2> QED  BY <1>2, <1>3, <1>4, <2>1 DEF At
  <1>5. CASE to \notin S
    <2>1. \A i \in Items : stage'[i[1]][i[2]] \in S <=> i # <<r, k>> /\ stage[i[1]][i[2]] \in S
      BY <1>1, <1>5
    <2> QED  BY <1>3, <1>5, <2>1 DEF At
  <1> QED  BY <1>4, <1>5

(* The captures of each request, after one item has moved.                 *)
LEMMA MovedLive ==
  ASSUME Typed, NEW r \in Requests, NEW k \in Index(r), NEW to \in Stages, Move(r, k, to)
  PROVE  /\ LiveOf(r)' = IF to \in Live THEN LiveOf(r) \cup {k} ELSE LiveOf(r) \ {k}
         /\ \A q \in Requests \ {r} : LiveOf(q)' = LiveOf(q)
  <1>1. LiveOf(r)' = {j \in Index(r) : stage'[r][j] \in Live}  BY DEF LiveOf
  <1>2. \A j \in Index(r) : stage'[r][j] = IF j = k THEN to ELSE stage[r][j]
    BY Moved
  <1>3. \A q \in Requests \ {r} : \A j \in Index(q) : stage'[q][j] = stage[q][j]
    BY Moved
  <1>4. ASSUME NEW q \in Requests \ {r}  PROVE LiveOf(q)' = LiveOf(q)
    <2>1. LiveOf(q)' = {j \in Index(q) : stage'[q][j] \in Live}  BY DEF LiveOf
    <2> QED  BY <1>3, <2>1 DEF LiveOf
  <1> QED  BY <1>1, <1>2, <1>4 DEF LiveOf

(* The captures that hold a page are among those under way.                *)
LEMMA TakenFinite ==
  ASSUME IsFiniteSet(At(Live))
  PROVE  /\ Cardinality(At(Live)) \in Nat
         /\ IsFiniteSet(At({"capturing"})) /\ Cardinality(At({"capturing"})) \in Nat
  <1>1. At({"capturing"}) \subseteq At(Live)  BY DEF At, Live
  <1> QED  BY <1>1, FS_Subset, FS_CardinalityType

(* What a move adds to the captures under way, or takes from them.         *)
LEMMA MovedCount ==
  ASSUME Typed, NEW r \in Requests, NEW k \in Index(r), NEW to \in Stages, Move(r, k, to),
         NEW S, IsFiniteSet(At(S))
  PROVE  /\ IsFiniteSet(At(S)')
         /\ stage[r][k] \notin S /\ to \in S =>
              Cardinality(At(S)') = Cardinality(At(S)) + 1
         /\ stage[r][k] \in S /\ to \notin S =>
              Cardinality(At(S)') = Cardinality(At(S)) - 1
         /\ (stage[r][k] \in S <=> to \in S) =>
              Cardinality(At(S)') = Cardinality(At(S))
  <1>1. <<r, k>> \in At(S) <=> stage[r][k] \in S
    BY ItemsAre DEF At
  <1>2. CASE to \in S
    <2>1. At(S)' = At(S) \cup {<<r, k>>}  BY <1>2, MovedAt
    <2> HIDE DEF At
    <2>2. /\ IsFiniteSet(At(S) \cup {<<r, k>>})
          /\ Cardinality(At(S) \cup {<<r, k>>}) =
               IF <<r, k>> \in At(S) THEN Cardinality(At(S)) ELSE Cardinality(At(S)) + 1
      BY FS_AddElement
    <2> QED  BY <1>1, <1>2, <2>1, <2>2
  <1>3. CASE to \notin S
    <2>1. At(S)' = At(S) \ {<<r, k>>}  BY <1>3, MovedAt
    <2> HIDE DEF At
    <2>2. /\ IsFiniteSet(At(S) \ {<<r, k>>})
          /\ Cardinality(At(S) \ {<<r, k>>}) =
               IF <<r, k>> \in At(S) THEN Cardinality(At(S)) - 1 ELSE Cardinality(At(S))
      BY FS_RemoveElement
    <2> QED  BY <1>1, <1>3, <2>1, <2>2
  <1> QED  BY <1>2, <1>3

-----------------------------------------------------------------------------
(* One step of one capture.                                                *)

(* The slot of item k is filled, and no other one.                         *)
Filled(r, k, status) ==
  results' = [results EXCEPT ![r] =
                [i \in DOMAIN @ \cup {k} |->
                   IF i = k THEN [url |-> Urls(r)[k], status |-> status] ELSE @[i]]]

(* What every step of an item does, however it is called.                  *)
ItemMove(r, k, to) ==
  /\ UNCHANGED <<phase, reply, worker_jobs>>
  /\ Move(r, k, to)
  /\ stage[r][k] \in Live \cup {"waiting"} /\ to \in Live \cup {"done"}
  /\ in_flight' = in_flight + (IF to \in Live THEN 1 ELSE 0)
                             - (IF stage[r][k] \in Live THEN 1 ELSE 0)
  /\ to = "done" => \E status \in Expected(r, k) : Filled(r, k, status)
  /\ to \in Live => /\ UNCHANGED results
                    /\ Screened(r, k) = 0
                    /\ stage[r][k] = "waiting" => Cardinality(LiveOf(r)) < Concurrency(r)
  /\ to = "resolving" => ~AllowPrivate
  /\ to \in {"queued", "capturing"} =>
       AllowPrivate \/ Urls(r)[k] \notin {"blocked", "unresolved"}
  /\ to = "capturing" => Taken < Pages

(* Concluding an item fills its own slot and no other.                     *)
LEMMA FilledOnly ==
  ASSUME Typed, NEW r \in Requests, NEW k \in Index(r), NEW status, Filled(r, k, status)
  PROVE  /\ DOMAIN results' = Requests
         /\ \A q \in Requests : DOMAIN results'[q] \subseteq Index(q)
         /\ k \in DOMAIN results'[r]
         /\ results'[r][k].url = Urls(r)[k] /\ results'[r][k].status = status
         /\ \A q \in Requests : \A j \in Index(q) : q # r \/ j # k =>
              /\ j \in DOMAIN results'[q] <=> j \in DOMAIN results[q]
              /\ j \in DOMAIN results[q] => results'[q][j] = results[q][j]
  BY DEF Typed, Filled

(* A step of an item keeps the types.                                      *)
LEMMA ItemTyped ==
  ASSUME Typed, NEW r \in Requests, NEW k \in Index(r), NEW to, ItemMove(r, k, to)
  PROVE  Typed'
  <1>1. to \in Stages /\ Move(r, k, to)  BY DEF ItemMove, Stages
  <1>2. DOMAIN results' = Requests /\ \A q \in Requests : DOMAIN results'[q] \subseteq Index(q)
    <2>1. CASE to = "done"
      BY <2>1, FilledOnly DEF ItemMove
    <2>2. CASE to \in Live
      BY <2>2 DEF ItemMove, Typed
    <2> QED  BY <2>1, <2>2 DEF ItemMove
  <1>3. phase' = phase /\ reply' = reply  BY DEF ItemMove
  <1> QED  BY <1>1, <1>2, <1>3, Moved DEF Typed

(* A step of an item leaves every slot with its own URL's outcome.         *)
LEMMA ItemHonest ==
  ASSUME Typed, NEW r \in Requests, NEW k \in Index(r), NEW to, ItemMove(r, k, to),
         \A q \in Requests : \A j \in Index(q) : Honest(q, j)
  PROVE  \A q \in Requests : \A j \in Index(q) : Honest(q, j)'
  <1>1. to \in Stages /\ Move(r, k, to)  BY DEF ItemMove, Stages
  <1>2. stage'[r][k] = to  BY <1>1, Moved
  <1>3. "done" \notin Live /\ "done" # "resolving" /\ "done" \notin {"queued", "capturing"}
    BY DEF Live
  <1>4. Honest(r, k)'
    <2>1. CASE to = "done"
      <3>1. PICK status \in Expected(r, k) : Filled(r, k, status)
        BY <2>1 DEF ItemMove
      <3>2. /\ k \in DOMAIN results'[r]
            /\ results'[r][k].url = Urls(r)[k] /\ results'[r][k].status = status
        BY <3>1, FilledOnly
      <3> QED  BY <1>2, <1>3, <2>1, <3>2 DEF Honest
    <2>2. CASE to \in Live
      <3>1. results' = results /\ Screened(r, k) = 0  BY <2>2 DEF ItemMove
      <3>2. Honest(r, k)  OBVIOUS
      <3> QED  BY <1>2, <1>3, <2>2, <3>1, <3>2 DEF Honest, ItemMove
    <2> QED  BY <2>1, <2>2 DEF ItemMove
  <1>5. ASSUME NEW q \in Requests, NEW j \in Index(q), q # r \/ j # k
        PROVE  Honest(q, j)'
    <2>1. stage'[q][j] = stage[q][j]  BY <1>1, <1>5, Moved
    <2>2. /\ j \in DOMAIN results'[q] <=> j \in DOMAIN results[q]
          /\ j \in DOMAIN results[q] => results'[q][j] = results[q][j]
      <3>1. CASE to = "done"
        BY <1>5, <3>1, FilledOnly DEF ItemMove
      <3>2. CASE to \in Live
        BY <3>2 DEF ItemMove
      <3> QED  BY <3>1, <3>2 DEF ItemMove
    <2>3. Honest(q, j)  OBVIOUS
    <2> QED  BY <2>1, <2>2, <2>3 DEF Honest
  <1> QED  BY <1>4, <1>5

(* A step of an item keeps requests and items in order.                    *)
LEMMA ItemOrdered ==
  ASSUME Typed, NEW r \in Requests, NEW k \in Index(r), NEW to, ItemMove(r, k, to),
         \A q \in Requests : Ordered(q)
  PROVE  \A q \in Requests : Ordered(q)'
  <1>1. /\ to \in Stages /\ Move(r, k, to) /\ phase' = phase /\ reply' = reply
        /\ stage[r][k] \in Live \cup {"waiting"}
    BY DEF ItemMove, Stages
  <1>2. ASSUME NEW q \in Requests, q # r  PROVE Ordered(q)'
    <2>1. /\ LiveOf(q)' = LiveOf(q)
          /\ \A j \in Index(q) : stage'[q][j] = stage[q][j]
      BY <1>1, <1>2, Moved, MovedLive
    <2>2. Concurrency(q)' = Concurrency(q) /\ Cardinality(LiveOf(q))' = Cardinality(LiveOf(q))
      BY <2>1
    <2> QED  BY <1>1, <2>1, <2>2 DEF Ordered
  <1>3. Ordered(r)'
    <2>1. phase[r] # "unsent" /\ ~\A j \in Index(r) : stage[r][j] = "done"
      <3>1. stage[r][k] # "none" /\ stage[r][k] # "done"  BY <1>1 DEF Live
      <3>2. Ordered(r)  OBVIOUS
      <3> QED  BY <3>1, <3>2 DEF Ordered
    <2>2. Cardinality(LiveOf(r)') <= Concurrency(r)
      <3>0. /\ IsFiniteSet(LiveOf(r)) /\ Cardinality(LiveOf(r)) \in Nat
            /\ Concurrency(r) \in Nat /\ Cardinality(LiveOf(r)) <= Concurrency(r)
        BY LiveFinite, RequestFacts DEF Ordered
      <3>1. CASE to \in Live
        <4>1. LiveOf(r)' = LiveOf(r) \cup {k}  BY <1>1, <3>1, MovedLive
        <4>2. stage[r][k] = "waiting" => Cardinality(LiveOf(r)) < Concurrency(r)
          BY <3>1 DEF ItemMove
        <4>3. stage[r][k] \in Live <=> k \in LiveOf(r)  BY DEF LiveOf
        <4> HIDE DEF LiveOf, Concurrency
        <4>4. Cardinality(LiveOf(r) \cup {k}) =
                IF k \in LiveOf(r) THEN Cardinality(LiveOf(r)) ELSE Cardinality(LiveOf(r)) + 1
          BY <3>0, FS_AddElement
        <4> QED  BY <1>1, <3>0, <4>1, <4>2, <4>3, <4>4
      <3>2. CASE to \notin Live
        <4>1. LiveOf(r)' = LiveOf(r) \ {k}  BY <1>1, <3>2, MovedLive
        <4>2. Cardinality(LiveOf(r) \ {k}) =
                IF k \in LiveOf(r) THEN Cardinality(LiveOf(r)) - 1 ELSE Cardinality(LiveOf(r))
          BY <3>0, FS_RemoveElement
        <4> QED  BY <3>0, <4>1, <4>2
      <3> QED  BY <3>1, <3>2
    <2>3. phase'[r] # "unsent"  BY <1>1, <2>1
    <2>4. ~(phase[r] = "answered" /\ reply[r] = 200 /\ Shape[r].route = "batch")
      BY <2>1 DEF Ordered
    <2> QED  BY <1>1, <2>2, <2>3, <2>4 DEF Ordered
  <1> QED  BY <1>2, <1>3

(* A step of an item counts itself in or out.                              *)
LEMMA ItemCounted ==
  ASSUME Typed, Counted, NEW r \in Requests, NEW k \in Index(r), NEW to, ItemMove(r, k, to)
  PROVE  Counted'
  <1>1. /\ to \in Stages /\ Move(r, k, to) /\ worker_jobs' = worker_jobs
        /\ stage[r][k] \in Live \cup {"waiting"} /\ to \in Live \cup {"done"}
        /\ in_flight' = in_flight + (IF to \in Live THEN 1 ELSE 0)
                                   - (IF stage[r][k] \in Live THEN 1 ELSE 0)
    BY DEF ItemMove, Stages
  <1>2. /\ IsFiniteSet(At(Live)) /\ Cardinality(At(Live)) \in Nat
        /\ IsFiniteSet(At({"capturing"})) /\ Cardinality(At({"capturing"})) \in Nat
        /\ worker_jobs \in Nat /\ Pages \in Nat
    BY TakenFinite, RequestFacts DEF Counted
  <1>3. /\ IsFiniteSet(At(Live)') /\ IsFiniteSet(At({"capturing"})')
        /\ Cardinality(At(Live)') = Cardinality(At(Live)) + (IF to \in Live THEN 1 ELSE 0)
                                        - (IF stage[r][k] \in Live THEN 1 ELSE 0)
    <2>1. "waiting" \notin Live /\ "done" \notin Live  BY DEF Live
    <2> HIDE DEF Live
    <2> QED  BY <1>1, <1>2, <2>1, MovedCount
  <1>4. in_flight = Cardinality(At(Live)) + worker_jobs  BY DEF Counted, GaugeBalanced
  <1>5. in_flight' = Cardinality(At(Live)') + worker_jobs'
    BY <1>1, <1>2, <1>3, <1>4
  <1>6. Cardinality(At({"capturing"})') + worker_jobs' <= Pages
    <2>1. Cardinality(At({"capturing"})) + worker_jobs <= Pages  BY DEF Counted, Taken
    <2>2. CASE to = "capturing"
      <3>1. Cardinality(At({"capturing"})) + worker_jobs < Pages
        BY <2>2 DEF ItemMove, Taken
      <3>2. Cardinality(At({"capturing"})') <= Cardinality(At({"capturing"})) + 1
        BY <1>1, <1>2, <2>2, MovedCount
      <3>3. Cardinality(At({"capturing"})') \in Nat  BY <1>3, FS_CardinalityType
      <3> QED  BY <1>1, <1>2, <3>1, <3>2, <3>3
    <2>3. CASE to # "capturing"
      <3>1. Cardinality(At({"capturing"})') <= Cardinality(At({"capturing"}))
        BY <1>1, <1>2, <2>3, MovedCount
      <3>2. Cardinality(At({"capturing"})') \in Nat  BY <1>3, FS_CardinalityType
      <3> QED  BY <1>1, <1>2, <2>1, <3>1, <3>2
    <2> QED  BY <2>2, <2>3
  <1> QED  BY <1>1, <1>2, <1>3, <1>5, <1>6 DEF Counted, GaugeBalanced, Taken

(* What a step of an item keeps, together.                                 *)
LEMMA ItemKeeps ==
  ASSUME Requested, NEW r \in Requests, NEW k \in Index(r), NEW to, ItemMove(r, k, to)
  PROVE  Requested'
  BY ItemTyped, ItemHonest, ItemOrdered, ItemCounted DEF Requested

(* What is refused before the first await is expected of that URL.         *)
LEMMA ScreenedExpected ==
  ASSUME NEW r \in Requests, NEW k \in Index(r)
  PROVE  /\ Screened(r, k) # 0 => Screened(r, k) \in Expected(r, k)
         /\ Screened(r, k) = 0 =>
              /\ ~(DisableScript /\ Shape[r].script)
              /\ Urls(r)[k] \notin {"empty", "malformed"}
  BY DEF Screened, Expected

(* Each action of an item is a move of it.                                 *)
LEMMA ActionsMove ==
  ASSUME Requested, NEW r \in Requests, NEW k \in Index(r), UNCHANGED <<phase, reply, worker_jobs>>,
         StartItem(r, k) \/ Resolve(r, k) \/ CheckOut(r, k) \/ Shed(r, k) \/ EndCapture(r, k)
  PROVE  \E to : ItemMove(r, k, to)
  <1>0. /\ Honest(r, k) /\ in_flight \in Int
        /\ Urls(r)[k] \in UrlKinds
    <2>1. in_flight = Cardinality(At(Live)) + worker_jobs /\ worker_jobs \in Nat
          /\ Cardinality(At(Live)) \in Nat
      BY TakenFinite DEF Requested, Counted, GaugeBalanced
    <2> QED  BY <2>1, RequestFacts DEF Requested
  <1>e. ASSUME NEW status \in Expected(r, k), stage[r][k] \in Live, End(r, k, status)
        PROVE  ItemMove(r, k, "done")
    <2>1. Filled(r, k, status) /\ Move(r, k, "done") /\ in_flight' = in_flight - 1
      BY <1>e DEF End, Conclude, Filled
    <2> QED  BY <1>0, <1>e, <2>1 DEF ItemMove, Live
  <1>1. CASE StartItem(r, k)
    <2>0. stage[r][k] = "waiting" /\ Cardinality(LiveOf(r)) < Concurrency(r)
      BY <1>1 DEF StartItem, MayStart
    <2>1. CASE Screened(r, k) # 0
      <3>1. Filled(r, k, Screened(r, k)) /\ Move(r, k, "done") /\ in_flight' = in_flight
        BY <1>1, <2>1 DEF StartItem, Conclude, Filled
      <3>2. ItemMove(r, k, "done")
        BY <1>0, <2>0, <2>1, <3>1, ScreenedExpected DEF ItemMove, Live
      <3> QED  BY <3>2
    <2>2. CASE Screened(r, k) = 0
      <3> DEFINE to == IF AllowPrivate THEN "queued" ELSE "resolving"
      <3>1. Move(r, k, to) /\ in_flight' = in_flight + 1 /\ results' = results
        BY <1>1, <2>2 DEF StartItem
      <3>2. ItemMove(r, k, to)
        BY <1>0, <2>0, <2>2, <3>1 DEF ItemMove, Live
      <3> QED  BY <3>2
    <2> QED  BY <2>1, <2>2
  <1>2. CASE Resolve(r, k)
    <2>0. /\ stage[r][k] = "resolving" /\ stage[r][k] \in Live
          /\ ~AllowPrivate /\ Screened(r, k) = 0
      BY <1>0, <1>2 DEF Resolve, Live, Honest
    <2>1. CASE Urls(r)[k] = "blocked"
      <3>1. End(r, k, 403) /\ 403 \in Expected(r, k)
        BY <1>2, <2>0, <2>1, ScreenedExpected DEF Resolve, Expected
      <3> QED  BY <1>e, <2>0, <3>1
    <2>2. CASE Urls(r)[k] = "unresolved"
      <3>1. End(r, k, 400) /\ 400 \in Expected(r, k)
        BY <1>2, <2>0, <2>2, ScreenedExpected DEF Resolve, Expected
      <3> QED  BY <1>e, <2>0, <3>1
    <2>3. CASE Urls(r)[k] \notin {"blocked", "unresolved"}
      <3>1. Move(r, k, "queued") /\ UNCHANGED <<results, in_flight>>
        BY <1>2, <2>3 DEF Resolve
      <3>2. ItemMove(r, k, "queued")
        BY <1>0, <2>0, <2>3, <3>1 DEF ItemMove, Live
      <3> QED  BY <3>2
    <2> QED  BY <2>1, <2>2, <2>3
  <1>3. CASE CheckOut(r, k)
    <2>1. ItemMove(r, k, "capturing")
      BY <1>0, <1>3 DEF CheckOut, ItemMove, Live, Honest
    <2> QED  BY <2>1
  <1>q. ASSUME stage[r][k] \in {"queued", "capturing"}
        PROVE  stage[r][k] \in Live /\ Expected(r, k) = Outcomes \cup {503}
    <2>1. /\ Screened(r, k) = 0 /\ stage[r][k] \in Live
          /\ AllowPrivate \/ Urls(r)[k] \notin {"blocked", "unresolved"}
      BY <1>0, <1>q DEF Honest, Live
    <2> QED  BY <1>0, <2>1, ScreenedExpected DEF Expected, UrlKinds
  <1>4. CASE Shed(r, k)
    BY <1>4, <1>e, <1>q DEF Shed
  <1>5. CASE EndCapture(r, k)
    <2>1. PICK status \in Outcomes : End(r, k, status) /\ stage[r][k] = "capturing"
      BY <1>5 DEF EndCapture
    <2> QED  BY <1>e, <1>q, <2>1
  <1> QED  BY <1>1, <1>2, <1>3, <1>4, <1>5

-----------------------------------------------------------------------------
(* One step of a request.                                                  *)

(* The stages of r change together, and none of its items was under way or *)
(* is now.                                                                 *)
LEMMA RestagedAt ==
  ASSUME Typed, NEW r \in Requests, NEW to \in Stages \ Live,
         stage' = [stage EXCEPT ![r] = [k \in Index(r) |-> to]], NEW S \in SUBSET Live
  PROVE  /\ At(S)' = At(S) \ {<<r, k>> : k \in LiveOf(r)}
         /\ LiveOf(r)' = {}
         /\ \A q \in Requests \ {r} : LiveOf(q)' = LiveOf(q)
         /\ \A q \in Requests \ {r} : stage'[q] = stage[q]
         /\ \A k \in Index(r) : stage'[r][k] = to
         /\ DOMAIN stage' = Requests
         /\ \A q \in Requests : stage'[q] \in [Index(q) -> Stages]
  <1>1. /\ \A q \in Requests \ {r} : stage'[q] = stage[q]
        /\ \A k \in Index(r) : stage'[r][k] = to
        /\ DOMAIN stage' = Requests
        /\ \A q \in Requests : stage'[q] \in [Index(q) -> Stages]
    BY DEF Typed
  <1>2. At(S)' = {i \in Items : stage'[i[1]][i[2]] \in S}  BY DEF At
  <1>3. ASSUME NEW i \in Items
        PROVE  stage'[i[1]][i[2]] \in S <=>
                 stage[i[1]][i[2]] \in S /\ i \notin {<<r, k>> : k \in LiveOf(r)}
    <2>0. i[1] \in Requests /\ i[2] \in Index(i[1]) /\ i = <<i[1], i[2]>>  BY ItemOf
    <2>1. CASE i[1] # r
      BY <1>1, <2>0, <2>1
    <2>2. CASE i[1] = r
      <3>1. stage'[i[1]][i[2]] = to /\ to \notin S  BY <1>1, <2>0, <2>2
      <3>2. stage[i[1]][i[2]] \in S => i[2] \in LiveOf(r)
        BY <2>0, <2>2 DEF LiveOf
      <3> QED  BY <2>0, <2>2, <3>1, <3>2
    <2> QED  BY <2>1, <2>2
  <1>4. At(S)' = At(S) \ {<<r, k>> : k \in LiveOf(r)}
    <2> HIDE DEF Items
    <2> QED  BY <1>2, <1>3 DEF At
  <1>5. LiveOf(r)' = {} /\ \A q \in Requests \ {r} : LiveOf(q)' = LiveOf(q)
    <2>1. \A q \in Requests : LiveOf(q)' = {k \in Index(q) : stage'[q][k] \in Live}
      BY DEF LiveOf
    <2> QED  BY <1>1, <2>1 DEF LiveOf
  <1> QED  BY <1>1, <1>4, <1>5

(* As many captures of r are under way as it has items under way.          *)
LEMMA ItemsOfRequest ==
  ASSUME NEW r \in Requests
  PROVE  LET own == {<<r, k>> : k \in LiveOf(r)}
         IN  /\ IsFiniteSet(own) /\ own \subseteq At(Live)
             /\ Cardinality(own) = Cardinality(LiveOf(r))
  <1> DEFINE own == {<<r, k>> : k \in LiveOf(r)}
             f == [k \in LiveOf(r) |-> <<r, k>>]
  <1>1. f \in Bijection(LiveOf(r), own)
    BY DEF Bijection, Injection, Surjection, IsInjective
  <1>2. ExistsBijection(LiveOf(r), own)  BY <1>1 DEF ExistsBijection
  <1>3. IsFiniteSet(LiveOf(r))  BY LiveFinite
  <1>4. IsFiniteSet(own) /\ Cardinality(own) = Cardinality(LiveOf(r))
    <2> HIDE DEF own
    <2> QED  BY <1>2, <1>3, FS_Bijection
  <1>5. own \subseteq At(Live)
    BY ItemsAre DEF At, LiveOf
  <1> QED  BY <1>4, <1>5

(* A step that leaves every capture where it is.                           *)
LEMMA CapturesStay ==
  ASSUME Requested, UNCHANGED <<stage, results, in_flight, worker_jobs>>,
         phase' \in [Requests -> {"unsent", "running", "answered", "gone"}],
         reply' \in [Requests -> {0} \cup Statuses],
         \A q \in Requests :
           /\ phase'[q] \in {"unsent", "running"} => phase[q] = phase'[q]
           /\ phase'[q] = "answered" /\ reply'[q] = 200 /\ Shape[q].route = "batch" =>
                \A k \in Index(q) : stage[q][k] = "done"
  PROVE  Requested'
  <1>1. Typed'  BY DEF Requested, Typed
  <1>2. Counted'
    BY DEF Requested, Counted, GaugeBalanced, Taken, At
  <1>3. ASSUME NEW q \in Requests  PROVE Ordered(q)' /\ \A k \in Index(q) : Honest(q, k)'
    <2>1. Ordered(q) /\ \A k \in Index(q) : Honest(q, k)  BY DEF Requested
    <2>2. \A k \in Index(q) : Honest(q, k)'  BY <2>1 DEF Honest
    <2>3. LiveOf(q)' = LiveOf(q)  BY DEF LiveOf
    <2> QED  BY <2>1, <2>2, <2>3 DEF Ordered
  <1> QED  BY <1>1, <1>2, <1>3 DEF Requested

(* A request that begins: its items wait.                                  *)
LEMMA BeginningKeeps ==
  ASSUME Requested, NEW r \in Requests, phase[r] = "unsent",
         stage' = [stage EXCEPT ![r] = [k \in Index(r) |-> "waiting"]],
         UNCHANGED <<results, in_flight, worker_jobs>>,
         phase' \in [Requests -> {"unsent", "running", "answered", "gone"}],
         reply' \in [Requests -> {0} \cup Statuses],
         \A q \in Requests \ {r} : phase'[q] = phase[q] /\ reply'[q] = reply[q],
         phase'[r] # "unsent", Shape[r].route # "batch" \/ phase'[r] # "answered",
         phase'[r] = "running" => Shape[r].route \in {"summary", "batch", "mcp", "stream"}
  PROVE  Requested'
  <1>1. Typed /\ Ordered(r) /\ "waiting" \in Stages \ Live
    BY DEF Requested, Stages, Live
  <1>2. /\ \A q \in Requests \ {r} : stage'[q] = stage[q] /\ LiveOf(q)' = LiveOf(q)
        /\ \A k \in Index(r) : stage'[r][k] = "waiting"
        /\ DOMAIN stage' = Requests
        /\ \A q \in Requests : stage'[q] \in [Index(q) -> Stages]
        /\ LiveOf(r)' = {}
    BY <1>1, RestagedAt
  <1>3. LiveOf(r) = {}
    BY <1>1 DEF Ordered, LiveOf, Live
  <1>4. At(Live)' = At(Live) /\ At({"capturing"})' = At({"capturing"})
    <2>1. ASSUME NEW S \in SUBSET Live  PROVE At(S)' = At(S)
      <3>1. At(S)' = At(S) \ {<<r, k>> : k \in LiveOf(r)}  BY <1>1, RestagedAt
      <3>2. {<<r, k>> : k \in LiveOf(r)} = {}  BY <1>3
      <3> HIDE DEF LiveOf, At
      <3> QED  BY <3>1, <3>2
    <2>2. {"capturing"} \in SUBSET Live /\ Live \in SUBSET Live  BY DEF Live
    <2> QED  BY <2>1, <2>2
  <1>5. Typed'  BY <1>1, <1>2 DEF Typed
  <1>6. Counted'
    BY <1>4 DEF Requested, Counted, GaugeBalanced, Taken
  <1>7. ASSUME NEW q \in Requests \ {r}  PROVE Ordered(q)' /\ \A k \in Index(q) : Honest(q, k)'
    <2>1. Ordered(q) /\ \A k \in Index(q) : Honest(q, k)  BY DEF Requested
    <2> QED  BY <1>2, <2>1 DEF Honest, Ordered
  <1>8. Ordered(r)'
    <2>1. Cardinality(LiveOf(r)') = 0 /\ Concurrency(r) \in Nat
      BY <1>2, FS_EmptySet, RequestFacts
    <2> QED  BY <2>1 DEF Ordered
  <1>9. ASSUME NEW k \in Index(r)  PROVE Honest(r, k)'
    <2>1. Honest(r, k) /\ stage'[r][k] = "waiting"  BY <1>2 DEF Requested
    <2> QED  BY <2>1 DEF Honest, Live
  <1> QED  BY <1>5, <1>6, <1>7, <1>8, <1>9 DEF Requested

(* A request that arrives keeps the invariant, however it is received.     *)
LEMMA ArrivalKeeps ==
  ASSUME Requested, Arrival, worker_jobs' = worker_jobs
  PROVE  Requested'
  <1>1. PICK r \in Requests : \/ Refuse(r) \/ TooMany(r) \/ Reject(r) \/ Poll(r)
                              \/ Submit(r) \/ Begin(r) \/ CallTool(r) \/ Open(r)
    BY DEF Arrival
  <1>2. Typed /\ phase[r] = "unsent"
    BY <1>1 DEF Requested, Refuse, TooMany, Reject, Poll, Submit, Begin, CallTool, Open, Granted, Arrives
  <1>a. ASSUME NEW status \in Statuses, Answer(r, status), NoCapture,
               status # 200 \/ Shape[r].route # "batch"
        PROVE  Requested'
    <2>1. /\ phase' = [phase EXCEPT ![r] = "answered"] /\ reply' = [reply EXCEPT ![r] = status]
          /\ UNCHANGED <<stage, results, in_flight>>
      BY <1>a DEF Answer, NoCapture
    <2>2. /\ phase' \in [Requests -> {"unsent", "running", "answered", "gone"}]
          /\ reply' \in [Requests -> {0} \cup Statuses]
      BY <1>2, <2>1 DEF Typed
    <2>3. ASSUME NEW q \in Requests
          PROVE  /\ phase'[q] \in {"unsent", "running"} => phase[q] = phase'[q]
                 /\ phase'[q] = "answered" /\ reply'[q] = 200 /\ Shape[q].route = "batch" =>
                      \A k \in Index(q) : stage[q][k] = "done"
      BY <1>a, <1>2, <2>1 DEF Typed, Requested, Ordered
    <2> QED  BY <2>1, <2>2, <2>3, CapturesStay
  <1>3. CASE Refuse(r)
    <2>1. Refusal(r) \in {400, 401}  BY <1>3 DEF Refuse, Refusal
    <2> QED  BY <1>3, <1>a, <2>1 DEF Refuse, Statuses
  <1>4. CASE TooMany(r)
    BY <1>4, <1>a DEF TooMany, Statuses
  <1>5. CASE Reject(r)
    BY <1>5, <1>a DEF Reject, Statuses
  <1>6. CASE Poll(r)
    <2>1. PICK status \in {200, 404} : Answer(r, status)  BY <1>6 DEF Poll
    <2> QED  BY <1>6, <1>a, <2>1 DEF Poll, Statuses
  <1>7. CASE Submit(r)
    <2>1. Shape[r].route = "jobs" /\ UNCHANGED <<results, in_flight>>  BY <1>7 DEF Submit
    <2>2. CASE Answer(r, 503) /\ UNCHANGED stage
      BY <1>a, <2>1, <2>2 DEF NoCapture, Statuses
    <2>3. CASE /\ stage' = [stage EXCEPT ![r] = [k \in Index(r) |-> "waiting"]]
               /\ Answer(r, 200)
      <3>1. /\ phase' = [phase EXCEPT ![r] = "answered"] /\ reply' = [reply EXCEPT ![r] = 200]
        BY <2>3 DEF Answer
      <3>2. /\ phase' \in [Requests -> {"unsent", "running", "answered", "gone"}]
            /\ reply' \in [Requests -> {0} \cup Statuses]
            /\ \A q \in Requests \ {r} : phase'[q] = phase[q] /\ reply'[q] = reply[q]
            /\ phase'[r] = "answered"
        BY <1>2, <3>1 DEF Typed, Statuses
      <3> QED  BY <1>2, <2>1, <2>3, <3>2, BeginningKeeps
    <2> QED  BY <1>7, <2>2, <2>3 DEF Submit
  <1>8. CASE Begin(r) \/ CallTool(r) \/ Open(r)
    <2>1. /\ phase' = [phase EXCEPT ![r] = "running"] /\ UNCHANGED <<reply, results, in_flight>>
          /\ stage' = [stage EXCEPT ![r] = [k \in Index(r) |-> "waiting"]]
          /\ Shape[r].route \in {"summary", "batch", "mcp", "stream"}
      BY <1>8 DEF Begin, CallTool, Open, Started
    <2>2. /\ phase' \in [Requests -> {"unsent", "running", "answered", "gone"}]
          /\ reply' \in [Requests -> {0} \cup Statuses]
          /\ \A q \in Requests \ {r} : phase'[q] = phase[q] /\ reply'[q] = reply[q]
          /\ phase'[r] = "running"
      BY <1>2, <2>1 DEF Typed
    <2> QED  BY <1>2, <2>1, <2>2, BeginningKeeps
  <1> QED  BY <1>1, <1>3, <1>4, <1>5, <1>6, <1>7, <1>8

(* The status of a request with one capture is that capture's.             *)
LEMMA RespondKeeps ==
  ASSUME Requested, NEW r \in Requests, Respond(r), worker_jobs' = worker_jobs
  PROVE  Requested'
  <1> DEFINE status == IF Shape[r].route = "batch" THEN 200 ELSE results[r][1].status
  <1>1. /\ phase[r] = "running" /\ \A k \in Index(r) : stage[r][k] = "done"
        /\ Shape[r].route # "stream"
        /\ Answer(r, status) /\ NoCapture /\ Typed
    BY DEF Respond, Requested
  <1>2. /\ phase' = [phase EXCEPT ![r] = "answered"] /\ reply' = [reply EXCEPT ![r] = status]
        /\ UNCHANGED <<stage, results, in_flight>>
    BY <1>1 DEF Answer, NoCapture
  <1>3. status \in Statuses
    <2>1. CASE Shape[r].route = "batch"
      BY <2>1 DEF Statuses
    <2>2. CASE Shape[r].route \in {"summary", "jobs", "mcp"}
      <3>1. 1 \in Index(r)  BY <2>2, RequestFacts
      <3>2. Honest(r, 1) /\ stage[r][1] = "done"  BY <1>1, <3>1 DEF Requested
      <3>3. results[r][1].status \in Expected(r, 1)  BY <3>2 DEF Honest
      <3>4. Expected(r, 1) \subseteq Statuses  BY DEF Expected, Statuses
      <3> QED  BY <2>2, <3>3, <3>4
    <2> QED  BY <1>1, <2>1, <2>2 DEF Requested, Ordered
  <1>4. /\ phase' \in [Requests -> {"unsent", "running", "answered", "gone"}]
        /\ reply' \in [Requests -> {0} \cup Statuses]
    BY <1>1, <1>2, <1>3 DEF Typed
  <1>5. ASSUME NEW q \in Requests
        PROVE  /\ phase'[q] \in {"unsent", "running"} => phase[q] = phase'[q]
               /\ phase'[q] = "answered" /\ reply'[q] = 200 /\ Shape[q].route = "batch" =>
                    \A k \in Index(q) : stage[q][k] = "done"
    <2>1. Ordered(q)  BY DEF Requested
    <2>2. phase[q] \in {"unsent", "running", "answered", "gone"}  BY <1>1 DEF Typed
    <2>3. CASE q = r
      BY <1>1, <1>2, <2>3 DEF Typed
    <2>4. CASE q # r
      BY <1>1, <1>2, <2>1, <2>4 DEF Typed, Ordered
    <2> QED  BY <2>3, <2>4
  <1> QED  BY <1>2, <1>4, <1>5, CapturesStay

(* A client that leaves takes its captures off the gauge with it.          *)
LEMMA DisconnectKeeps ==
  ASSUME Requested, NEW r \in Requests, Disconnect(r), worker_jobs' = worker_jobs
  PROVE  Requested'
  <1>1. /\ phase[r] = "running" /\ Typed
        /\ phase' = [phase EXCEPT ![r] = "gone"] /\ UNCHANGED <<reply, results>>
        /\ phase' \in [Requests -> {"unsent", "running", "answered", "gone"}]
    BY DEF Disconnect, Requested, Typed
  <1>2. \A q \in Requests : phase'[q] = IF q = r THEN "gone" ELSE phase[q]
    BY <1>1 DEF Typed
  <1>3. CASE Shape[r].route = "mcp"
    <2>1. UNCHANGED <<stage, results, in_flight>> /\ reply' \in [Requests -> {0} \cup Statuses]
      BY <1>1, <1>3 DEF Disconnect, Typed
    <2>2. ASSUME NEW q \in Requests
          PROVE  /\ phase'[q] \in {"unsent", "running"} => phase[q] = phase'[q]
                 /\ phase'[q] = "answered" /\ reply'[q] = 200 /\ Shape[q].route = "batch" =>
                      \A k \in Index(q) : stage[q][k] = "done"
      <3>1. Ordered(q)  BY DEF Requested
      <3> QED  BY <1>1, <1>2, <3>1 DEF Ordered
    <2> QED  BY <1>1, <2>1, <2>2, CapturesStay
  <1>4. CASE Shape[r].route # "mcp"
    <2> DEFINE own == {<<r, k>> : k \in LiveOf(r)}
    <2>1. /\ stage' = [stage EXCEPT ![r] = [k \in Index(r) |-> "dropped"]]
          /\ in_flight' = in_flight - Cardinality(LiveOf(r))
          /\ "dropped" \in Stages \ Live
      BY <1>4 DEF Disconnect, Stages, Live
    <2>2. /\ LiveOf(r)' = {} /\ \A q \in Requests \ {r} : LiveOf(q)' = LiveOf(q)
          /\ \A q \in Requests \ {r} : stage'[q] = stage[q]
          /\ \A k \in Index(r) : stage'[r][k] = "dropped"
          /\ DOMAIN stage' = Requests
          /\ \A q \in Requests : stage'[q] \in [Index(q) -> Stages]
      BY <1>1, <2>1, RestagedAt
    <2>3. ASSUME NEW S \in SUBSET Live  PROVE At(S)' = At(S) \ own
      BY <1>1, <2>1, RestagedAt
    <2>4. Counted'
      <3>1. /\ IsFiniteSet(At(Live)) /\ worker_jobs \in Nat /\ Pages \in Nat
            /\ in_flight = Cardinality(At(Live)) + worker_jobs
            /\ Cardinality(At({"capturing"})) + worker_jobs <= Pages
        BY RequestFacts DEF Requested, Counted, GaugeBalanced, Taken
      <3>2. IsFiniteSet(own) /\ own \subseteq At(Live) /\ Cardinality(own) = Cardinality(LiveOf(r))
        BY ItemsOfRequest
      <3>3. Cardinality(LiveOf(r)) \in Nat /\ Cardinality(At(Live)) \in Nat
            /\ IsFiniteSet(At({"capturing"})) /\ Cardinality(At({"capturing"})) \in Nat
        BY <3>1, LiveFinite, TakenFinite
      <3>4. {"capturing"} \in SUBSET Live /\ Live \in SUBSET Live  BY DEF Live
      <3>5. At(Live)' = At(Live) \ own /\ At({"capturing"})' = At({"capturing"}) \ own
        BY <2>3, <3>4
      <3> HIDE DEF own
      <3>6. IsFiniteSet(At(Live) \ own) /\ Cardinality(At(Live) \ own)
              = Cardinality(At(Live)) - Cardinality(LiveOf(r))
        <4>1. At(Live) \cap own = own  BY <3>2
        <4>2. /\ IsFiniteSet(At(Live) \ own)
              /\ Cardinality(At(Live) \ own) = Cardinality(At(Live)) - Cardinality(At(Live) \cap own)
          BY <3>1, FS_Difference
        <4> QED  BY <3>2, <4>1, <4>2
      <3>7. Cardinality(At({"capturing"}) \ own) <= Cardinality(At({"capturing"}))
            /\ Cardinality(At({"capturing"}) \ own) \in Nat
        <4>1. At({"capturing"}) \ own \in SUBSET At({"capturing"})  OBVIOUS
        <4> QED  BY <3>3, <4>1, FS_Subset, FS_CardinalityType
      <3>8. in_flight' = Cardinality(At(Live)') + worker_jobs'
        BY <2>1, <3>1, <3>3, <3>5, <3>6
      <3>9. Cardinality(At({"capturing"})') + worker_jobs' <= Pages
        BY <3>1, <3>3, <3>5, <3>7
      <3> QED  BY <3>1, <3>5, <3>6, <3>8, <3>9 DEF Counted, GaugeBalanced, Taken
    <2>5. Typed'  BY <1>1, <2>2 DEF Typed
    <2>6. ASSUME NEW q \in Requests, q # r
          PROVE  Ordered(q)' /\ \A k \in Index(q) : Honest(q, k)'
      <3>1. Ordered(q) /\ \A k \in Index(q) : Honest(q, k)  BY DEF Requested
      <3>2. stage'[q] = stage[q] /\ LiveOf(q)' = LiveOf(q) /\ phase'[q] = phase[q]
        BY <1>2, <2>2, <2>6
      <3> QED  BY <1>1, <3>1, <3>2 DEF Honest, Ordered
    <2>7. Ordered(r)'
      <3>1. Cardinality(LiveOf(r)') = 0 /\ Concurrency(r) \in Nat
        BY <2>2, FS_EmptySet, RequestFacts
      <3> QED  BY <1>2, <3>1 DEF Ordered
    <2>8. ASSUME NEW k \in Index(r)  PROVE Honest(r, k)'
      <3>1. Honest(r, k) /\ stage'[r][k] = "dropped"  BY <2>2 DEF Requested
      <3> QED  BY <1>1, <3>1 DEF Honest, Live
    <2> QED  BY <2>4, <2>5, <2>6, <2>7, <2>8 DEF Requested
  <1> QED  BY <1>3, <1>4

(* The worker takes pages and gives them back; no request sees it.         *)
LEMMA WorkerKeeps ==
  ASSUME Requested, UNCHANGED <<phase, reply, stage, results>>,
         \/ UNCHANGED <<worker_jobs, in_flight>>
         \/ /\ Taken < Pages
            /\ worker_jobs' = worker_jobs + 1 /\ in_flight' = in_flight + 1
         \/ /\ worker_jobs > 0
            /\ worker_jobs' = worker_jobs - 1 /\ in_flight' = in_flight - 1
  PROVE  Requested'
  <1>1. /\ IsFiniteSet(At(Live)) /\ worker_jobs \in Nat /\ Pages \in Nat
        /\ in_flight = Cardinality(At(Live)) + worker_jobs
        /\ Cardinality(At({"capturing"})) + worker_jobs <= Pages
    BY ServiceAssumption DEF Requested, Counted, GaugeBalanced, Taken, ServiceAssumption
  <1>2. Cardinality(At(Live)) \in Nat /\ Cardinality(At({"capturing"})) \in Nat
    BY <1>1, TakenFinite
  <1>3. At(Live)' = At(Live) /\ At({"capturing"})' = At({"capturing"})
    BY DEF At
  <1>4. Counted'
    <2>1. /\ worker_jobs' \in Nat /\ in_flight' = Cardinality(At(Live)) + worker_jobs'
          /\ Cardinality(At({"capturing"})) + worker_jobs' <= Pages
      BY <1>1, <1>2 DEF Taken
    <2> QED  BY <1>1, <1>3, <2>1 DEF Counted, GaugeBalanced, Taken
  <1>5. Typed'  BY DEF Requested, Typed
  <1>6. ASSUME NEW q \in Requests  PROVE Ordered(q)' /\ \A k \in Index(q) : Honest(q, k)'
    <2>1. Ordered(q) /\ \A k \in Index(q) : Honest(q, k)  BY DEF Requested
    <2>2. LiveOf(q)' = LiveOf(q)  BY DEF LiveOf
    <2> QED  BY <2>1, <2>2 DEF Honest, Ordered
  <1> QED  BY <1>4, <1>5, <1>6 DEF Requested

-----------------------------------------------------------------------------
(* Every step of the service.                                              *)

(* Every step keeps the requests' part of the invariant.                   *)
LEMMA StepKeepsRequested ==
  ASSUME Requested, [Next]_vars
  PROVE  Requested'
  <1>1. CASE UNCHANGED requestVars /\ UNCHANGED worker_jobs
    BY <1>1, WorkerKeeps DEF requestVars
  <1>2. CASE Arrival /\ UNCHANGED workerVars
    BY <1>2, ArrivalKeeps DEF workerVars
  <1>3. CASE RequestsRun
    <2>1. UNCHANGED worker_jobs  BY <1>3 DEF RequestsRun, workerVars
    <2>2. CASE ItemStep
      <3>0. PICK r \in Requests : \E k \in Index(r) :
              /\ \/ StartItem(r, k) \/ Resolve(r, k) \/ CheckOut(r, k)
                 \/ Shed(r, k) \/ EndCapture(r, k)
              /\ UNCHANGED <<phase, reply>>
        BY <2>2 DEF ItemStep
      <3>1. PICK k \in Index(r) :
              /\ \/ StartItem(r, k) \/ Resolve(r, k) \/ CheckOut(r, k)
                 \/ Shed(r, k) \/ EndCapture(r, k)
              /\ UNCHANGED <<phase, reply>>
        BY <3>0
      <3>2. PICK to : ItemMove(r, k, to)
        BY <2>1, <3>1, ActionsMove
      <3> QED  BY <3>2, ItemKeeps
    <2>3. CASE \E r \in Requests : Respond(r)
      BY <2>1, <2>3, RespondKeeps
    <2> QED  BY <1>3, <2>2, <2>3 DEF RequestsRun
  <1>4. CASE (\E r \in Requests : Disconnect(r)) /\ UNCHANGED workerVars
    BY <1>4, DisconnectKeeps DEF workerVars
  <1>5. CASE WorkerStep /\ UNCHANGED <<phase, reply, stage, results>>
    BY <1>5, WorkerKeeps DEF WorkerStep, WorkerTakes, WorkerEnds, LoseRedis, RedisGoes
  <1>6. CASE WorkerStops \/ Back
    BY <1>6, WorkerKeeps DEF WorkerStops, Reconnect, StopPolling, WorkerDrained, Back, RedisReturns
  <1>7. CASE Down \/ Done \/ UNCHANGED vars
    BY <1>1, <1>7 DEF Down, Done, vars, workerVars
  <1>8. CASE Signal /\ UNCHANGED <<limiterVars, requestVars, workerVars>>
    BY <1>1, <1>8 DEF workerVars
  <1>9. CASE TimePasses /\ UNCHANGED <<requestVars, shutdown, server, workerVars>>
    BY <1>1, <1>9 DEF workerVars
  <1> QED  BY <1>2, <1>3, <1>4, <1>5, <1>6, <1>7, <1>8, <1>9 DEF Next

(* Every step keeps the types of what surrounds them.                      *)
LEMMA StepKeepsAround ==
  ASSUME BucketInv, Around, [Next]_vars
  PROVE  Around'
  <1>0. clock \in Nat /\ MaxTime \in Nat /\ MaxOutages \in Nat /\ WorkerSlots \in Nat
    BY ServiceAssumption DEF BucketInv, ServiceAssumption
  <1>1. CASE UNCHANGED <<clock, shutdown, server, workerVars>>
    BY <1>1 DEF Around, workerVars
  <1>2. CASE Arrival /\ UNCHANGED <<shutdown, server, workerVars>>
    <2>1. clock' = clock
      <3>1. PICK r \in Requests : \/ Refuse(r) \/ TooMany(r) \/ Reject(r) \/ Poll(r)
                                  \/ Submit(r) \/ Begin(r) \/ CallTool(r) \/ Open(r)
        BY <1>2 DEF Arrival
      <3> QED  BY <3>1 DEF Refuse, TooMany, Reject, Poll, Submit, Begin, CallTool, Open,
                           Granted, Acquire, Denied, limiterVars
    <2> QED  BY <1>1, <1>2, <2>1
  <1>3. CASE RequestsRun \/ Done \/ UNCHANGED vars
    BY <1>1, <1>3 DEF RequestsRun, Done, vars, limiterVars
  <1>4. CASE Down
    BY <1>0, <1>4 DEF Down, ShutdownStep, ServeCloses, ServeReturns, JobsDrained, Exit,
                      Stops, Around, limiterVars, workerVars
  <1>5. CASE WorkerStops \/ Back
    BY <1>0, <1>5 DEF WorkerStops, Reconnect, StopPolling, WorkerDrained, Back, RedisReturns,
                      Around, limiterVars
  <1>6. CASE WorkerStep /\ UNCHANGED <<limiterVars, shutdown, server>>
    BY <1>0, <1>6 DEF WorkerStep, WorkerTakes, WorkerEnds, LoseRedis, RedisGoes,
                      Around, limiterVars
  <1>7. CASE Signal /\ UNCHANGED <<limiterVars, workerVars>>
    BY <1>7 DEF Signal, Around, limiterVars, workerVars
  <1>8. CASE (\E r \in Requests : Disconnect(r))
             /\ UNCHANGED <<limiterVars, shutdown, server, workerVars>>
    BY <1>1, <1>8 DEF limiterVars
  <1>9. CASE clock < MaxTime /\ TimePasses /\ UNCHANGED <<shutdown, server, workerVars>>
    BY <1>0, <1>9 DEF TimePasses, Around, workerVars
  <1> QED  BY <1>2, <1>3, <1>4, <1>5, <1>6, <1>7, <1>8, <1>9 DEF Next

(* No request has been sent at the start.                                  *)
LEMMA RequestedStarts == Init => Requested
  <1> SUFFICES ASSUME Init PROVE Requested  OBVIOUS
  <1>1. /\ phase \in [Requests -> {"unsent", "gone"}]
        /\ reply = [r \in Requests |-> 0]
        /\ stage = [r \in Requests |-> [k \in Index(r) |-> "none"]]
        /\ results = [r \in Requests |-> << >>]
        /\ in_flight = 0 /\ worker_jobs = 0
    <2>1. PICK scenario \in Scenarios :
            phase = [r \in Requests |-> IF r \in scenario THEN "unsent" ELSE "gone"]
      BY DEF Init
    <2> QED  BY <2>1 DEF Init
  <1>2. \A r \in Requests : DOMAIN results[r] = {} /\ LiveOf(r) = {}
    BY <1>1 DEF LiveOf, Live
  <1>3. Typed
    BY <1>1, <1>2 DEF Typed, Stages
  <1>4. At(Live) = {} /\ At({"capturing"}) = {}
    <2>1. \A i \in Items : stage[i[1]][i[2]] = "none"  BY <1>1, ItemOf
    <2> HIDE DEF Items
    <2> QED  BY <2>1 DEF At, Live
  <1>5. Counted
    <2>1. Cardinality({}) = 0 /\ IsFiniteSet({})  BY FS_EmptySet
    <2>2. Pages \in Nat  BY ServiceAssumption DEF ServiceAssumption
    <2>3. worker_jobs = 0 /\ in_flight = 0  BY <1>1
    <2>4. /\ IsFiniteSet(At(Live)) /\ Cardinality(At(Live)) = 0
          /\ Cardinality(At({"capturing"})) = 0
      BY <1>4, <2>1
    <2> HIDE DEF Init
    <2>5. GaugeBalanced  BY <2>3, <2>4 DEF GaugeBalanced
    <2>6. Taken <= Pages  BY <2>2, <2>3, <2>4 DEF Taken
    <2> QED  BY <2>3, <2>4, <2>5, <2>6 DEF Counted
  <1>6. ASSUME NEW r \in Requests  PROVE Ordered(r) /\ \A k \in Index(r) : Honest(r, k)
    <2>1. Cardinality(LiveOf(r)) = 0 /\ Concurrency(r) \in Nat
      BY <1>2, FS_EmptySet, RequestFacts
    <2>2. phase[r] \in {"unsent", "gone"} /\ \A k \in Index(r) : stage[r][k] = "none"
      BY <1>1
    <2>3. Ordered(r)  BY <2>1, <2>2 DEF Ordered
    <2>4. \A k \in Index(r) : Honest(r, k)
      BY <1>2, <2>2 DEF Honest, Live
    <2> QED  BY <2>3, <2>4
  <1> QED  BY <1>3, <1>5, <1>6 DEF Requested

(* Server and worker are up at the start.                                  *)
LEMMA AroundStarts == Init => Around
  <1>1. MaxTime \in Nat /\ MaxOutages \in Nat /\ WorkerSlots \in Nat
    BY ServiceAssumption DEF ServiceAssumption
  <1> SUFFICES ASSUME Init PROVE Around  OBVIOUS
  <1>2. /\ clock = 0 /\ shutdown = FALSE /\ server = "up" /\ worker = "polling"
        /\ worker_jobs = 0 /\ redis = "up" /\ outages = 0
    BY DEF Init, LimiterInit
  <1>3. clock <= MaxTime /\ outages \in 0 .. MaxOutages /\ worker_jobs \in 0 .. WorkerSlots
    BY <1>1, <1>2
  <1> QED  BY <1>2, <1>3 DEF Around

(* The bucket (rate_limit.rs) is exact at every visit, in every behaviour  *)
(* of the service.                                                         *)
THEOREM BucketHolds == Spec => []BucketInv
  <1>1. Init => BucketInv
    <2> SUFFICES ASSUME Init PROVE BucketInv  OBVIOUS
    <2>1. /\ clock = 0 /\ last = 0 /\ tokens = Capacity /\ grants = << >>
      BY DEF Init, LimiterInit
    <2>2. Len(grants) = 0 /\ grants \in Seq(Nat)  BY <2>1
    <2> QED  BY <2>1, <2>2, CapacityType DEF BucketInv
  <1>2. BucketInv /\ [Next]_vars => BucketInv'
    BY ServiceTouchesBucket, AcquireKeepsBucket, DeniedKeepsBucket,
       TimeKeepsBucket, StillKeepsBucket
  <1> QED  BY <1>1, <1>2, PTL DEF Spec

(* What holds of the service between any two steps.                        *)
THEOREM ServiceInvariant == Spec => []ServiceInv
  <1>1. Init => Requested /\ Around
    BY RequestedStarts, AroundStarts
  <1>2. BucketInv /\ (Requested /\ Around) /\ [Next]_vars => (Requested /\ Around)'
    BY StepKeepsRequested, StepKeepsAround
  <1> QED  BY <1>1, <1>2, BucketHolds, PTL DEF Spec, ServiceInv

(* The token bucket of src/src/rate_limit.rs is exact in every behaviour   *)
(* of the service.                                                         *)
THEOREM LimiterHolds == Spec => []LimiterExact
  BY BucketHolds, BucketIsExact, PTL

(* Every variable keeps its type, and the requests, the jobs and the       *)
(* worker never hold more pages than the pool has.                         *)
THEOREM ServiceTypeOK == Spec => []TypeOK
  <1>1. ServiceInv => TypeOK
    <2> SUFFICES ASSUME ServiceInv PROVE TypeOK  OBVIOUS
    <2>1. clock \in 0 .. MaxTime /\ last \in 0 .. clock /\ tokens \in 0 .. Capacity
      BY CapacityType, ServiceAssumption DEF ServiceInv, BucketInv, Around, ServiceAssumption
    <2>2. \A r \in Requests :
            /\ phase[r] \in {"unsent", "running", "answered", "gone"}
            /\ reply[r] \in {0} \cup Statuses
            /\ \A k \in Index(r) : stage[r][k] \in Stages
            /\ DOMAIN results[r] \subseteq Index(r)
      BY DEF ServiceInv, Requested, Typed
    <2> QED  BY <2>1, <2>2 DEF ServiceInv, Requested, Counted, Around, TypeOK, Statuses, Stages
  <1> QED  BY <1>1, ServiceInvariant, PTL

(* The gauge of src/src/capture.rs (InFlightGuard) is the number of        *)
(* captures under way, however they started and ended.                     *)
THEOREM ServiceGauge == Spec => []GaugeBalanced
  <1>1. ServiceInv => GaugeBalanced  BY DEF ServiceInv, Requested, Counted
  <1> QED  BY <1>1, ServiceInvariant, PTL

(* However its captures overlap, a batch is answered with every URL's own  *)
(* outcome in its place (src/src/http.rs, the batch handler).              *)
THEOREM ServiceBatchComplete == Spec => []BatchComplete
  <1>1. ServiceInv => BatchComplete
    <2> SUFFICES ASSUME ServiceInv, NEW r \in Requests
                 PROVE  /\ Cardinality(LiveOf(r)) <= Concurrency(r)
                        /\ phase[r] = "answered" /\ reply[r] = 200 /\ Shape[r].route = "batch" =>
                             /\ DOMAIN results[r] = Index(r)
                             /\ \A k \in Index(r) : /\ results[r][k].url = Urls(r)[k]
                                                    /\ results[r][k].status \in Expected(r, k)
      BY DEF BatchComplete
    <2>1. Ordered(r) /\ (\A k \in Index(r) : Honest(r, k)) /\ DOMAIN results[r] \subseteq Index(r)
      BY DEF ServiceInv, Requested, Typed
    <2>2. Cardinality(LiveOf(r)) <= Concurrency(r)  BY <2>1 DEF Ordered
    <2>3. ASSUME phase[r] = "answered", reply[r] = 200, Shape[r].route = "batch", NEW k \in Index(r)
          PROVE  /\ k \in DOMAIN results[r]
                 /\ results[r][k].url = Urls(r)[k] /\ results[r][k].status \in Expected(r, k)
      BY <2>1, <2>3 DEF Ordered, Honest
    <2>4. ASSUME phase[r] = "answered", reply[r] = 200, Shape[r].route = "batch"
          PROVE  DOMAIN results[r] = Index(r)
      <3>1. \A k \in Index(r) : k \in DOMAIN results[r]  BY <2>3, <2>4
      <3> QED  BY <2>1, <3>1
    <2> QED  BY <2>2, <2>3, <2>4
  <1> QED  BY <1>1, ServiceInvariant, PTL
=============================================================================
