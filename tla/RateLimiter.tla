----------------------------- MODULE RateLimiter -----------------------------
(***************************************************************************)
(* The process-wide token bucket (src/src/rate_limit.rs) that every        *)
(* /summary*, /jobs* and MCP call goes through.                            *)
(*                                                                         *)
(* The code counts tokens and seconds in f64.  Here a token is Unit units  *)
(* and Unit ticks make a second, so that one tick refills Rps units and    *)
(* the arithmetic is exact.                                                *)
(***************************************************************************)
EXTENDS Integers, Sequences

CONSTANTS
  Rps,     \* rate_limit_rps(), 0 switches the limiter off
  Burst,   \* rate_limit_burst()
  Unit     \* the units of a token, and the ticks of a second

ASSUME LimiterAssumption == Rps \in Nat /\ Burst \in Nat /\ Unit \in Nat \ {0}

VARIABLES
  clock,    \* Instant::now()
  tokens,   \* Bucket.tokens, in units
  last,     \* Bucket.last
  grants    \* history: the times at which a token was taken

limiterVars == <<clock, tokens, last, grants>>

Capacity == (IF Burst < 1 THEN 1 ELSE Burst) * Unit

LimiterInit == clock = 0 /\ tokens = Capacity /\ last = 0 /\ grants = << >>

(* What the bucket holds once it has been refilled up to now. *)
Refilled == IF tokens + Rps * (clock - last) < Capacity
              THEN tokens + Rps * (clock - last) ELSE Capacity

(* try_acquire, under the mutex *)
Acquire ==
  /\ Rps # 0 => Refilled >= Unit
  /\ IF Rps = 0 THEN UNCHANGED <<tokens, last>>
                ELSE tokens' = Refilled - Unit /\ last' = clock
  /\ grants' = Append(grants, clock)
  /\ UNCHANGED clock

MutDenied ==    \* mutant: keeps the refill, forgets when it was
  /\ Rps # 0 /\ Refilled < Unit
  /\ tokens' = Refilled
  /\ UNCHANGED <<clock, last, grants>>

Denied ==
  /\ Rps # 0 /\ Refilled < Unit
  /\ tokens' = Refilled /\ last' = clock
  /\ UNCHANGED <<clock, grants>>

TimePasses == clock' = clock + 1 /\ UNCHANGED <<tokens, last, grants>>

LimiterNext == Acquire \/ Denied \/ TimePasses

-----------------------------------------------------------------------------
(* What is left at the time t of the burst and of the refill since grant i, *)
(* after that grant and all later ones.                                    *)
Left(i, t) == Capacity + Rps * (t - grants[i]) - (Len(grants) + 1 - i) * Unit

(* The bucket is exact: it never lets more through, in any window that a   *)
(* grant opens, than the burst and the refill of that window, and it holds *)
(* all that some window, or the cap, still allows, so it refuses a call    *)
(* only when one more would be too many.                                   *)
LimiterExact ==
  Rps # 0 =>
    /\ 0 <= Refilled
    /\ \A i \in 1 .. Len(grants) : Refilled <= Left(i, clock)
    /\ \/ Refilled = Capacity
       \/ \E i \in 1 .. Len(grants) : Refilled = Left(i, clock)
=============================================================================
