---------------------------- MODULE TokenBucket ----------------------------
(***************************************************************************)
(* The rate limiter: one token bucket per policy and caller, kept in Redis  *)
(* and consumed by one Lua script, which Redis runs as a single step.       *)
(*                                                                         *)
(* A token is Part parts, so that the fractional refill is exact: every     *)
(* tick of the Redis clock is worth Refill parts, and Second ticks are one  *)
(* second, the unit of EXPIRE and of the Retry-After header.  The clock may *)
(* be set back, Redis may be out of reach, and an expired key is dropped    *)
(* when Redis gets to it.                                                   *)
(*                                                                         *)
(* used and earned watch one window of time per bucket, which may start at  *)
(* any moment; promise is the answer given to the first caller turned away. *)
(***************************************************************************)
EXTENDS Integers

CONSTANTS
    Keys,
    Capacity,        \* tokens of a full bucket
    Part, Refill, Second,
    Tokens,          \* tokens a request costs
    MaxClock,        \* bound on the clock
    MaxSteps         \* bound on the times the clock is set back

ASSUME BucketConstants ==
    /\ Capacity \in Nat \ {0} /\ Part \in Nat \ {0}
    /\ Refill \in Nat \ {0} /\ Second \in Nat \ {0}
    /\ Tokens \in 1..Capacity
    /\ MaxClock \in Nat /\ MaxSteps \in Nat

VARIABLES
    bucket,      \* bucket[k]: the Redis hash, or NoBucket
    clock,
    reachable,   \* FALSE while Redis fails every command
    steps,       \* how often the clock was set back
    used,        \* used[k]: parts granted in the window
    earned,      \* earned[k]: a full bucket, and the refill since the window began
    promise      \* promise[k]: when a refused caller was told to come back, or NoPromise

limiter == <<bucket, clock, reachable, steps, used, earned, promise>>

Full == Capacity * Part
Cost == Tokens * Part

\* math.ceil of a quotient
CeilDiv(a, b) == (a + b - 1) \div b

\* Slip: whole seconds, rounded down.
LifetimeShort == (Full \div (Refill * Second)) * Second

\* The EXPIRE of a bucket, in ticks.
Lifetime == (CeilDiv(Full, Refill * Second) + 1) * Second

NoBucket  == [tokens |-> Full, ts |-> -1, expires |-> 0]
NoPromise == -1

Buckets == [tokens: 0..Full, ts: 0..MaxClock, expires: Nat] \cup {NoBucket}

LimiterInit ==
    /\ bucket = [k \in Keys |-> NoBucket]
    /\ clock = 0 /\ reachable = TRUE /\ steps = 0
    /\ used = [k \in Keys |-> 0]
    /\ earned = [k \in Keys |-> Full]
    /\ promise = [k \in Keys |-> NoPromise]

-----------------------------------------------------------------------------
(* The script *)

Elapsed(ts, t) == IF t < ts THEN 0 ELSE t - ts

IsStored(b, t) == b # NoBucket /\ t < b.expires

Capped(n) == IF n > Full THEN Full ELSE n

\* Parts in bucket b when the script has refilled it at time t.
LevelAt(b, t) ==
    IF IsStored(b, t) THEN Capped(b.tokens + Elapsed(b.ts, t) * Refill) ELSE Full

Level(k) == LevelAt(bucket[k], clock)

Stored(n) == [tokens |-> n, ts |-> clock, expires |-> clock + Lifetime]

\* Slip: a refused request pays, too.
LeftAfterAll(n) == IF n >= Cost THEN n - Cost ELSE 0

\* What is left of n parts after a request.
Left(n) == IF n >= Cost THEN n - Cost ELSE n

\* Retry-After in seconds, never below one.
RetryAfter(n) ==
    LET wait == CeilDiv(Cost - n, Refill * Second) IN IF wait < 1 THEN 1 ELSE wait

Allowed(k) == ~reachable \/ Level(k) >= Cost

Consume(k) ==
    /\ IF reachable
       THEN /\ bucket' = [bucket EXCEPT ![k] = Stored(Left(Level(k)))]
            /\ used' = [used EXCEPT ![k] = IF Allowed(k) THEN @ + Cost ELSE @]
            /\ promise' = [promise EXCEPT ![k] =
                             IF Allowed(k) THEN NoPromise
                             ELSE IF @ # NoPromise THEN @
                             ELSE clock + RetryAfter(Level(k)) * Second]
       ELSE UNCHANGED <<bucket, used, promise>>
    /\ UNCHANGED <<clock, reachable, steps, earned>>

-----------------------------------------------------------------------------
(* Time, and the server *)

Tick ==
    /\ clock < MaxClock
    /\ clock' = clock + 1
    /\ earned' = [k \in Keys |-> earned[k] + Refill]
    /\ UNCHANGED <<bucket, reachable, steps, used, promise>>

\* The server's clock is corrected; what callers were told no longer holds.
SetBack ==
    /\ steps < MaxSteps
    /\ \E t \in 0..(clock - 1) : clock' = t
    /\ steps' = steps + 1
    /\ promise' = [k \in Keys |-> NoPromise]
    /\ UNCHANGED <<bucket, reachable, used, earned>>

\* Redis drops the key whose time is over.
Evict(k) ==
    /\ bucket[k] # NoBucket /\ ~IsStored(bucket[k], clock)
    /\ bucket' = [bucket EXCEPT ![k] = NoBucket]
    /\ UNCHANGED <<clock, reachable, steps, used, earned, promise>>

LoseRedis ==
    /\ reachable' = ~reachable
    /\ UNCHANGED <<bucket, clock, steps, used, earned, promise>>

\* Another window is watched from now on.
StartWindow(k) ==
    /\ used' = [used EXCEPT ![k] = 0]
    /\ earned' = [earned EXCEPT ![k] = Full]
    /\ UNCHANGED <<bucket, clock, reachable, steps, promise>>

Background == Tick \/ SetBack \/ LoseRedis \/ \E k \in Keys : Evict(k) \/ StartWindow(k)

LimiterNext == Background \/ \E k \in Keys : Consume(k)

LimiterSpec == LimiterInit /\ [][LimiterNext]_limiter

-----------------------------------------------------------------------------
(* Properties *)

\* Types; a stored level is between nothing and a full bucket, whatever the clock does.
LimiterTypeOK ==
    /\ bucket \in [Keys -> Buckets]
    /\ clock \in 0..MaxClock
    /\ reachable \in BOOLEAN
    /\ steps \in 0..MaxSteps
    /\ used \in [Keys -> Nat]
    /\ earned \in [Keys -> Nat]
    /\ promise \in [Keys -> Nat \cup {NoPromise}]

\* In any stretch of time Redis grants no more than a full bucket plus the refill of
\* that time, though keys expire, the clock may be set back and refused requests
\* rewrite the bucket (infra/rate_limit/bucket.py).
WindowBounded == \A k \in Keys : used[k] <= earned[k]

\* Who waits as long as Retry-After says is let in, if nobody was let in meanwhile, and
\* is not told to wait a second too long, however often refused callers try again.
RetryAfterHolds ==
    \A k \in Keys : promise[k] # NoPromise =>
        /\ clock >= promise[k] => Level(k) >= Cost
        /\ clock < promise[k] - Second => Level(k) < Cost
=============================================================================
