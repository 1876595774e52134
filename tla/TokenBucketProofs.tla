------------------------- MODULE TokenBucketProofs -------------------------
(***************************************************************************)
(* The rate limiter for every capacity, refill, cost and clock.             *)
(*                                                                         *)
(* WindowBounded is not inductive: a bucket may be fuller than the window   *)
(* has earned unless what it still holds is counted too.  LevelBounded adds *)
(* it, and EXPIRE must not come before the bucket is full anyway            *)
(* (LifetimeSuffices).  RetryAfterHolds is about a moment that is still to  *)
(* come; Due says what it takes now: the level and the refill due until     *)
(* then, which no tick changes but for a full bucket.                       *)
(***************************************************************************)
EXTENDS TokenBucket, TLAPS

LevelBounded == \A k \in Keys : used[k] + Level(k) <= earned[k]

ExpiresOnTime == \A k \in Keys :
    bucket[k] # NoBucket => bucket[k].expires = bucket[k].ts + Lifetime

WindowInv == LimiterTypeOK /\ ExpiresOnTime /\ LevelBounded

-----------------------------------------------------------------------------

\* Multiplication by a natural number keeps the order.
LEMMA TimesMonotone ==
    ASSUME NEW a \in Int, NEW b \in Int, NEW c \in Nat, a <= b
    PROVE  a * c <= b * c
<1>1. (b - a) * c >= 0
  BY SMT
<1>2. (b - a) * c = b * c - a * c
  BY SMT
<1> QED
  BY <1>1, <1>2, SMT

\* Rounding a quotient up and multiplying again loses nothing.
LEMMA CeilDivCovers ==
    ASSUME NEW a \in Nat, NEW b \in Nat \ {0}
    PROVE  CeilDiv(a, b) \in Nat /\ CeilDiv(a, b) * b >= a
<1> DEFINE n == a + b - 1
           q == n \div b
<1>1. n \in Nat
  OBVIOUS
<1>2. q \in Nat /\ n = (b * q) + (n % b) /\ n % b \in 0..(b - 1)
  BY <1>1
<1>3. b * q >= n - (b - 1)
  BY <1>1, <1>2
<1>4. q * b = b * q
  BY <1>2
<1> QED
  BY <1>2, <1>3, <1>4 DEF CeilDiv

\* The derived constants are natural numbers, and a key that lives out its EXPIRE
\* would have refilled at least one tick before.
LEMMA LifetimeSuffices ==
    /\ Full \in Nat \ {0} /\ Cost \in Nat \ {0} /\ Cost <= Full
    /\ Lifetime \in Nat \ {0}
    /\ (Lifetime - 1) * Refill >= Full
<1>1. Full \in Nat \ {0} /\ Cost \in Nat \ {0}
  BY BucketConstants, SMT DEF Full, Cost
<1>2. Cost <= Full
  BY BucketConstants, TimesMonotone DEF Full, Cost
<1> DEFINE rate == Refill * Second
           secs == CeilDiv(Full, rate)
<1>3. rate \in Nat \ {0}
  BY BucketConstants, SMT
<1>4. secs \in Nat /\ secs * rate >= Full
  BY <1>1, <1>3, CeilDivCovers
<1> HIDE DEF secs, rate
<1>5. Lifetime = secs * Second + Second
  <2>1. Lifetime = (secs + 1) * Second
    BY DEF Lifetime, secs, rate
  <2> QED
    BY <2>1, <1>4, BucketConstants, SMT
<1>6. secs * Second \in Nat
  BY <1>4, BucketConstants, SMT
<1>7. Lifetime \in Nat \ {0}
  BY <1>5, <1>6, BucketConstants
<1>8. (secs * Second) * Refill <= (Lifetime - 1) * Refill
  BY <1>5, <1>6, <1>7, BucketConstants, TimesMonotone
<1>9. (secs * Second) * Refill = secs * rate
  BY <1>4, BucketConstants, SMT DEF rate
<1>10. (Lifetime - 1) * Refill \in Int /\ secs * rate \in Int
  BY <1>3, <1>4, <1>7, BucketConstants, SMT
<1> QED
  BY <1>1, <1>2, <1>4, <1>7, <1>8, <1>9, <1>10

-----------------------------------------------------------------------------

\* A level is a number of parts that fits the bucket.
LEMMA LevelFits ==
    ASSUME NEW b \in Buckets, NEW t \in Nat
    PROVE  LevelAt(b, t) \in 0..Full
<1> DEFINE e == Elapsed(b.ts, t) * Refill
<1>1. CASE IsStored(b, t)
  <2>1. b \in [tokens: 0..Full, ts: 0..MaxClock, expires: Nat]
    BY <1>1 DEF Buckets, IsStored
  <2>2. Elapsed(b.ts, t) \in Nat
    BY <2>1, BucketConstants DEF Elapsed
  <2>3. e \in Nat
    BY <2>2, BucketConstants, SMT
  <2>4. LevelAt(b, t) = Capped(b.tokens + e)
    BY <1>1 DEF LevelAt
  <2> HIDE DEF e
  <2> QED
    BY <2>1, <2>3, <2>4, LifetimeSuffices DEF Capped
<1>2. CASE ~IsStored(b, t)
  BY <1>2, LifetimeSuffices DEF LevelAt
<1> QED
  BY <1>1, <1>2

\* A clock that is set back takes parts away or leaves them.
LEMMA EarlierIsLower ==
    ASSUME NEW b \in Buckets, NEW t \in Nat, NEW s \in Nat, s <= t
    PROVE  LevelAt(b, s) <= LevelAt(b, t)
<1>1. LevelAt(b, s) \in 0..Full
  BY LevelFits
<1>2. CASE ~IsStored(b, t)
  BY <1>1, <1>2, LifetimeSuffices DEF LevelAt
<1>3. CASE IsStored(b, t)
  <2>1. b \in [tokens: 0..Full, ts: 0..MaxClock, expires: Nat] /\ IsStored(b, s)
    BY <1>3 DEF Buckets, IsStored
  <2>2. /\ Elapsed(b.ts, s) \in Nat /\ Elapsed(b.ts, t) \in Nat
        /\ Elapsed(b.ts, s) <= Elapsed(b.ts, t)
    BY <2>1, BucketConstants DEF Elapsed
  <2> DEFINE d == Elapsed(b.ts, s) * Refill
             e == Elapsed(b.ts, t) * Refill
  <2>3. d \in Nat /\ e \in Nat
    BY <2>2, BucketConstants, SMT
  <2>4. d <= e
    BY <2>2, BucketConstants, TimesMonotone
  <2>5. LevelAt(b, s) = Capped(b.tokens + d) /\ LevelAt(b, t) = Capped(b.tokens + e)
    BY <1>3, <2>1 DEF LevelAt
  <2> HIDE DEF d, e
  <2> QED
    BY <2>1, <2>3, <2>4, <2>5, LifetimeSuffices DEF Capped
<1> QED
  BY <1>2, <1>3

\* One tick adds at most its refill, also when the key expires at that tick.
LEMMA TickRefills ==
    ASSUME NEW b \in Buckets, NEW t \in Nat, b # NoBucket => b.expires = b.ts + Lifetime
    PROVE  LevelAt(b, t + 1) <= LevelAt(b, t) + Refill
<1>1. LevelAt(b, t) \in 0..Full /\ LevelAt(b, t + 1) \in 0..Full
  BY LevelFits
<1>2. Refill \in Nat \ {0} /\ Full \in Nat \ {0} /\ Lifetime \in Nat \ {0}
  BY BucketConstants, LifetimeSuffices
<1>3. CASE ~IsStored(b, t)
  BY <1>1, <1>2, <1>3 DEF LevelAt
<1>4. CASE IsStored(b, t)
  <2>1. /\ b \in [tokens: 0..Full, ts: 0..MaxClock, expires: Nat]
        /\ b.expires = b.ts + Lifetime /\ t < b.ts + Lifetime
    BY <1>4 DEF Buckets, IsStored
  <2> DEFINE n == Elapsed(b.ts, t)
             m == Elapsed(b.ts, t + 1)
             e == n * Refill
             f == m * Refill
  <2>2. n \in Nat /\ m \in Nat /\ m <= n + 1
    BY <2>1, BucketConstants DEF Elapsed
  <2>3. e \in Nat /\ f \in Nat /\ (n + 1) * Refill = e + Refill
    BY <1>2, <2>2, SMT
  <2>4. f <= e + Refill
    BY <1>2, <2>2, <2>3, TimesMonotone
  <2>5. LevelAt(b, t) = Capped(b.tokens + e)
    BY <1>4 DEF LevelAt
  <2>6. CASE IsStored(b, t + 1)
    <3>1. LevelAt(b, t + 1) = Capped(b.tokens + f)
      BY <2>6 DEF LevelAt
    <3> HIDE DEF e, f
    <3> QED
      BY <1>2, <2>1, <2>3, <2>4, <2>5, <3>1 DEF Capped
  <2>7. CASE ~IsStored(b, t + 1)
    <3>1. n = Lifetime - 1
      BY <1>2, <1>4, <2>1, <2>7, BucketConstants DEF Elapsed, IsStored
    <3>2. e >= Full
      BY <3>1, LifetimeSuffices
    <3> HIDE DEF e
    <3>3. LevelAt(b, t) = Full
      BY <1>2, <2>1, <2>3, <2>5, <3>2 DEF Capped
    <3> QED
      BY <1>1, <1>2, <3>3
  <2> QED
    BY <2>6, <2>7
<1> QED
  BY <1>3, <1>4

\* A bucket that was just written holds what was written.
LEMMA JustStored ==
    ASSUME NEW n \in 0..Full, NEW t \in 0..MaxClock,
           NEW b, b = [tokens |-> n, ts |-> t, expires |-> t + Lifetime]
    PROVE  b \in Buckets /\ b # NoBucket /\ b.expires = b.ts + Lifetime /\ LevelAt(b, t) = n
<1>1. t \in Nat /\ Lifetime \in Nat \ {0} /\ Full \in Nat /\ Refill \in Nat
  BY BucketConstants, LifetimeSuffices
<1>2. b \in Buckets /\ b # NoBucket /\ b.expires = b.ts + Lifetime
  BY <1>1 DEF Buckets, NoBucket
<1>3. IsStored(b, t) /\ Elapsed(b.ts, t) * Refill = 0
  BY <1>1, <1>2 DEF IsStored, Elapsed
<1> QED
  BY <1>1, <1>2, <1>3 DEF LevelAt, Capped

-----------------------------------------------------------------------------

\* Nothing has been granted at the start of the first window.
LEMMA WindowInvInit == LimiterInit => WindowInv
<1> SUFFICES ASSUME LimiterInit PROVE WindowInv
  OBVIOUS
<1>1. LimiterTypeOK
  BY BucketConstants, LifetimeSuffices DEF LimiterInit, LimiterTypeOK, Buckets
<1>2. \A k \in Keys : Level(k) = Full
  BY DEF LimiterInit, Level, LevelAt, IsStored
<1> QED
  BY <1>1, <1>2, LifetimeSuffices DEF LimiterInit, WindowInv, ExpiresOnTime, LevelBounded

\* Every step keeps the invariant.
LEMMA WindowInvStep == WindowInv /\ [LimiterNext]_limiter => WindowInv'
<1> SUFFICES ASSUME WindowInv, [LimiterNext]_limiter PROVE WindowInv'
  OBVIOUS
<1> USE DEF WindowInv
<1>1. /\ clock \in Nat /\ Full \in Nat \ {0} /\ Cost \in Nat \ {0} /\ Cost <= Full
      /\ Refill \in Nat /\ Lifetime \in Nat \ {0}
  BY BucketConstants, LifetimeSuffices DEF LimiterTypeOK
<1>2. \A k \in Keys : Level(k) \in 0..Full
  BY <1>1, LevelFits DEF LimiterTypeOK, Level
<1>3. ASSUME NEW k \in Keys, Consume(k) PROVE WindowInv'
  <2>1. CASE ~reachable
    BY <1>3, <2>1 DEF Consume, LimiterTypeOK, ExpiresOnTime, LevelBounded, Level
  <2>2. CASE reachable
    <3> DEFINE n == Left(Level(k))
    <3>1. n \in 0..Full /\ n = IF Level(k) >= Cost THEN Level(k) - Cost ELSE Level(k)
      BY <1>1, <1>2 DEF Left
    <3>2. /\ bucket' = [bucket EXCEPT ![k] = Stored(n)]
          /\ used' = [used EXCEPT ![k] = IF Level(k) >= Cost THEN @ + Cost ELSE @]
          /\ clock' = clock /\ earned' = earned /\ reachable' = reachable /\ steps' = steps
      BY <1>3, <2>2 DEF Consume, Allowed
    <3>3. /\ Stored(n) \in Buckets /\ Stored(n) # NoBucket
          /\ Stored(n).expires = Stored(n).ts + Lifetime
          /\ LevelAt(Stored(n), clock) = n
      <4>1. Stored(n) = [tokens |-> n, ts |-> clock, expires |-> clock + Lifetime]
        BY DEF Stored
      <4> HIDE DEF n
      <4> QED
        BY <3>1, <4>1, JustStored DEF LimiterTypeOK
    <3>4. promise' \in [Keys -> Nat \cup {NoPromise}]
      <4>1. clock + RetryAfter(Level(k)) * Second \in Nat \/ Allowed(k)
        <5>1. SUFFICES ASSUME ~Allowed(k)
                       PROVE  clock + RetryAfter(Level(k)) * Second \in Nat
          OBVIOUS
        <5>2. Cost - Level(k) \in Nat
          BY <1>1, <1>2, <2>2, <5>1 DEF Allowed
        <5>3. Refill * Second \in Nat \ {0}
          BY BucketConstants, SMT
        <5>4. CeilDiv(Cost - Level(k), Refill * Second) \in Nat
          BY <5>2, <5>3, CeilDivCovers
        <5>5. RetryAfter(Level(k)) \in Nat
          BY <5>4 DEF RetryAfter
        <5> QED
          BY <1>1, <5>5, BucketConstants, SMT
      <4>2. promise' = [promise EXCEPT ![k] =
                          IF Allowed(k) THEN NoPromise
                          ELSE IF @ # NoPromise THEN @
                          ELSE clock + RetryAfter(Level(k)) * Second]
        BY <1>3, <2>2 DEF Consume
      <4> QED
        BY <4>1, <4>2 DEF LimiterTypeOK
    <3> HIDE DEF n
    <3>5. LimiterTypeOK'
      <4>1. bucket' \in [Keys -> Buckets]
        BY <3>2, <3>3 DEF LimiterTypeOK
      <4>2. used' \in [Keys -> Nat]
        BY <1>1, <3>2 DEF LimiterTypeOK
      <4>3. clock' \in 0..MaxClock /\ steps' \in 0..MaxSteps /\ earned' \in [Keys -> Nat]
        BY <3>2 DEF LimiterTypeOK
      <4>4. reachable' \in BOOLEAN
        BY <3>2, Zenon DEF LimiterTypeOK
      <4> QED
        BY <3>4, <4>1, <4>2, <4>3, <4>4, Zenon DEF LimiterTypeOK
    <3>6. ExpiresOnTime'
      BY <3>2, <3>3 DEF ExpiresOnTime, LimiterTypeOK
    <3>7. ASSUME NEW j \in Keys PROVE used'[j] + Level(j)' <= earned'[j]
      <4>1. CASE j = k
        <5>1. Level(k)' = n
          BY <3>2, <3>3 DEF Level, LimiterTypeOK
        <5>2. used'[k] = IF Level(k) >= Cost THEN used[k] + Cost ELSE used[k]
          BY <3>2 DEF LimiterTypeOK
        <5>3. used[k] \in Nat /\ earned[k] \in Nat /\ used[k] + Level(k) <= earned[k]
          BY DEF LimiterTypeOK, LevelBounded
        <5> QED
          BY <1>1, <1>2, <3>1, <3>2, <4>1, <5>1, <5>2, <5>3
      <4>2. CASE j # k
        BY <3>2, <4>2 DEF Level, LimiterTypeOK, LevelBounded
      <4> QED
        BY <4>1, <4>2
    <3> QED
      BY <3>5, <3>6, <3>7 DEF LevelBounded
  <2> QED
    BY <2>1, <2>2
<1>4. CASE Tick
  <2>1. LimiterTypeOK' /\ ExpiresOnTime'
    BY <1>1, <1>4, BucketConstants DEF Tick, LimiterTypeOK, ExpiresOnTime
  <2>2. ASSUME NEW k \in Keys PROVE used'[k] + Level(k)' <= earned'[k]
    <3>1. Level(k)' = LevelAt(bucket[k], clock + 1)
      BY <1>4 DEF Tick, Level
    <3>2. Level(k)' <= Level(k) + Refill
      BY <1>1, <3>1, TickRefills DEF Level, LimiterTypeOK, ExpiresOnTime
    <3>3. Level(k)' \in 0..Full
      BY <1>1, <3>1, LevelFits DEF LimiterTypeOK
    <3> QED
      BY <1>1, <1>2, <1>4, <3>2, <3>3 DEF Tick, LevelBounded, LimiterTypeOK
  <2> QED
    BY <2>1, <2>2 DEF LevelBounded
<1>5. CASE SetBack
  <2>1. clock' \in 0..MaxClock /\ clock' \in Nat /\ clock' <= clock
    BY <1>1, <1>5, BucketConstants DEF SetBack, LimiterTypeOK
  <2>2. LimiterTypeOK' /\ ExpiresOnTime'
    BY <1>5, <2>1, BucketConstants DEF SetBack, LimiterTypeOK, ExpiresOnTime
  <2>3. ASSUME NEW k \in Keys PROVE used'[k] + Level(k)' <= earned'[k]
    <3>1. Level(k)' = LevelAt(bucket[k], clock')
      BY <1>5 DEF SetBack, Level
    <3>2. Level(k)' <= Level(k) /\ Level(k)' \in 0..Full
      BY <1>1, <2>1, <3>1, EarlierIsLower, LevelFits DEF Level, LimiterTypeOK
    <3> QED
      BY <1>2, <1>5, <3>2, <1>1 DEF SetBack, LevelBounded, LimiterTypeOK
  <2> QED
    BY <2>2, <2>3 DEF LevelBounded
<1>6. ASSUME NEW k \in Keys, Evict(k) PROVE WindowInv'
  <2>1. NoBucket \in Buckets
    BY DEF Buckets
  <2>2. LimiterTypeOK' /\ ExpiresOnTime'
    BY <1>6, <2>1 DEF Evict, LimiterTypeOK, ExpiresOnTime
  <2>3. ASSUME NEW j \in Keys PROVE Level(j)' = Level(j)
    BY <1>6 DEF Evict, Level, LevelAt, IsStored, LimiterTypeOK
  <2> QED
    BY <1>6, <2>2, <2>3 DEF Evict, LevelBounded
<1>7. CASE LoseRedis
  BY <1>7 DEF LoseRedis, LimiterTypeOK, ExpiresOnTime, LevelBounded, Level
<1>8. ASSUME NEW k \in Keys, StartWindow(k) PROVE WindowInv'
  <2>1. LimiterTypeOK' /\ ExpiresOnTime'
    BY <1>1, <1>8 DEF StartWindow, LimiterTypeOK, ExpiresOnTime
  <2>2. ASSUME NEW j \in Keys PROVE Level(j)' = Level(j)
    BY <1>8 DEF StartWindow, Level
  <2> QED
    BY <1>1, <1>2, <1>8, <2>1, <2>2 DEF StartWindow, LevelBounded, LimiterTypeOK
<1>9. CASE UNCHANGED limiter
  BY <1>9 DEF limiter, LimiterTypeOK, ExpiresOnTime, LevelBounded, Level
<1> QED
  BY <1>3, <1>4, <1>5, <1>6, <1>7, <1>8, <1>9 DEF LimiterNext, Background

-----------------------------------------------------------------------------

\* In every window of time a caller is granted at most a full bucket and the refill of
\* that time, for any capacity, refill and cost.
THEOREM WindowIsBounded == LimiterSpec => []WindowBounded
<1>1. WindowInv => WindowBounded
  <2> SUFFICES ASSUME WindowInv, NEW k \in Keys PROVE used[k] <= earned[k]
    BY DEF WindowBounded
  <2>1. Level(k) \in 0..Full
    BY BucketConstants, LevelFits DEF WindowInv, LimiterTypeOK, Level
  <2> QED
    BY <2>1, LifetimeSuffices DEF WindowInv, LimiterTypeOK, LevelBounded
<1> QED
  BY <1>1, WindowInvInit, WindowInvStep, PTL DEF LimiterSpec

-----------------------------------------------------------------------------
(* Retry-After.  A promise p made of bucket b is kept as time t goes on: the *)
(* refill that is due until p suffices, and what is due until a second       *)
(* before p does not.                                                        *)

Due(b, t, p) ==
    /\ b.ts <= t
    /\ t <= p => LevelAt(b, t) + (p - t) * Refill >= Cost
    /\ t >= p => LevelAt(b, t) >= Cost
    /\ t <= p - Second => LevelAt(b, t) + (p - Second - t) * Refill < Cost

PromiseInv ==
    /\ WindowInv
    /\ \A k \in Keys : promise[k] # NoPromise => Due(bucket[k], clock, promise[k])

\* A quotient that is rounded up is less than one too large.
LEMMA CeilDivIsTight ==
    ASSUME NEW a \in Nat \ {0}, NEW b \in Nat \ {0}
    PROVE  CeilDiv(a, b) \in Nat \ {0} /\ (CeilDiv(a, b) - 1) * b < a
<1> DEFINE n == a + b - 1
           q == n \div b
<1>1. n \in Nat /\ n >= b
  OBVIOUS
<1>2. q \in Nat /\ n = (b * q) + (n % b) /\ n % b \in 0..(b - 1)
  BY <1>1
<1>3. b * q <= n
  BY <1>1, <1>2
<1>4. (q - 1) * b = b * q - b
  BY <1>2, SMT
<1>5. q # 0
  BY <1>1, <1>2
<1> QED
  BY <1>1, <1>2, <1>3, <1>4, <1>5 DEF CeilDiv

\* The refill of a stretch of time is that of its parts.
LEMMA RefillAdds ==
    ASSUME NEW m \in Int, NEW n \in Int
    PROVE  m * Refill \in Int /\ (m + n) * Refill = m * Refill + n * Refill
  BY BucketConstants, SMT

\* One tick adds its refill, unless the bucket is full before.
LEMMA TickGains ==
    ASSUME NEW b \in Buckets, NEW t \in Nat, b.ts <= t
    PROVE  LevelAt(b, t + 1) = Full \/ LevelAt(b, t + 1) >= LevelAt(b, t) + Refill
<1>1. CASE ~IsStored(b, t + 1)
  BY <1>1 DEF LevelAt
<1>2. CASE IsStored(b, t + 1)
  <2>1. b \in [tokens: 0..Full, ts: 0..MaxClock, expires: Nat] /\ IsStored(b, t)
    BY <1>2 DEF Buckets, IsStored
  <2>2. Elapsed(b.ts, t) = t - b.ts /\ Elapsed(b.ts, t + 1) = (t - b.ts) + 1
    BY <2>1, BucketConstants DEF Elapsed
  <2> DEFINE e == (t - b.ts) * Refill
  <2>3. e \in Int /\ ((t - b.ts) + 1) * Refill = e + Refill
    BY <2>1, BucketConstants, RefillAdds
  <2>4. LevelAt(b, t) = Capped(b.tokens + e) /\ LevelAt(b, t + 1) = Capped(b.tokens + e + Refill)
    <3>1. LevelAt(b, t + 1) = Capped(b.tokens + (e + Refill))
      BY <1>2, <2>2, <2>3 DEF LevelAt
    <3>2. b.tokens + (e + Refill) = b.tokens + e + Refill
      BY <2>1, <2>3, BucketConstants
    <3> QED
      BY <2>1, <2>2, <3>1, <3>2 DEF LevelAt
  <2> HIDE DEF e
  <2> QED
    BY <2>1, <2>3, <2>4, BucketConstants, LifetimeSuffices DEF Capped
<1> QED
  BY <1>1, <1>2

\* Retry-After tells a refused caller neither too little nor a second too much.
LEMMA DueAtFirst ==
    ASSUME NEW b \in Buckets, NEW t \in Nat, b.ts <= t, LevelAt(b, t) < Cost
    PROVE  Due(b, t, t + RetryAfter(LevelAt(b, t)) * Second)
<1> DEFINE n == LevelAt(b, t)
           rate == Refill * Second
           w == CeilDiv(Cost - n, rate)
           p == t + w * Second
<1>1. n \in 0..Full /\ Cost \in Nat /\ n < Cost /\ Cost - n \in Nat \ {0}
  BY LevelFits, LifetimeSuffices
<1>2. rate \in Nat \ {0}
  BY BucketConstants, SMT
<1> HIDE DEF n, rate
<1>3. w \in Nat \ {0} /\ w * rate >= Cost - n /\ (w - 1) * rate < Cost - n
  BY <1>1, <1>2, CeilDivCovers, CeilDivIsTight
<1> HIDE DEF w
<1>4. RetryAfter(n) = w
  BY <1>3 DEF RetryAfter, w, rate
<1>5. w * Second \in Nat /\ w * Second >= 1
  <2>1. 1 * w <= Second * w
    BY <1>3, BucketConstants, TimesMonotone
  <2> QED
    BY <1>3, <2>1, BucketConstants, SMT
<1>6. (w * Second) * Refill = w * rate /\ ((w - 1) * Second) * Refill = (w - 1) * rate
  BY <1>3, BucketConstants, SMT DEF rate
<1>7. w * Second - Second = (w - 1) * Second
  BY <1>3, BucketConstants, SMT
<1>8. w * rate \in Nat /\ (w - 1) * rate \in Nat
  BY <1>2, <1>3, SMT
<1> HIDE DEF p
<1>9. p \in Nat /\ p - t = w * Second /\ p - Second - t = (w - 1) * Second /\ p > t
  BY <1>5, <1>7, BucketConstants DEF p
<1>10. (p - t) * Refill >= Cost - n /\ (p - Second - t) * Refill < Cost - n
       /\ (p - t) * Refill \in Int /\ (p - Second - t) * Refill \in Int
  BY <1>3, <1>6, <1>8, <1>9
<1>11. Due(b, t, p)
  BY <1>1, <1>9, <1>10 DEF Due, n
<1> QED
  BY <1>4, <1>11 DEF n, p

\* A promise is kept as the clock ticks.
LEMMA DueAfterTick ==
    ASSUME NEW b \in Buckets, NEW t \in Nat, NEW p \in Nat, Due(b, t, p),
           b # NoBucket => b.expires = b.ts + Lifetime
    PROVE  Due(b, t + 1, p)
<1> DEFINE n == LevelAt(b, t)
           m == LevelAt(b, t + 1)
<1>1. n \in 0..Full /\ m \in 0..Full /\ n <= m /\ m <= n + Refill
      /\ (m = Full \/ m >= n + Refill)
  BY LevelFits, EarlierIsLower, TickRefills, TickGains DEF Due
<1>2. Full \in Nat /\ Cost \in Nat /\ Cost <= Full /\ Refill \in Nat /\ Second \in Nat
  BY BucketConstants, LifetimeSuffices
<1> HIDE DEF n, m
<1>3. /\ (p - t) * Refill = (p - (t + 1)) * Refill + Refill
      /\ (p - (t + 1)) * Refill \in Int
      /\ p >= t + 1 => (p - (t + 1)) * Refill >= 0
      /\ p = t + 1 => (p - (t + 1)) * Refill = 0
  <2>1. (p - t) = (p - (t + 1)) + 1
    OBVIOUS
  <2> QED
    BY <1>2, <2>1, RefillAdds, SMT
<1>4. /\ (p - Second - t) * Refill = (p - Second - (t + 1)) * Refill + Refill
      /\ (p - Second - (t + 1)) * Refill \in Int
  <2>1. (p - Second - t) = (p - Second - (t + 1)) + 1
    BY <1>2
  <2> QED
    BY <1>2, <2>1, RefillAdds, SMT
<1>5. b.ts <= t + 1
  BY DEF Due, Buckets, NoBucket
<1>6. t + 1 <= p => m + (p - (t + 1)) * Refill >= Cost
  BY <1>1, <1>2, <1>3 DEF Due, n
<1>7. t + 1 >= p => m >= Cost
  <2>1. CASE t >= p
    BY <1>1, <1>2, <2>1 DEF Due, n
  <2>2. CASE t + 1 = p
    BY <1>1, <1>3, <1>6, <2>2
  <2> QED
    BY <2>1, <2>2
<1>8. t + 1 <= p - Second => m + (p - Second - (t + 1)) * Refill < Cost
  BY <1>1, <1>2, <1>4 DEF Due, n
<1> QED
  BY <1>5, <1>6, <1>7, <1>8 DEF Due, m

\* Nobody has been turned away at the start.
LEMMA PromiseInvInit == LimiterInit => PromiseInv
  BY WindowInvInit DEF LimiterInit, PromiseInv

\* Every step keeps the promises.
LEMMA PromiseInvStep == PromiseInv /\ [LimiterNext]_limiter => PromiseInv'
<1> SUFFICES ASSUME PromiseInv, [LimiterNext]_limiter,
                    NEW k \in Keys, promise'[k] # NoPromise
             PROVE  Due(bucket[k], clock, promise[k])'
  BY WindowInvStep DEF PromiseInv
<1>1. /\ bucket[k] \in Buckets /\ clock \in Nat /\ clock \in 0..MaxClock
      /\ promise \in [Keys -> Nat \cup {NoPromise}] /\ bucket \in [Keys -> Buckets]
      /\ bucket[k] # NoBucket => bucket[k].expires = bucket[k].ts + Lifetime
      /\ promise[k] # NoPromise => promise[k] \in Nat /\ Due(bucket[k], clock, promise[k])
  BY BucketConstants DEF PromiseInv, WindowInv, LimiterTypeOK, ExpiresOnTime
<1>2. CASE UNCHANGED <<bucket, clock, promise>>
  BY <1>1, <1>2 DEF Due, LevelAt, IsStored
<1>3. ASSUME NEW j \in Keys, Consume(j), reachable PROVE Due(bucket[k], clock, promise[k])'
  <2>1. CASE j # k
    BY <1>1, <1>3, <2>1 DEF Consume, Due, LevelAt, IsStored
  <2>2. CASE j = k
    <3>1. ~Allowed(k) /\ Level(k) < Cost /\ Level(k) \in 0..Full
      <4>1. ~Allowed(k)
        BY <1>1, <1>3, <2>2 DEF Consume
      <4> QED
        BY <1>1, <1>3, <4>1, LevelFits, LifetimeSuffices DEF Allowed, Level
    <3>2. PICK b : b = Stored(Level(k))
      OBVIOUS
    <3>3. /\ bucket'[k] = b /\ clock' = clock
          /\ promise'[k] = IF promise[k] # NoPromise THEN promise[k]
                           ELSE clock + RetryAfter(Level(k)) * Second
      BY <1>1, <1>3, <2>2, <3>1, <3>2, LifetimeSuffices DEF Consume, Left
    <3>4. b \in Buckets /\ LevelAt(b, clock) = Level(k) /\ b.ts <= clock
      <4>1. b = [tokens |-> Level(k), ts |-> clock, expires |-> clock + Lifetime]
        BY <3>2 DEF Stored
      <4> QED
        BY <1>1, <3>1, <4>1, JustStored
    <3>5. Due(b, clock, promise'[k])
      <4>1. CASE promise[k] # NoPromise
        BY <1>1, <3>3, <3>4, <4>1 DEF Due, Level
      <4>2. CASE promise[k] = NoPromise
        BY <1>1, <3>1, <3>3, <3>4, <4>2, DueAtFirst
      <4> QED
        BY <4>1, <4>2
    <3> QED
      BY <3>3, <3>5 DEF Due, LevelAt, IsStored
  <2> QED
    BY <2>1, <2>2
<1>4. CASE Tick
  <2>1. bucket' = bucket /\ promise' = promise /\ clock' = clock + 1
    BY <1>4 DEF Tick
  <2>2. Due(bucket[k], clock + 1, promise[k])
    BY <1>1, <2>1, DueAfterTick
  <2> QED
    BY <2>1, <2>2 DEF Due, LevelAt, IsStored
<1>5. CASE SetBack
  BY <1>5 DEF SetBack
<1>6. ASSUME NEW j \in Keys, Evict(j) PROVE Due(bucket[k], clock, promise[k])'
  <2>1. clock' = clock /\ promise' = promise /\ (j # k => bucket'[k] = bucket[k])
    BY <1>1, <1>6 DEF Evict
  <2>2. CASE j # k
    BY <1>1, <2>1, <2>2 DEF Due, LevelAt, IsStored
  <2>3. CASE j = k
    <3>1. bucket'[k] = NoBucket /\ LevelAt(bucket[k], clock) = Full
      BY <1>1, <1>6, <2>3 DEF Evict, LevelAt
    <3>2. LevelAt(NoBucket, clock) = Full /\ NoBucket.ts <= clock
      BY <1>1 DEF LevelAt, IsStored, NoBucket
    <3>3. Due(NoBucket, clock, promise[k])
      BY <1>1, <2>1, <3>1, <3>2 DEF Due
    <3> QED
      BY <2>1, <3>1, <3>3 DEF Due, LevelAt, IsStored
  <2> QED
    BY <2>2, <2>3
<1>7. ASSUME NEW j \in Keys, Consume(j), ~reachable PROVE UNCHANGED <<bucket, clock, promise>>
  BY <1>7 DEF Consume
<1>8. ASSUME NEW j \in Keys, StartWindow(j) PROVE UNCHANGED <<bucket, clock, promise>>
  BY <1>8 DEF StartWindow
<1>9. LoseRedis \/ UNCHANGED limiter => UNCHANGED <<bucket, clock, promise>>
  BY DEF LoseRedis, limiter
<1> QED
  BY <1>2, <1>3, <1>4, <1>5, <1>6, <1>7, <1>8, <1>9 DEF LimiterNext, Background

\* A refused caller who waits as long as Retry-After says is let in if nobody was meanwhile,
\* and is not told to wait a second too long, for any capacity, refill, cost and second.
THEOREM RetryAfterIsKept == LimiterSpec => []RetryAfterHolds
<1>1. PromiseInv => RetryAfterHolds
  <2> SUFFICES ASSUME PromiseInv, NEW k \in Keys, promise[k] # NoPromise
               PROVE  /\ clock >= promise[k] => Level(k) >= Cost
                      /\ clock < promise[k] - Second => Level(k) < Cost
    BY DEF RetryAfterHolds
  <2>1. /\ clock \in Nat /\ promise[k] \in Nat /\ Level(k) \in 0..Full
        /\ Due(bucket[k], clock, promise[k])
    BY BucketConstants, LevelFits DEF PromiseInv, WindowInv, LimiterTypeOK, Level
  <2>2. Second \in Nat /\ Refill \in Nat /\ Full \in Nat /\ Cost \in Nat
    BY BucketConstants, LifetimeSuffices
  <2>3. ASSUME clock < promise[k] - Second PROVE Level(k) < Cost
    <3> DEFINE m == promise[k] - Second - clock
    <3>1. m \in Nat
      BY <2>1, <2>2, <2>3
    <3> HIDE DEF m
    <3>2. m * Refill \in Nat
      BY <2>2, <3>1, SMT
    <3>3. Level(k) + m * Refill < Cost
      BY <2>1, <2>2, <2>3 DEF Due, Level, m
    <3> QED
      BY <2>1, <2>2, <3>2, <3>3
  <2> QED
    BY <2>1, <2>3 DEF Due, Level
<1> QED
  BY <1>1, PromiseInvInit, PromiseInvStep, PTL DEF LimiterSpec
=============================================================================
