----------------------- MODULE RequestDispatchProofs -----------------------
(***************************************************************************)
(* Requests, routes and admission, for every set of configurations, all    *)
(* traffic and all limits: the token bucket lets through exactly what rate *)
(* and burst allow, the rotation is fair however the health checks move,   *)
(* the permits stay within their limit, and a request takes the route with *)
(* the longest prefix over its path, or none and is answered here.         *)
(***************************************************************************)
EXTENDS RequestDispatch, NaturalsInduction, WellFoundedInduction, SequenceTheorems, TLAPS

----------------------------------------------------------------------------
(* The inductive invariant.                                                *)

\* What a route still owes: what was taken and the time since has not earned
\* back.  A bucket that has not been asked for a while is behind by as much.
Owes(r) ==
    LET earned == units[r] + elapsed[r] * Rate(r) IN
    IF earned >= Capacity(r) THEN 0 ELSE Capacity(r) - earned

BucketInv(r) == Limited(r) => units[r] <= Capacity(r) /\ debt[r] = Owes(r)

\* What waits for a slot to be chosen again is available, and the search comes
\* to it before it comes to that slot.
RotationInv(r) ==
    /\ since[r] \in [SlotsOf(r) -> SUBSET SlotsOf(r)]
    /\ \A i \in SlotsOf(r) : \A j \in since[r][i] :
          j \in available[r] /\ Distance(r, j) < Distance(r, i)

DispatchInv ==
    /\ DispatchTypeOK
    /\ DOMAIN since = Routes /\ DOMAIN available = Routes
    /\ \A r \in Routes : BucketInv(r) /\ RotationInv(r)

----------------------------------------------------------------------------
(* Division.                                                               *)

\* A number is its own remainder below the divisor.
LEMMA SmallMod ==
    ASSUME NEW n \in Nat \ {0}, NEW a \in Nat, a < n
    PROVE  a % n = a
OBVIOUS

\* How far it is from one position to another, on a ring of n.
LEMMA RingDistance ==
    ASSUME NEW n \in Nat \ {0}, NEW i \in 0 .. n - 1, NEW p \in 0 .. n - 1
    PROVE  /\ (i - p) % n = IF i >= p THEN i - p ELSE i - p + n
           /\ (i + 1) % n = IF i + 1 = n THEN 0 ELSE i + 1
<1>1. (i - p) % n = IF i >= p THEN i - p ELSE i - p + n
  <2>1. CASE i >= p
    BY <2>1
  <2>2. CASE i < p
    BY <2>2
  <2> QED
    BY <2>1, <2>2
<1>2. (i + 1) % n = IF i + 1 = n THEN 0 ELSE i + 1
  <2>1. CASE i + 1 = n
    BY <2>1
  <2>2. CASE i + 1 < n
    BY <2>2
  <2> QED
    BY <2>1, <2>2
<1> QED
  BY <1>1, <1>2

\* A product grows with its factor.
LEMMA ProductGrows ==
    ASSUME NEW a \in Nat, NEW b \in Nat, NEW c \in Nat, a <= b
    PROVE  a * c <= b * c /\ a * c \in Nat /\ b * c \in Nat
OBVIOUS

\* ceil_divide gives the least number of steps of d that reach n.
LEMMA CeilDivideIs ==
    ASSUME NEW n \in Nat, NEW d \in Nat \ {0}
    PROVE  /\ CeilDivide(n, d) \in Nat
           /\ \A k \in Nat : k >= CeilDivide(n, d) <=> k * d >= n
<1> DEFINE q == n \div d
           m == n % d
           c == CeilDivide(n, d)
<1>1. q \in Nat /\ m \in 0 .. d - 1 /\ n = (q * d) + m
  OBVIOUS
<1>2. c = q + (IF m = 0 THEN 0 ELSE 1)
  BY DEF CeilDivide
<1> HIDE DEF q, m, c
<1>3. c \in Nat
  BY <1>1, <1>2
<1>4. ASSUME NEW k \in Nat
      PROVE  k >= c <=> k * d >= n
  <2>1. CASE k >= q + 1
    <3>1. (q + 1) * d <= k * d /\ (q + 1) * d = (q * d) + d /\ q * d \in Nat
      BY <1>1, <2>1, ProductGrows
    <3>2. k * d \in Nat
      OBVIOUS
    <3>3. k * d >= n
      BY <1>1, <3>1, <3>2
    <3> QED
      BY <1>1, <1>2, <2>1, <3>3
  <2>2. CASE k = q
    BY <1>1, <1>2, <2>2
  <2>3. CASE k < q
    <3>1. (k + 1) * d <= q * d /\ (k + 1) * d = (k * d) + d /\ k * d \in Nat /\ q * d \in Nat
      BY <1>1, <2>3, ProductGrows
    <3>2. k * d < n
      BY <1>1, <3>1
    <3> QED
      BY <1>1, <1>2, <1>3, <2>3, <3>1, <3>2
  <2> QED
    BY <1>1, <2>1, <2>2, <2>3
<1> QED
  BY <1>3, <1>4 DEF c

----------------------------------------------------------------------------
(* The token bucket.                                                       *)

\* The numbers of a route, as parse_routes lets them through.
LEMMA RouteIs ==
    ASSUME config \in Configs, NEW r \in Routes
    PROVE  /\ config.routes[r].upstreams \in Nat \ {0} /\ config.routes[r].health_check \in BOOLEAN
           /\ Rate(r) \in Nat /\ config.routes[r].burst \in Nat \ {0}
           /\ units_per_token \in Nat \ {0} /\ Word \in Nat \ {0} /\ Horizon \in Nat \ {0}
           /\ Capacity(r) \in Nat /\ Capacity(r) < Word /\ Capacity(r) <= Horizon
           /\ units_per_token <= Capacity(r)
<1>1. /\ config.routes[r].upstreams \in Nat \ {0} /\ config.routes[r].health_check \in BOOLEAN
      /\ config.routes[r].rate \in Nat /\ config.routes[r].burst \in Nat \ {0}
      /\ config.routes[r].burst * units_per_token < Word
      /\ config.routes[r].burst * units_per_token <= Horizon
  BY BucketAssumption DEF Routes
<1>2. units_per_token \in Nat \ {0} /\ Word \in Nat \ {0} /\ Horizon \in Nat \ {0}
  BY AdmissionAssumption
<1> DEFINE b == config.routes[r].burst
           c == b * units_per_token
<1>3. b \in Nat \ {0}
  BY <1>1
<1> HIDE DEF b
<1>4. c \in Nat
  BY <1>2, <1>3
<1>5. 1 * units_per_token <= b * units_per_token /\ 1 * units_per_token = units_per_token
  <2>1. 1 <= b
    BY <1>3
  <2> QED
    BY <1>2, <1>3, <2>1, ProductGrows
<1>6. Capacity(r) = c /\ Rate(r) = config.routes[r].rate
  BY DEF Capacity, Rate, b
<1> QED
  BY <1>1, <1>2, <1>3, <1>4, <1>5, <1>6 DEF b

\* refill gives what the bucket holds now, whichever of its ways it takes, and
\* no sum or product passes the word.
LEMMA RefilledIs ==
    ASSUME DispatchTypeOK, NEW r \in Routes, Limited(r), BucketInv(r)
    PROVE  /\ debt[r] \in Nat /\ debt[r] <= Capacity(r)
           /\ Refilled(r) = Capacity(r) - debt[r]
<1> DEFINE u == units[r]
           e == elapsed[r]
           k == Rate(r)
           c == Capacity(r)
           t == e * k
           d == debt[r]
<1>1. /\ u \in Nat /\ u <= c /\ e \in Nat /\ d \in Nat
      /\ c \in Nat /\ c < Word /\ Word \in Nat \ {0}
      /\ k \in Nat \ {0}
  <2>1. config \in Configs /\ units[r] \in 0 .. Word - 1 /\ elapsed[r] \in 0 .. Horizon /\ debt[r] \in Nat
    BY DEF DispatchTypeOK
  <2>2. Rate(r) # 0 /\ units[r] <= Capacity(r)
    BY DEF Limited, BucketInv
  <2>3. /\ Rate(r) \in Nat /\ Word \in Nat \ {0} /\ Horizon \in Nat \ {0}
        /\ Capacity(r) \in Nat /\ Capacity(r) < Word
    BY <2>1, RouteIs
  <2> QED
    BY <2>1, <2>2, <2>3
<1>2. d = IF u + t >= c THEN 0 ELSE c - (u + t)
  BY DEF BucketInv, Owes
<1>3. Refilled(r) = IF e = 0 THEN u
                    ELSE IF e >= c THEN c
                    ELSE IF e >= CeilDivide((c - u) % Word, k) THEN c
                    ELSE (u + (t % Word)) % Word
  BY DEF Refilled, Capacity
<1> HIDE DEF u, e, k, c, d
<1>4. t \in Nat /\ (e = 0 => t = 0)
  BY <1>1
<1>5. e >= c => t >= c
  <2>1. CASE e >= c
    <3>1. 1 * e <= k * e /\ 1 * e = e /\ k * e = e * k
      <4>1. 1 <= k
        BY <1>1
      <4> QED
        BY <1>1, <4>1, ProductGrows
    <3> QED
      BY <1>1, <1>4, <2>1, <3>1
  <2> QED
    BY <2>1
<1>6. (c - u) % Word = c - u /\ c - u \in Nat
  <2>1. c - u \in Nat /\ c - u < Word
    BY <1>1
  <2> QED
    BY <1>1, <2>1, SmallMod
<1>7. e >= CeilDivide((c - u) % Word, k) <=> t >= c - u
  BY <1>1, <1>6, CeilDivideIs
<1> HIDE DEF t
<1>8. d <= c
  BY <1>1, <1>2, <1>4
<1>9. Refilled(r) = c - d
  <2>1. CASE e = 0
    BY <1>1, <1>2, <1>3, <1>4, <2>1
  <2>2. CASE e # 0 /\ e >= c
    <3>1. Refilled(r) = c
      BY <1>3, <2>2
    <3>2. d = 0
      BY <1>1, <1>2, <1>4, <1>5, <2>2
    <3> QED
      BY <1>1, <3>1, <3>2
  <2>3. CASE e # 0 /\ ~(e >= c) /\ t >= c - u
    <3>1. Refilled(r) = c
      BY <1>3, <1>7, <2>3
    <3>2. d = 0
      BY <1>1, <1>2, <1>4, <2>3
    <3> QED
      BY <1>1, <3>1, <3>2
  <2>4. CASE e # 0 /\ ~(e >= c) /\ ~(t >= c - u)
    <3>1. Refilled(r) = (u + (t % Word)) % Word
      BY <1>3, <1>7, <2>4
    <3>2. t < Word /\ u + t \in Nat /\ u + t < Word /\ u + t < c
      BY <1>1, <1>4, <2>4
    <3>3. t % Word = t /\ (u + t) % Word = u + t
      BY <1>1, <1>4, <3>2, SmallMod
    <3>4. d = c - (u + t)
      BY <1>1, <1>2, <1>4, <3>2
    <3> QED
      BY <1>1, <1>4, <3>1, <3>3, <3>4
  <2> QED
    BY <2>1, <2>2, <2>3, <2>4
<1> QED
  BY <1>1, <1>8, <1>9 DEF c, d

\* The configuration is what it was.
LEMMA ConfigStays ==
    ASSUME config' = config
    PROVE  /\ Routes' = Routes
           /\ \A r : /\ SlotsOf(r)' = SlotsOf(r) /\ Rate(r)' = Rate(r) /\ Capacity(r)' = Capacity(r)
                     /\ Limited(r)' <=> Limited(r)
BY DEF Routes, SlotsOf, Rate, Capacity, Limited

\* What a bucket promises after a step.
LEMMA BucketNext ==
    ASSUME config' = config, NEW q,
           Limited(q) =>
              /\ units'[q] <= Capacity(q)
              /\ debt'[q] = IF units'[q] + (elapsed'[q] * Rate(q)) >= Capacity(q) THEN 0
                            ELSE Capacity(q) - (units'[q] + (elapsed'[q] * Rate(q)))
    PROVE  BucketInv(q)'
<1>1. Rate(q)' = Rate(q) /\ Capacity(q)' = Capacity(q) /\ (Limited(q)' <=> Limited(q))
  BY ConfigStays
<1>2. Owes(q)' = IF units'[q] + (elapsed'[q] * Rate(q)) >= Capacity(q) THEN 0
                 ELSE Capacity(q) - (units'[q] + (elapsed'[q] * Rate(q)))
  BY <1>1 DEF Owes
<1> QED
  BY <1>1, <1>2 DEF BucketInv

\* try_acquire of the bucket
LEMMA AskBucketInv ==
    ASSUME DispatchTypeOK, \A q \in Routes : BucketInv(q), NEW r, AskBucket(r), config' = config
    PROVE  /\ units' \in [Routes -> 0 .. Word - 1] /\ elapsed' \in [Routes -> 0 .. Horizon]
           /\ debt' \in [Routes -> Nat]
           /\ \A q \in Routes : BucketInv(q)'
<1>1. /\ units \in [Routes -> 0 .. Word - 1] /\ elapsed \in [Routes -> 0 .. Horizon]
      /\ debt \in [Routes -> Nat] /\ config \in Configs
  BY DEF DispatchTypeOK
<1>2. CASE ~Limited(r)
  <2>1. units' = units /\ elapsed' = elapsed /\ debt' = debt
    BY <1>2 DEF AskBucket, bucketVars
  <2>2. ASSUME NEW q \in Routes
        PROVE  BucketInv(q)'
    <3>1. BucketInv(q)
      OBVIOUS
    <3> QED
      BY <2>1, <3>1, BucketNext DEF BucketInv, Owes
  <2> QED
    BY <1>1, <2>1, <2>2
<1>3. CASE Limited(r)
  <2> DEFINE c == Capacity(r)
             d == debt[r]
             u == IF Allowed(r) THEN Refilled(r) - units_per_token ELSE Refilled(r)
             o == IF Allowed(r) THEN d + units_per_token ELSE d
  <2>1. r \in Routes
    BY <1>3 DEF Limited
  <2>2. /\ units' = [units EXCEPT ![r] = u] /\ elapsed' = [elapsed EXCEPT ![r] = 0]
        /\ debt' = [debt EXCEPT ![r] = o]
    BY <1>3 DEF AskBucket
  <2>3. d \in Nat /\ d <= c /\ Refilled(r) = c - d
    BY <1>3, <2>1, RefilledIs
  <2>4. /\ units_per_token \in Nat \ {0} /\ c \in Nat /\ c < Word /\ Word \in Nat \ {0}
        /\ Rate(r) \in Nat /\ Horizon \in Nat \ {0}
    BY <1>1, <2>1, RouteIs
  <2>5. Allowed(r) <=> c - d >= units_per_token
    BY <1>3, <2>3 DEF Allowed
  <2> HIDE DEF c, d
  <2>6. u \in Nat /\ u <= c /\ o = c - u /\ o \in Nat
    <3>1. CASE Allowed(r)
      BY <2>3, <2>4, <2>5, <3>1
    <3>2. CASE ~Allowed(r)
      BY <2>3, <2>4, <2>5, <3>2
    <3> QED
      BY <3>1, <3>2
  <2> HIDE DEF u, o
  <2>7. /\ units'[r] = u /\ elapsed'[r] = 0 /\ debt'[r] = o
        /\ \A q \in Routes : q # r =>
              units'[q] = units[q] /\ elapsed'[q] = elapsed[q] /\ debt'[q] = debt[q]
    BY <1>1, <2>1, <2>2
  <2>8. ASSUME NEW q \in Routes
        PROVE  BucketInv(q)'
    <3>1. CASE q = r
      <4>1. units'[q] + (elapsed'[q] * Rate(q)) = u
        <5>1. 0 * Rate(r) = 0 /\ u + 0 = u
          BY <2>4, <2>6
        <5> QED
          BY <2>7, <3>1, <5>1
      <4>2. o = IF u >= c THEN 0 ELSE c - u
        BY <2>4, <2>6
      <4> QED
        BY <2>6, <2>7, <3>1, <4>1, <4>2, BucketNext DEF c
    <3>2. CASE q # r
      <4>1. BucketInv(q)
        OBVIOUS
      <4>2. units'[q] = units[q] /\ elapsed'[q] = elapsed[q] /\ debt'[q] = debt[q]
        BY <2>7, <3>2
      <4> QED
        BY <4>1, <4>2, BucketNext DEF BucketInv, Owes
    <3> QED
      BY <3>1, <3>2
  <2>9. u \in 0 .. Word - 1 /\ 0 \in 0 .. Horizon
    BY <2>4, <2>6
  <2>10. /\ units' \in [Routes -> 0 .. Word - 1] /\ elapsed' \in [Routes -> 0 .. Horizon]
         /\ debt' \in [Routes -> Nat]
    BY <1>1, <2>2, <2>6, <2>9
  <2> QED
    BY <2>8, <2>10
<1> QED
  BY <1>2, <1>3

\* Time goes by: what is owed shrinks by the rate, the bucket does not change.
LEMMA ClockBuckets ==
    ASSUME DispatchTypeOK, \A q \in Routes : BucketInv(q), Clock
    PROVE  /\ units' \in [Routes -> 0 .. Word - 1] /\ elapsed' \in [Routes -> 0 .. Horizon]
           /\ debt' \in [Routes -> Nat]
           /\ \A q \in Routes : BucketInv(q)'
<1>1. /\ units \in [Routes -> 0 .. Word - 1] /\ elapsed \in [Routes -> 0 .. Horizon]
      /\ debt \in [Routes -> Nat] /\ config \in Configs
  BY DEF DispatchTypeOK
<1>2. /\ config' = config /\ units' = units
      /\ elapsed' = [r \in Routes |->
                       IF Limited(r) /\ elapsed[r] < Horizon THEN elapsed[r] + 1 ELSE elapsed[r]]
      /\ debt' = [r \in Routes |-> IF debt[r] > Rate(r) THEN debt[r] - Rate(r) ELSE 0]
  BY DEF Clock
<1>3. ASSUME NEW q \in Routes
      PROVE  /\ elapsed'[q] \in 0 .. Horizon /\ debt'[q] \in Nat
             /\ BucketInv(q)'
  <2> DEFINE u == units[q]
             e == elapsed[q]
             k == Rate(q)
             c == Capacity(q)
             d == debt[q]
             t == e * k
  <2>1. /\ u \in Nat /\ e \in Nat /\ e <= Horizon /\ d \in Nat /\ k \in Nat
        /\ c \in Nat /\ c <= Horizon /\ Horizon \in Nat
    BY <1>1, <1>3, RouteIs
  <2>2. /\ elapsed'[q] = IF Limited(q) /\ e < Horizon THEN e + 1 ELSE e
        /\ debt'[q] = IF d > k THEN d - k ELSE 0
        /\ units'[q] = u
    BY <1>2
  <2>3. elapsed'[q] \in 0 .. Horizon /\ debt'[q] \in Nat
    <3> HIDE DEF u, e, k, c, d
    <3> QED
      BY <2>1, <2>2
  <2>4. CASE ~Limited(q)
    BY <1>2, <2>3, <2>4, BucketNext
  <2>5. CASE Limited(q)
    <3>1. u <= c /\ d = (IF u + t >= c THEN 0 ELSE c - (u + t)) /\ k # 0
      BY <2>5 DEF BucketInv, Owes, Limited
    <3> DEFINE f == IF e < Horizon THEN e + 1 ELSE e
    <3>2. elapsed'[q] = f
      BY <2>2, <2>5
    <3> HIDE DEF u, e, k, c, d
    <3>3. t \in Nat /\ (e + 1) * k = t + k
      BY <2>1
    <3>4. e = Horizon => t >= c
      <4>1. CASE e = Horizon
        <5>1. 1 * e <= k * e /\ 1 * e = e /\ k * e = e * k
          <6>1. 1 <= k
            BY <2>1, <3>1
          <6> QED
            BY <2>1, <6>1, ProductGrows
        <5> QED
          BY <2>1, <3>3, <4>1, <5>1
      <4> QED
        BY <4>1
    <3> HIDE DEF t
    <3>5. f * k = IF e < Horizon THEN t + k ELSE t
      <4>1. CASE e < Horizon
        BY <3>3, <4>1
      <4>2. CASE ~(e < Horizon)
        BY <4>2 DEF t
      <4> QED
        BY <4>1, <4>2
    <3> DEFINE g == f * k
    <3>6. g = IF e < Horizon THEN t + k ELSE t
      BY <3>5
    <3> HIDE DEF f, g
    <3>7. (IF d > k THEN d - k ELSE 0) = IF u + g >= c THEN 0 ELSE c - (u + g)
      <4>1. CASE e < Horizon
        BY <2>1, <3>1, <3>3, <3>6, <4>1
      <4>2. CASE ~(e < Horizon)
        BY <2>1, <3>1, <3>3, <3>4, <3>6, <4>2
      <4> QED
        BY <4>1, <4>2
    <3>8. units'[q] + (elapsed'[q] * Rate(q)) = u + g
      BY <2>2, <3>2 DEF g, k
    <3>9. BucketInv(q)'
      BY <1>2, <2>2, <3>1, <3>7, <3>8, BucketNext DEF c
    <3> QED
      BY <2>3, <3>9
  <2> QED
    BY <2>4, <2>5
<1> QED
  BY <1>1, <1>2, <1>3

\* The units that a request lacks, and the whole seconds they take.
LEMMA RetryIs ==
    ASSUME DispatchTypeOK, NEW r \in Routes, Limited(r), BucketInv(r)
    PROVE  LET over == debt[r] + units_per_token - Capacity(r)
               second == Rate(r) * units_per_token IN
           /\ ~Allowed(r) <=> over > 0
           /\ ~Allowed(r) =>
                over <= RetryAfter(r) * second /\ over > (RetryAfter(r) - 1) * second
<1> DEFINE over == debt[r] + units_per_token - Capacity(r)
           u == units_per_token
           k == Rate(r)
<1>1. debt[r] \in Nat /\ debt[r] <= Capacity(r) /\ Refilled(r) = Capacity(r) - debt[r]
  BY RefilledIs
<1>2. u \in Nat \ {0} /\ k \in Nat /\ Capacity(r) \in Nat /\ k # 0
  <2>1. config \in Configs
    BY DEF DispatchTypeOK
  <2> QED
    BY <2>1, RouteIs DEF Limited
<1>3. ~Allowed(r) <=> over > 0
  BY <1>1, <1>2 DEF Allowed
<1>4. over = u - Refilled(r) /\ over \in Int
  BY <1>1, <1>2
<1> HIDE DEF over, u, k
<1>5. ASSUME ~Allowed(r)
      PROVE  over <= RetryAfter(r) * (k * u) /\ over > (RetryAfter(r) - 1) * (k * u)
  <2>1. over \in Nat /\ over > 0
    BY <1>3, <1>4, <1>5
  <2> DEFINE ticks == CeilDivide(over, k)
             t == CeilDivide(ticks, u)
  <2>2. RetryAfter(r) = t
    BY <1>4 DEF RetryAfter, u, k
  <2>3. ticks \in Nat /\ \A n \in Nat : n >= ticks <=> n * k >= over
    BY <1>2, <2>1, CeilDivideIs
  <2> HIDE DEF ticks
  <2>4. t \in Nat /\ \A n \in Nat : n >= t <=> n * u >= ticks
    BY <1>2, <2>3, CeilDivideIs
  <2> HIDE DEF t
  <2>5. \A n \in Nat : n * u \in Nat /\ (n * u) * k = n * (k * u) /\ n * (k * u) \in Nat
    BY <1>2
  <2>6. over <= t * (k * u)
    <3>1. t * u >= ticks
      BY <2>4
    <3>2. (t * u) * k >= over
      BY <2>3, <2>4, <2>5, <3>1
    <3> QED
      BY <2>1, <2>4, <2>5, <3>2
  <2>7. t > 0
    <3>1. CASE t = 0
      <4>1. 0 * (k * u) = 0
        BY <1>2
      <4> QED
        BY <2>1, <2>6, <3>1, <4>1
    <3> QED
      BY <2>4, <3>1
  <2>8. over > (t - 1) * (k * u)
    <3> DEFINE n == t - 1
    <3>1. n \in Nat /\ n < t
      BY <2>4, <2>7
    <3> HIDE DEF n
    <3>2. ~ (n * u >= ticks)
      BY <2>4, <3>1
    <3>3. ~ ((n * u) * k >= over)
      BY <2>3, <2>5, <3>1, <3>2
    <3>4. over > n * (k * u)
      BY <2>1, <2>5, <3>1, <3>3
    <3> QED
      BY <3>4 DEF n
  <2> QED
    BY <2>2, <2>6, <2>8
<1> QED
  BY <1>3, <1>5 DEF over, u, k

----------------------------------------------------------------------------
(* The rotation.                                                           *)

\* A set of natural numbers that is not empty has a least element.
LEMMA LeastExists ==
    ASSUME NEW S \in SUBSET Nat, S # {}
    PROVE  \E x \in S : \A y \in S : x <= y
<1> DEFINE R == {r \in Nat \X Nat : r[1] < r[2]}
<1>1. IsWellFoundedOn(R, Nat)
  BY NatLessThanWellFounded, Zenon DEF OpToRel
<1>2. PICK x \in S : \A y \in S : ~ (<<y, x>> \in R)
  BY <1>1, WFMin, Zenon
<1>3. ASSUME NEW y \in S
      PROVE  x <= y
  <2>1. <<y, x>> \in Nat \X Nat /\ <<y, x>>[1] = y /\ <<y, x>>[2] = x
    OBVIOUS
  <2>2. ~ (y < x)
    BY <1>2, <2>1, Zenon
  <2> QED
    BY <2>2
<1> QED
  BY <1>3

\* How far the search is from a slot.
LEMMA DistanceIs ==
    ASSUME config \in Configs, NEW r \in Routes, next_upstream[r] \in SlotsOf(r), NEW i \in SlotsOf(r)
    PROVE  /\ Distance(r, i) = IF i >= next_upstream[r] THEN i - next_upstream[r]
                               ELSE i - next_upstream[r] + config.routes[r].upstreams
           /\ Distance(r, i) \in Nat
<1> DEFINE n == config.routes[r].upstreams
           p == next_upstream[r]
<1>1. n \in Nat \ {0} /\ p \in 0 .. n - 1 /\ i \in 0 .. n - 1
  BY RouteIs DEF SlotsOf
<1>2. Distance(r, i) = (i - p) % n
  BY DEF Distance
<1> HIDE DEF n, p
<1>3. (i - p) % n = IF i >= p THEN i - p ELSE i - p + n
  BY <1>1, RingDistance
<1>4. Distance(r, i) \in Nat
  BY <1>1, <1>2, <1>3
<1> QED
  BY <1>2, <1>3, <1>4 DEF n, p

\* The search stops at the first slot that is available.
LEMMA ChosenIs ==
    ASSUME DispatchTypeOK, NEW r \in Routes, available[r] # {}
    PROVE  /\ Chosen(r) \in available[r] /\ Chosen(r) \in SlotsOf(r)
           /\ \A j \in available[r] : Distance(r, Chosen(r)) <= Distance(r, j)
<1>1. config \in Configs /\ next_upstream[r] \in SlotsOf(r) /\ available[r] \subseteq SlotsOf(r)
  BY DEF DispatchTypeOK
<1> DEFINE far == {Distance(r, i) : i \in available[r]}
<1>2. far \in SUBSET Nat /\ far # {}
  BY <1>1, DistanceIs
<1>3. PICK x \in far : \A y \in far : x <= y
  BY <1>2, LeastExists
<1>4. \E i \in available[r] : \A j \in available[r] : Distance(r, i) <= Distance(r, j)
  BY <1>3
<1>5. Chosen(r) \in available[r] /\ \A j \in available[r] : Distance(r, Chosen(r)) <= Distance(r, j)
  BY <1>4 DEF Chosen
<1> QED
  BY <1>1, <1>5

\* The steps from p on to i, on a ring of n.
Steps(n, p, i) == (i - p) % n

\* Where the slots are once the search has stopped at c and moved past it, to s.
LEMMA RingTurns ==
    ASSUME NEW n \in Nat \ {0}, NEW p \in 0 .. n - 1, NEW c \in 0 .. n - 1, NEW j \in 0 .. n - 1,
           NEW s, s = (c + 1) % n
    PROVE  /\ s \in 0 .. n - 1
           /\ Steps(n, p, j) >= Steps(n, p, c) /\ j # c
                => Steps(n, s, j) = Steps(n, p, j) - Steps(n, p, c) - 1
           /\ Steps(n, s, c) = n - 1
           /\ j # c => Steps(n, s, j) < Steps(n, s, c)
           /\ Steps(n, p, j) \in Nat /\ Steps(n, p, c) \in Nat
<1>1. s = IF c + 1 = n THEN 0 ELSE c + 1
  BY RingDistance
<1>2. s \in 0 .. n - 1
  BY <1>1
<1> DEFINE dj == Steps(n, p, j)
           dc == Steps(n, p, c)
           ej == Steps(n, s, j)
           ec == Steps(n, s, c)
<1>3. /\ dj = IF j >= p THEN j - p ELSE j - p + n
      /\ dc = IF c >= p THEN c - p ELSE c - p + n
      /\ ej = IF j >= s THEN j - s ELSE j - s + n
      /\ ec = IF c >= s THEN c - s ELSE c - s + n
  <2>1. /\ (j - p) % n = IF j >= p THEN j - p ELSE j - p + n
        /\ (c - p) % n = IF c >= p THEN c - p ELSE c - p + n
    BY RingDistance
  <2>2. /\ (j - s) % n = IF j >= s THEN j - s ELSE j - s + n
        /\ (c - s) % n = IF c >= s THEN c - s ELSE c - s + n
    BY <1>2, RingDistance
  <2> QED
    BY <2>1, <2>2, Zenon DEF Steps
<1> HIDE DEF dj, dc, ej, ec
<1>4. /\ dj >= dc /\ j # c => ej = dj - dc - 1
      /\ ec = n - 1 /\ (j # c => ej < ec)
      /\ dj \in Nat /\ dc \in Nat
  <2>1. CASE c + 1 = n
    BY <1>1, <1>3, <2>1
  <2>2. CASE c + 1 # n
    BY <1>1, <1>3, <2>2
  <2> QED
    BY <2>1, <2>2
<1> QED
  BY <1>2, <1>4 DEF dj, dc, ej, ec

\* A route whose rotation is left alone.
LEMMA RotationStays ==
    ASSUME config' = config, NEW q \in Routes, RotationInv(q), next_upstream'[q] = next_upstream[q],
           since'[q] = since[q], available'[q] = available[q]
    PROVE  RotationInv(q)'
<1>1. SlotsOf(q)' = SlotsOf(q)
  BY ConfigStays
<1>2. \A i : Distance(q, i)' = Distance(q, i)
  BY DEF Distance
<1> QED
  BY <1>1, <1>2 DEF RotationInv

\* A slot is chosen: the search goes on behind it, and it comes to all the
\* others before it comes to this slot again.
LEMMA ChosenRotation ==
    ASSUME DispatchInv, NEW r \in Routes, available[r] # {}, config' = config, available' = available,
           Advance(r, Chosen(r)), Waits(r, Chosen(r))
    PROVE  /\ next_upstream' \in [Routes -> Nat] /\ DOMAIN since' = Routes
           /\ \A q \in Routes : next_upstream'[q] \in SlotsOf(q) /\ RotationInv(q)'
<1> DEFINE c == Chosen(r)
           n == config.routes[r].upstreams
           p == next_upstream[r]
           s == (c + 1) % n
           D(i) == Steps(n, p, i)
           E(i) == Steps(n, s, i)
<1>1. DispatchTypeOK /\ DOMAIN since = Routes /\ \A q \in Routes : RotationInv(q)
  BY DEF DispatchInv
<1>2. /\ config \in Configs /\ next_upstream \in [Routes -> Nat]
      /\ \A q \in Routes : next_upstream[q] \in SlotsOf(q)
  BY <1>1 DEF DispatchTypeOK
<1>3. n \in Nat \ {0} /\ SlotsOf(r) = 0 .. n - 1 /\ p \in 0 .. n - 1
  BY <1>2, RouteIs DEF SlotsOf
<1>4. c \in available[r] /\ c \in SlotsOf(r) /\ \A j \in available[r] : D(c) <= D(j)
  BY <1>1, ChosenIs DEF Distance, Steps
<1>5. /\ next_upstream' = [next_upstream EXCEPT ![r] = (c + 1) % n]
      /\ since' = [since EXCEPT ![r] =
                     [k \in SlotsOf(r) |-> IF k = c THEN available[r] \ {c} ELSE since[r][k] \ {c}]]
  BY DEF Advance, Waits
<1>6. available[r] \subseteq SlotsOf(r)
  BY <1>1 DEF DispatchTypeOK
<1> HIDE DEF c, n, p
<1>7. s = (c + 1) % n
  OBVIOUS
<1> HIDE DEF s
<1>8. \A j \in SlotsOf(r) :
           /\ s \in 0 .. n - 1
           /\ D(j) >= D(c) /\ j # c => E(j) = D(j) - D(c) - 1
           /\ j # c => E(j) < E(c)
           /\ D(j) \in Nat /\ D(c) \in Nat
  <2> SUFFICES ASSUME NEW j \in SlotsOf(r)
               PROVE  /\ s \in 0 .. n - 1
                      /\ D(j) >= D(c) /\ j # c => E(j) = D(j) - D(c) - 1
                      /\ j # c => E(j) < E(c)
                      /\ D(j) \in Nat /\ D(c) \in Nat
    OBVIOUS
  <2>1. n \in Nat \ {0} /\ p \in 0 .. n - 1 /\ c \in 0 .. n - 1 /\ j \in 0 .. n - 1
    BY <1>3, <1>4
  <2>2. s \in 0 .. n - 1
    BY <1>7, <2>1, RingTurns
  <2>3. Steps(n, p, j) \in Nat /\ Steps(n, p, c) \in Nat
    BY <1>7, <2>1, RingTurns
  <2>4. ASSUME j # c
        PROVE  Steps(n, s, j) < Steps(n, s, c)
    BY <1>7, <2>1, <2>4, RingTurns
  <2>5. Steps(n, p, j) >= Steps(n, p, c) /\ j # c
                => Steps(n, s, j) = Steps(n, p, j) - Steps(n, p, c) - 1
    BY <1>7, <2>1, RingTurns
  <2> QED
    BY <2>2, <2>3, <2>4, <2>5
<1>9. s \in SlotsOf(r) /\ s \in Nat
  BY <1>3, <1>4, <1>8
<1>10. \A i : D(i) = Distance(r, i) /\ E(i) = Distance(r, i)'
  <2>1. next_upstream'[r] = s
    BY <1>2, <1>5, <1>7
  <2> QED
    BY <2>1 DEF Distance, Steps, n, p
<1> HIDE DEF D, E
<1>11. /\ since'[r] = [k \in SlotsOf(r) |-> IF k = c THEN available[r] \ {c} ELSE since[r][k] \ {c}]
       /\ DOMAIN since' = Routes
  BY <1>1, <1>5
<1>12. RotationInv(r)'
  <2>1. /\ since[r] \in [SlotsOf(r) -> SUBSET SlotsOf(r)]
        /\ \A i \in SlotsOf(r) : \A j \in since[r][i] : j \in available[r] /\ D(j) < D(i)
    BY <1>1, <1>10 DEF RotationInv
  <2>2. since'[r] \in [SlotsOf(r) -> SUBSET SlotsOf(r)]
    BY <1>6, <1>11, <2>1
  <2>3. ASSUME NEW i \in SlotsOf(r), NEW j \in since'[r][i]
        PROVE  j \in available[r] /\ E(j) < E(i)
    <3>1. CASE i = c
      <4>1. j \in available[r] /\ j # c
        BY <1>11, <3>1
      <4>2. j \in SlotsOf(r) /\ E(j) < E(c)
        BY <1>6, <1>8, <4>1
      <4> QED
        BY <3>1, <4>1, <4>2
    <3>2. CASE i # c
      <4>1. j \in since[r][i] /\ j # c
        BY <1>11, <3>2
      <4>2. j \in available[r] /\ j \in SlotsOf(r) /\ D(j) < D(i) /\ D(c) <= D(j)
        BY <1>4, <1>6, <2>1, <4>1
      <4>3. D(i) \in Nat /\ D(j) \in Nat /\ D(c) \in Nat
        BY <1>8, <4>2
      <4>4. D(i) >= D(c) /\ D(j) >= D(c)
        BY <4>2, <4>3
      <4>5. E(j) = D(j) - D(c) - 1 /\ E(i) = D(i) - D(c) - 1
        BY <1>8, <3>2, <4>1, <4>2, <4>4
      <4> QED
        BY <4>2, <4>3, <4>5
    <3> QED
      BY <3>1, <3>2
  <2>4. SlotsOf(r)' = SlotsOf(r)
    BY ConfigStays
  <2> QED
    BY <1>10, <2>2, <2>3, <2>4 DEF RotationInv
<1>13. ASSUME NEW q \in Routes, q # r
       PROVE  RotationInv(q)'
  <2>1. next_upstream'[q] = next_upstream[q] /\ since'[q] = since[q]
    BY <1>1, <1>2, <1>5, <1>13
  <2> QED
    BY <1>1, <2>1, RotationStays
<1>14. next_upstream' \in [Routes -> Nat] /\ \A q \in Routes : next_upstream'[q] \in SlotsOf(q)
  BY <1>2, <1>5, <1>7, <1>9
<1> QED
  BY <1>11, <1>12, <1>13, <1>14

\* The health checks move a slot: nobody waits for its turn any more.
LEMMA HealthRotation ==
    ASSUME DispatchInv, NEW r \in Routes, NEW i \in SlotsOf(r), HealthTransition(r, i)
    PROVE  /\ DOMAIN since' = Routes /\ DOMAIN available' = Routes
           /\ \A q \in Routes : available'[q] \subseteq SlotsOf(q) /\ RotationInv(q)'
<1>1. /\ DOMAIN since = Routes /\ DOMAIN available = Routes
      /\ \A q \in Routes : RotationInv(q) /\ available[q] \subseteq SlotsOf(q)
  BY DEF DispatchInv, DispatchTypeOK
<1>2. /\ available' = [available EXCEPT ![r] = IF i \in available[r] THEN available[r] \ {i}
                                               ELSE available[r] \cup {i}]
      /\ since' = [since EXCEPT ![r] = [k \in SlotsOf(r) |-> since[r][k] \ {i}]]
      /\ config' = config /\ next_upstream' = next_upstream
  BY DEF HealthTransition
<1>3. /\ available'[r] = (IF i \in available[r] THEN available[r] \ {i} ELSE available[r] \cup {i})
      /\ since'[r] = [k \in SlotsOf(r) |-> since[r][k] \ {i}]
      /\ \A q \in Routes : q # r => available'[q] = available[q] /\ since'[q] = since[q]
      /\ DOMAIN since' = Routes /\ DOMAIN available' = Routes
  BY <1>1, <1>2
<1>4. RotationInv(r)'
  <2>1. SlotsOf(r)' = SlotsOf(r)
    BY <1>2, ConfigStays
  <2>2. \A j : Distance(r, j)' = Distance(r, j)
    BY <1>2 DEF Distance
  <2>3. RotationInv(r)
    BY <1>1
  <2>4. since'[r] \in [SlotsOf(r) -> SUBSET SlotsOf(r)]
    BY <1>3, <2>3 DEF RotationInv
  <2>5. ASSUME NEW k \in SlotsOf(r), NEW j \in since'[r][k]
        PROVE  j \in available'[r] /\ Distance(r, j) < Distance(r, k)
    <3>1. j \in since[r][k] /\ j # i
      BY <1>3
    <3>2. j \in available[r] /\ Distance(r, j) < Distance(r, k)
      BY <2>3, <3>1 DEF RotationInv
    <3> QED
      BY <1>3, <3>1, <3>2
  <2> QED
    BY <2>1, <2>2, <2>4, <2>5 DEF RotationInv
<1>5. ASSUME NEW q \in Routes, q # r
      PROVE  RotationInv(q)'
  BY <1>1, <1>2, <1>3, <1>5, RotationStays
<1>6. \A q \in Routes : available'[q] \subseteq SlotsOf(q)
  BY <1>1, <1>3
<1> QED
  BY <1>3, <1>4, <1>5, <1>6

----------------------------------------------------------------------------
(* The invariant is kept.                                                  *)

\* The invariant, part by part.
LEMMA InvNext ==
    ASSUME DispatchInv, config' = config,
           units' \in [Routes -> 0 .. Word - 1], elapsed' \in [Routes -> 0 .. Horizon],
           debt' \in [Routes -> Nat], \A q \in Routes : BucketInv(q)',
           next_upstream' \in [Routes -> Nat], \A q \in Routes : next_upstream'[q] \in SlotsOf(q),
           DOMAIN available' = Routes, \A q \in Routes : available'[q] \subseteq SlotsOf(q),
           DOMAIN since' = Routes, \A q \in Routes : RotationInv(q)',
           active_proxies' \in 0 .. max_proxies
    PROVE  DispatchInv'
<1>1. Routes' = Routes /\ \A q : SlotsOf(q)' = SlotsOf(q)
  BY ConfigStays
<1>2. config' \in Configs
  BY DEF DispatchInv, DispatchTypeOK
<1>4. DispatchTypeOK'
  BY <1>1, <1>2 DEF DispatchTypeOK
<1> QED
  BY <1>1, <1>4 DEF DispatchInv

\* The invariant, part by part, before a step.
LEMMA InvNow ==
    ASSUME DispatchInv
    PROVE  /\ DispatchTypeOK /\ config \in Configs
           /\ units \in [Routes -> 0 .. Word - 1] /\ elapsed \in [Routes -> 0 .. Horizon]
           /\ debt \in [Routes -> Nat]
           /\ \A q \in Routes : BucketInv(q) /\ RotationInv(q)
           /\ next_upstream \in [Routes -> Nat]
           /\ \A q \in Routes : next_upstream[q] \in SlotsOf(q)
           /\ DOMAIN available = Routes /\ \A q \in Routes : available[q] \subseteq SlotsOf(q)
           /\ DOMAIN since = Routes
           /\ active_proxies \in 0 .. max_proxies
BY DEF DispatchInv, DispatchTypeOK

\* The outcomes of try_acquire
Outcome(r) ==
    \/ RefusedByRate(r) \/ RefusedByCapacity(r) \/ NoHealthyUpstream(r)
    \/ Admitted(r, FALSE) \/ Admitted(r, TRUE)

\* Whatever becomes of a request that is to be proxied.
LEMMA OutcomeInv ==
    ASSUME DispatchInv, NEW r, Outcome(r)
    PROVE  DispatchInv' /\ config' = config
<1>1. config' = config /\ available' = available /\ AskBucket(r)
  BY DEF Outcome, RefusedByRate, RefusedByCapacity, NoHealthyUpstream, Admitted
<1>2. /\ DispatchTypeOK /\ \A q \in Routes : BucketInv(q)
      /\ DOMAIN available = Routes /\ \A q \in Routes : available[q] \subseteq SlotsOf(q)
  BY InvNow
<1>3. /\ units' \in [Routes -> 0 .. Word - 1] /\ elapsed' \in [Routes -> 0 .. Horizon]
      /\ debt' \in [Routes -> Nat]
      /\ \A q \in Routes : BucketInv(q)'
  BY <1>1, <1>2, AskBucketInv
<1>4. active_proxies' \in 0 .. max_proxies
  <2>1. active_proxies \in 0 .. max_proxies /\ max_proxies \in Nat
    BY InvNow, AdmissionAssumption
  <2>2. \/ active_proxies' = active_proxies
        \/ /\ active_proxies < max_proxies
           /\ active_proxies' \in {Acquired(active_proxies), Released(Acquired(active_proxies))}
    BY DEF Outcome, RefusedByRate, RefusedByCapacity, NoHealthyUpstream, Admitted
  <2> QED
    BY <2>1, <2>2 DEF Acquired, Released
<1>5. /\ next_upstream' \in [Routes -> Nat] /\ DOMAIN since' = Routes
      /\ \A q \in Routes : next_upstream'[q] \in SlotsOf(q) /\ RotationInv(q)'
  <2>1. CASE next_upstream' = next_upstream /\ since' = since
    <3>1. /\ next_upstream \in [Routes -> Nat] /\ DOMAIN since = Routes
          /\ \A q \in Routes : next_upstream[q] \in SlotsOf(q) /\ RotationInv(q)
      BY InvNow
    <3>2. \A q \in Routes : RotationInv(q)'
      BY <1>1, <2>1, <3>1, RotationStays
    <3> QED
      BY <2>1, <3>1, <3>2
  <2>2. CASE /\ r \in Routes /\ available[r] # {}
             /\ Advance(r, Chosen(r)) /\ Waits(r, Chosen(r))
    BY <1>1, <2>2, ChosenRotation
  <2>3. \/ next_upstream' = next_upstream /\ since' = since
        \/ /\ r \in Routes /\ available[r] # {}
           /\ Advance(r, Chosen(r)) /\ Waits(r, Chosen(r))
    BY DEF Outcome, RefusedByRate, RefusedByCapacity, NoHealthyUpstream, Admitted, rotationVars
  <2> QED
    BY <2>1, <2>2, <2>3
<1> QED
  BY <1>1, <1>2, <1>3, <1>4, <1>5, InvNext

\* A step that leaves the admission alone.
LEMMA AdmissionStays ==
    ASSUME DispatchInv, UNCHANGED admissionVars
    PROVE  DispatchInv' /\ config' = config
<1>1. /\ config' = config /\ units' = units /\ elapsed' = elapsed /\ debt' = debt
      /\ next_upstream' = next_upstream /\ since' = since /\ available' = available
      /\ active_proxies' = active_proxies
  BY DEF admissionVars, bucketVars, rotationVars
<1>2. Routes' = Routes
  BY <1>1, ConfigStays
<1>3. \A q \in Routes : BucketInv(q)' /\ RotationInv(q)'
  <2>1. \A q \in Routes : BucketInv(q) /\ RotationInv(q)
    BY InvNow
  <2>2. ASSUME NEW q \in Routes
        PROVE  BucketInv(q)'
    BY <1>1, <2>1, BucketNext DEF BucketInv, Owes
  <2>3. ASSUME NEW q \in Routes
        PROVE  RotationInv(q)'
    BY <1>1, <2>1, RotationStays
  <2> QED
    BY <2>2, <2>3
<1>4. DispatchInv'
  <2>1. /\ units' \in [Routes -> 0 .. Word - 1] /\ elapsed' \in [Routes -> 0 .. Horizon]
        /\ debt' \in [Routes -> Nat]
        /\ next_upstream' \in [Routes -> Nat] /\ \A q \in Routes : next_upstream'[q] \in SlotsOf(q)
        /\ DOMAIN available' = Routes /\ \A q \in Routes : available'[q] \subseteq SlotsOf(q)
        /\ DOMAIN since' = Routes
        /\ active_proxies' \in 0 .. max_proxies
    BY <1>1, InvNow
  <2> QED
    BY <1>1, <1>3, <2>1, InvNext
<1> QED
  BY <1>1, <1>4

\* What goes on beside the requests.
LEMMA BesideInv ==
    ASSUME DispatchInv,
           \/ ExchangeEnds \/ Clock
           \/ \E r \in Routes : \E i \in SlotsOf(r) : HealthTransition(r, i)
    PROVE  DispatchInv'
<1>1. CASE ExchangeEnds
  <2>1. /\ config' = config /\ units' = units /\ elapsed' = elapsed /\ debt' = debt
        /\ next_upstream' = next_upstream /\ since' = since /\ available' = available
        /\ active_proxies > 0 /\ active_proxies' = Released(active_proxies)
    BY <1>1 DEF ExchangeEnds, bucketVars, rotationVars
  <2>2. active_proxies' \in 0 .. max_proxies
    <3>1. active_proxies \in 0 .. max_proxies /\ max_proxies \in Nat
      BY InvNow, AdmissionAssumption
    <3> QED
      BY <2>1, <3>1 DEF Released
  <2>3. \A q \in Routes : BucketInv(q)' /\ RotationInv(q)'
    <3>1. \A q \in Routes : BucketInv(q) /\ RotationInv(q)
      BY InvNow
    <3>2. ASSUME NEW q \in Routes
          PROVE  BucketInv(q)'
      BY <2>1, <3>1, BucketNext DEF BucketInv, Owes
    <3>3. ASSUME NEW q \in Routes
          PROVE  RotationInv(q)'
      BY <2>1, <3>1, RotationStays
    <3> QED
      BY <3>2, <3>3
  <2>4. /\ units' \in [Routes -> 0 .. Word - 1] /\ elapsed' \in [Routes -> 0 .. Horizon]
        /\ debt' \in [Routes -> Nat]
        /\ next_upstream' \in [Routes -> Nat] /\ \A q \in Routes : next_upstream'[q] \in SlotsOf(q)
        /\ DOMAIN available' = Routes /\ \A q \in Routes : available'[q] \subseteq SlotsOf(q)
        /\ DOMAIN since' = Routes
    BY <2>1, InvNow
  <2> QED
    BY <2>1, <2>2, <2>3, <2>4, InvNext
<1>2. CASE Clock
  <2>1. /\ config' = config /\ next_upstream' = next_upstream /\ since' = since
        /\ available' = available /\ active_proxies' = active_proxies
    BY <1>2 DEF Clock, rotationVars
  <2>2. /\ units' \in [Routes -> 0 .. Word - 1] /\ elapsed' \in [Routes -> 0 .. Horizon]
        /\ debt' \in [Routes -> Nat]
        /\ \A q \in Routes : BucketInv(q)'
    <3>1. DispatchTypeOK /\ \A q \in Routes : BucketInv(q)
      BY InvNow
    <3> QED
      BY <1>2, <3>1, ClockBuckets
  <2>3. \A q \in Routes : RotationInv(q)'
    <3>1. \A q \in Routes : RotationInv(q)
      BY InvNow
    <3> QED
      BY <2>1, <3>1, RotationStays
  <2>4. /\ next_upstream' \in [Routes -> Nat] /\ \A q \in Routes : next_upstream'[q] \in SlotsOf(q)
        /\ DOMAIN available' = Routes /\ \A q \in Routes : available'[q] \subseteq SlotsOf(q)
        /\ DOMAIN since' = Routes
        /\ active_proxies' \in 0 .. max_proxies
    BY <2>1, InvNow
  <2> QED
    BY <2>1, <2>2, <2>3, <2>4, InvNext
<1>3. ASSUME NEW r \in Routes, NEW i \in SlotsOf(r), HealthTransition(r, i)
      PROVE  DispatchInv'
  <2>1. /\ config' = config /\ units' = units /\ elapsed' = elapsed /\ debt' = debt
        /\ next_upstream' = next_upstream /\ active_proxies' = active_proxies
    BY <1>3 DEF HealthTransition, bucketVars
  <2>2. /\ DOMAIN since' = Routes /\ DOMAIN available' = Routes
        /\ \A q \in Routes : available'[q] \subseteq SlotsOf(q) /\ RotationInv(q)'
    BY <1>3, HealthRotation
  <2>3. \A q \in Routes : BucketInv(q)'
    <3>1. \A q \in Routes : BucketInv(q)
      BY InvNow
    <3> QED
      BY <2>1, <3>1, BucketNext DEF BucketInv, Owes
  <2>4. /\ units' \in [Routes -> 0 .. Word - 1] /\ elapsed' \in [Routes -> 0 .. Horizon]
        /\ debt' \in [Routes -> Nat]
        /\ next_upstream' \in [Routes -> Nat] /\ \A q \in Routes : next_upstream'[q] \in SlotsOf(q)
        /\ active_proxies' \in 0 .. max_proxies
    BY <2>1, InvNow
  <2> QED
    BY <2>1, <2>2, <2>3, <2>4, InvNext
<1> QED
  BY <1>1, <1>2, <1>3

\* A step is a request that no proxy is asked for, one that is to be proxied,
\* or none at all.
LEMMA StepIs ==
    ASSUME DispatchNext
    PROVE  \/ \E q : LocalRequest(q)
           \/ \E q : UnauthorizedRequest(q)
           \/ \E q : ProxyRequest(q)
           \/ /\ decision' = {}
              /\ \/ ExchangeEnds \/ Clock
                 \/ \E r \in Routes : \E i \in SlotsOf(r) : HealthTransition(r, i)
BY DEF DispatchNext, Forget

\* A request that is to be proxied has one of the outcomes, and the decision
\* that is recorded is about it.
LEMMA ProxyIs ==
    ASSUME NEW q, ProxyRequest(q)
    PROVE  \E r, a, slot, retry :
              /\ Outcome(r)
              /\ decision' = {[request |-> q, route |-> r, answer |-> a, slot |-> slot,
                               retry |-> retry]}
              /\ \/ a = "rate_limited" /\ RefusedByRate(r) /\ retry = RetryAfter(r)
                 \/ a = "gateway_overloaded" /\ RefusedByCapacity(r)
                 \/ a = "no_healthy_upstream" /\ NoHealthyUpstream(r)
                 \/ a = "bad_gateway" /\ Admitted(r, FALSE)
                 \/ a = "proxied" /\ Admitted(r, TRUE) /\ (r \in Routes => slot = Chosen(r))
<1> DEFINE r == SelectHttpRoute(config, q)
           s == IF r \in Routes THEN Chosen(r) ELSE 0
<1>1. \/ RefusedByRate(r) /\ decision' = {[request |-> q, route |-> r, answer |-> "rate_limited",
                                           slot |-> 0, retry |-> RetryAfter(r)]}
      \/ RefusedByCapacity(r) /\ Decide(q, r, "gateway_overloaded")
      \/ NoHealthyUpstream(r) /\ Decide(q, r, "no_healthy_upstream")
      \/ Admitted(r, FALSE) /\ Decide(q, r, "bad_gateway")
      \/ Admitted(r, TRUE) /\ decision' = {[request |-> q, route |-> r, answer |-> "proxied",
                                            slot |-> s, retry |-> 0]}
  BY DEF ProxyRequest
<1>2. r \in Routes => s = Chosen(r)
  OBVIOUS
<1> HIDE DEF r, s
<1>3. CASE RefusedByRate(r) /\ decision' = {[request |-> q, route |-> r, answer |-> "rate_limited",
                                           slot |-> 0, retry |-> RetryAfter(r)]}
  <2>1. Outcome(r)
    BY <1>3 DEF Outcome
  <2> QED
    BY <1>3, <2>1
<1>4. CASE RefusedByCapacity(r) /\ Decide(q, r, "gateway_overloaded")
  <2>1. Outcome(r)
    BY <1>4 DEF Outcome
  <2> QED
    BY <1>4, <2>1 DEF Decide
<1>5. CASE NoHealthyUpstream(r) /\ Decide(q, r, "no_healthy_upstream")
  <2>1. Outcome(r)
    BY <1>5 DEF Outcome
  <2> QED
    BY <1>5, <2>1 DEF Decide
<1>6. CASE Admitted(r, FALSE) /\ Decide(q, r, "bad_gateway")
  <2>1. Outcome(r)
    BY <1>6 DEF Outcome
  <2> QED
    BY <1>6, <2>1 DEF Decide
<1>7. CASE Admitted(r, TRUE) /\ decision' = {[request |-> q, route |-> r, answer |-> "proxied",
                                            slot |-> s, retry |-> 0]}
  <2>1. Outcome(r)
    BY <1>7 DEF Outcome
  <2> QED
    BY <1>2, <1>7, <2>1
<1> QED
  BY <1>1, <1>3, <1>4, <1>5, <1>6, <1>7

\* The local answers are none of the gateway's.
LEMMA LocalAnswers ==
    ASSUME NEW c, NEW q
    PROVE  HandleHttpRequest(c, q) \in {"method_not_allowed", "bad_request", "ok", "not_found"}
BY DEF HandleHttpRequest

\* Neither the single upstream nor no route at all is a position in the vector.
LEMMA NotARoute ==
    ASSUME config \in Configs
    PROVE  NoRoute \notin Routes /\ LegacyRoute \notin Routes
<1>1. Routes = 1 .. Len(config.routes)
  BY RoutesAssumption DEF Routes
<1> QED
  BY <1>1 DEF NoRoute, LegacyRoute

\* A process starts with full buckets, all upstreams available and no permit out.
LEMMA DispatchStarts ==
    ASSUME DispatchInit
    PROVE  DispatchInv
<1>1. /\ config \in Configs /\ decision = {}
      /\ units = [r \in Routes |-> Capacity(r)] /\ elapsed = [r \in Routes |-> 0]
      /\ next_upstream = [r \in Routes |-> 0] /\ available = [r \in Routes |-> SlotsOf(r)]
      /\ active_proxies = 0 /\ debt = [r \in Routes |-> 0]
      /\ since = [r \in Routes |-> [i \in SlotsOf(r) |-> {}]]
  BY DEF DispatchInit, AdmissionInit, Capacity
<1>2. ASSUME NEW r \in Routes
      PROVE  /\ units[r] \in 0 .. Word - 1 /\ 0 \in 0 .. Horizon /\ 0 \in SlotsOf(r)
             /\ BucketInv(r) /\ RotationInv(r)
  <2>1. /\ config.routes[r].upstreams \in Nat \ {0} /\ Rate(r) \in Nat
        /\ Word \in Nat /\ Horizon \in Nat /\ Capacity(r) \in Nat /\ Capacity(r) < Word
    BY <1>1, RouteIs
  <2>2. units[r] = Capacity(r) /\ elapsed[r] = 0 /\ debt[r] = 0
    BY <1>1
  <2>3. BucketInv(r)
    <3>1. Capacity(r) + 0 * Rate(r) >= Capacity(r) /\ Capacity(r) <= Capacity(r)
      BY <2>1
    <3> QED
      BY <2>2, <3>1 DEF BucketInv, Owes
  <2>4. RotationInv(r)
    BY <1>1 DEF RotationInv
  <2> QED
    BY <2>1, <2>2, <2>3, <2>4 DEF SlotsOf
<1>3. max_proxies \in Nat
  BY AdmissionAssumption
<1>4. DispatchTypeOK
  BY <1>1, <1>2, <1>3 DEF DispatchTypeOK
<1> QED
  BY <1>1, <1>2, <1>4 DEF DispatchInv

\* Every step keeps the invariant.
LEMMA DispatchSteps ==
    ASSUME DispatchInv, [DispatchNext]_dispatchVars
    PROVE  DispatchInv'
<1>1. CASE UNCHANGED dispatchVars
  BY <1>1, AdmissionStays DEF dispatchVars
<1>2. ASSUME NEW q, LocalRequest(q)
      PROVE  DispatchInv'
  BY <1>2, AdmissionStays DEF LocalRequest
<1>3. ASSUME NEW q, UnauthorizedRequest(q)
      PROVE  DispatchInv'
  BY <1>3, AdmissionStays DEF UnauthorizedRequest
<1>4. ASSUME NEW q, ProxyRequest(q)
      PROVE  DispatchInv'
  <2>1. \E r : Outcome(r)
    BY <1>4, ProxyIs
  <2> QED
    BY <2>1, OutcomeInv
<1>5. CASE \/ ExchangeEnds \/ Clock
           \/ \E r \in Routes : \E i \in SlotsOf(r) : HealthTransition(r, i)
  BY <1>5, BesideInv
<1> QED
  BY <1>1, <1>2, <1>3, <1>4, <1>5, StepIs

----------------------------------------------------------------------------
(* The route of a request.                                                 *)

\* The turns of the loop can be followed one by one.
Turns(c, path, n, f) ==
    f = [k \in 0 .. n |-> IF k = 0 THEN NoRoute ELSE Longer(c, path, f[k - 1], k)]

\* However many routes there are, the loop has come to something after each.
LEMMA TurnsExist ==
    ASSUME NEW c, NEW path, NEW n \in Nat
    PROVE  \E f : Turns(c, path, n, f)
<1> DEFINE bad == {m \in Nat : ~ \E f : Turns(c, path, m, f)}
<1>1. SUFFICES ASSUME bad # {}
               PROVE  FALSE
  OBVIOUS
<1>2. PICK m \in bad : \A k \in bad : m <= k
  <2>1. bad \in SUBSET Nat
    OBVIOUS
  <2> HIDE DEF bad
  <2> QED
    BY <1>1, <2>1, LeastExists
<1>3. m # 0
  <2> DEFINE z == [k \in 0 .. 0 |-> NoRoute]
  <2>1. z = [k \in 0 .. 0 |-> IF k = 0 THEN NoRoute ELSE Longer(c, path, z[k - 1], k)]
    OBVIOUS
  <2> HIDE DEF z
  <2>2. Turns(c, path, 0, z)
    BY <2>1 DEF Turns
  <2> QED
    BY <2>2
<1>4. m \in Nat /\ m - 1 \in Nat /\ m - 1 \notin bad
  BY <1>2, <1>3
<1>5. PICK f : Turns(c, path, m - 1, f)
  BY <1>4
<1>6. f = [k \in 0 .. m - 1 |-> IF k = 0 THEN NoRoute ELSE Longer(c, path, f[k - 1], k)]
  BY <1>5 DEF Turns
<1> DEFINE g == [k \in 0 .. m |-> IF k < m THEN f[k] ELSE Longer(c, path, f[m - 1], m)]
<1>7. ASSUME NEW k \in 0 .. m
      PROVE  g[k] = IF k = 0 THEN NoRoute ELSE Longer(c, path, g[k - 1], k)
  <2>1. CASE k = 0
    BY <1>3, <1>4, <1>6, <2>1
  <2>2. CASE k # 0 /\ k < m
    <3>1. k \in 0 .. m - 1 /\ k - 1 \in 0 .. m - 1 /\ k - 1 \in 0 .. m /\ k - 1 < m
      BY <1>4, <2>2
    <3>2. g[k] = f[k] /\ g[k - 1] = f[k - 1]
      BY <2>2, <3>1
    <3>3. f[k] = Longer(c, path, f[k - 1], k)
      BY <1>6, <2>2, <3>1
    <3> QED
      BY <2>2, <3>2, <3>3
  <2>3. CASE k = m
    <3>1. m - 1 \in 0 .. m /\ m - 1 < m /\ ~ (m < m) /\ m \in 0 .. m
      BY <1>4
    <3>2. g[m] = Longer(c, path, f[m - 1], m) /\ g[m - 1] = f[m - 1]
      BY <3>1
    <3> QED
      BY <1>3, <2>3, <3>2
  <2> QED
    BY <1>4, <2>1, <2>2, <2>3
<1>8. g = [k \in 0 .. m |-> g[k]]
  OBVIOUS
<1> HIDE DEF g
<1>9. g = [k \in 0 .. m |-> IF k = 0 THEN NoRoute ELSE Longer(c, path, g[k - 1], k)]
  BY <1>7, <1>8
<1>10. Turns(c, path, m, g)
  BY <1>9 DEF Turns
<1> QED
  BY <1>2, <1>10

\* The loop ends with what its last turn gives.
LEMMA LongestIs ==
    ASSUME NEW c, NEW path, Len(c.routes) \in Nat
    PROVE  \E f : Turns(c, path, Len(c.routes), f) /\ LongestMatch(c, path) = f[Len(c.routes)]
<1> DEFINE n == Len(c.routes)
           h == CHOOSE f : Turns(c, path, n, f)
<1>1. Turns(c, path, n, h)
  BY TurnsExist
<1>2. LongestMatch(c, path) = h[n]
  BY Zenon DEF LongestMatch, Turns
<1> QED
  BY <1>1, <1>2

\* What the loop has found among the first k routes.
FoundBy(c, path, k, l) ==
    \/ l = NoRoute /\ \A r \in 1 .. k : ~PrefixMatches(c.routes[r].prefix, path)
    \/ /\ l \in 1 .. k /\ PrefixMatches(c.routes[l].prefix, path)
       /\ \A r \in 1 .. k : PrefixMatches(c.routes[r].prefix, path) =>
                               Len(c.routes[r].prefix) <= Len(c.routes[l].prefix)

\* The loop finds the longest prefix that matches, if any does.
LEMMA LongestMatchIs ==
    ASSUME NEW c \in Configs, NEW path
    PROVE  FoundBy(c, path, Len(c.routes), LongestMatch(c, path))
<1> DEFINE n == Len(c.routes)
           L(r) == Len(c.routes[r].prefix)
           M(r) == PrefixMatches(c.routes[r].prefix, path)
<1>1. n \in Nat /\ DOMAIN c.routes = 1 .. n
  BY RoutesAssumption
<1>2. PICK f : Turns(c, path, n, f) /\ LongestMatch(c, path) = f[n]
  BY <1>1, LongestIs
<1>3. \A r \in 1 .. n : L(r) \in Nat \ {0}
  <2>1. \A r \in 1 .. n : c.routes[r].prefix \in Seq(STRING) \ {<<>>}
    BY <1>1, PrefixAssumption
  <2>2. \A p \in Seq(STRING) \ {<<>>} : Len(p) \in Nat \ {0}
    OBVIOUS
  <2> QED
    BY <2>1, <2>2
<1> HIDE DEF n
<1>4. f[0] = NoRoute /\ \A k \in 1 .. n : f[k] = Longer(c, path, f[k - 1], k)
  <2>1. f = [k \in 0 .. n |-> IF k = 0 THEN NoRoute ELSE Longer(c, path, f[k - 1], k)]
    BY <1>2 DEF Turns
  <2> QED
    BY <1>1, <2>1
<1> DEFINE bad == {k \in 0 .. n : ~FoundBy(c, path, k, f[k])}
<1>5. ASSUME bad # {}
      PROVE  FALSE
  <2>1. PICK m \in bad : \A k \in bad : m <= k
    <3>1. bad \in SUBSET Nat
      BY <1>1
    <3> HIDE DEF bad
    <3> QED
      BY <1>5, <3>1, LeastExists
  <2>2. m \in 0 .. n /\ ~FoundBy(c, path, m, f[m])
    BY <2>1
  <2>3. m # 0
    BY <1>4, <2>2 DEF FoundBy
  <2>4. m \in 1 .. n /\ m - 1 \in 0 .. n /\ m - 1 < m
    BY <1>1, <2>2, <2>3
  <2>5. m - 1 \notin bad
    BY <1>1, <2>1, <2>4
  <2> DEFINE l == f[m - 1]
  <2>6. FoundBy(c, path, m - 1, l)
    BY <2>4, <2>5
  <2>7. f[m] = IF L(m) > (IF l = NoRoute THEN 0 ELSE L(l)) /\ M(m) THEN m ELSE l
    BY <1>4, <2>4 DEF Longer
  <2> HIDE DEF l
  <2>8. \/ l = NoRoute /\ \A r \in 1 .. m - 1 : ~M(r)
        \/ l \in 1 .. m - 1 /\ M(l) /\ \A r \in 1 .. m - 1 : M(r) => L(r) <= L(l)
    BY <2>6 DEF FoundBy
  <2>9. ~ \/ f[m] = NoRoute /\ \A r \in 1 .. m : ~M(r)
          \/ f[m] \in 1 .. m /\ M(f[m]) /\ \A r \in 1 .. m : M(r) => L(r) <= L(f[m])
    BY <2>2 DEF FoundBy
  <2>10. (\A r \in 1 .. m : r \in 1 .. m - 1 \/ r = m) /\ m \in 1 .. m /\ 1 .. m - 1 \subseteq 1 .. m
         /\ 1 .. m \subseteq 1 .. n
    BY <1>1, <2>4
  <2>11. L(m) \in Nat \ {0} /\ \A r \in 1 .. m - 1 : L(r) \in Nat \ {0}
    BY <1>3, <2>10
  <2>12. CASE l = NoRoute /\ \A r \in 1 .. m - 1 : ~M(r)
    <3>1. f[m] = IF M(m) THEN m ELSE NoRoute
      BY <2>7, <2>11, <2>12
    <3> HIDE DEF L, M
    <3>2. CASE M(m)
      BY <2>9, <2>10, <2>11, <2>12, <3>1, <3>2
    <3>3. CASE ~M(m)
      BY <2>9, <2>10, <2>12, <3>1, <3>3
    <3> QED
      BY <3>2, <3>3
  <2>13. CASE l \in 1 .. m - 1 /\ M(l) /\ \A r \in 1 .. m - 1 : M(r) => L(r) <= L(l)
    <3>1. l # NoRoute
      BY <2>13 DEF NoRoute
    <3>2. f[m] = IF L(m) > L(l) /\ M(m) THEN m ELSE l
      BY <2>7, <3>1
    <3>3. L(l) \in Nat
      BY <2>11, <2>13
    <3> HIDE DEF L, M
    <3>4. CASE L(m) > L(l) /\ M(m)
      <4>1. \A r \in 1 .. m : M(r) => L(r) <= L(m)
        <5>1. \A r \in 1 .. m - 1 : M(r) => L(r) <= L(m)
          BY <2>11, <2>13, <3>3, <3>4
        <5>2. L(m) <= L(m)
          BY <2>11
        <5> QED
          BY <2>10, <5>1, <5>2
      <4> QED
        BY <2>9, <2>10, <3>2, <3>4, <4>1
    <3>5. CASE ~ (L(m) > L(l) /\ M(m))
      <4>1. M(m) => L(m) <= L(l)
        BY <2>11, <3>3, <3>5
      <4>2. \A r \in 1 .. m : M(r) => L(r) <= L(l)
        BY <2>10, <2>13, <4>1
      <4> QED
        BY <2>9, <2>10, <2>13, <3>2, <3>5, <4>2
    <3> QED
      BY <3>4, <3>5
  <2> QED
    BY <2>8, <2>12, <2>13
<1>6. FoundBy(c, path, n, f[n])
  BY <1>1, <1>5
<1> QED
  BY <1>2, <1>6 DEF n

\* The path is the target up to its first "?".
LEMMA PathIs ==
    ASSUME NEW target \in Seq(STRING), NEW path, path = RequestPath(target)
    PROVE  /\ path \in Seq(STRING) /\ Len(path) <= Len(target)
           /\ \A k \in 1 .. Len(path) : path[k] = target[k] /\ path[k] # "?"
           /\ Len(path) < Len(target) => target[Len(path) + 1] = "?"
<1> DEFINE queries == {k \in DOMAIN target : target[k] = "?"}
           first == CHOOSE k \in queries : \A j \in queries : k <= j
<1>1. Len(target) \in Nat /\ DOMAIN target = 1 .. Len(target)
  OBVIOUS
<1>2. path = IF queries = {} THEN target ELSE SubSeq(target, 1, first - 1)
  BY DEF RequestPath
<1>3. CASE queries = {}
  BY <1>1, <1>2, <1>3
<1>4. CASE queries # {}
  <2>1. \E k \in queries : \A j \in queries : k <= j
    <3>1. queries \in SUBSET Nat
      BY <1>1
    <3> HIDE DEF queries
    <3> QED
      BY <1>4, <3>1, LeastExists
  <2>2. first \in queries /\ \A j \in queries : first <= j
    <3> HIDE DEF queries
    <3> QED
      BY <2>1
  <2>3. path = SubSeq(target, 1, first - 1)
    BY <1>2, <1>4
  <2>4. first \in 1 .. Len(target) /\ target[first] = "?"
    BY <1>1, <2>2
  <2>5. ASSUME NEW k \in 1 .. first - 1
        PROVE  target[k] # "?"
    <3>1. k \in 1 .. Len(target) /\ k < first
      BY <1>1, <2>4
    <3>2. k \notin queries
      <4> HIDE DEF queries, first
      <4> QED
        BY <1>1, <2>2, <2>4, <3>1
    <3> QED
      BY <1>1, <3>1, <3>2
  <2> HIDE DEF queries, first
  <2>6. path \in Seq(STRING) /\ Len(path) = first - 1 /\ \A k \in 1 .. first - 1 : path[k] = target[k]
    BY <1>1, <2>3, <2>4
  <2>7. Len(path) <= Len(target) /\ Len(path) + 1 = first
    BY <1>1, <2>4, <2>6
  <2> QED
    BY <2>4, <2>5, <2>6, <2>7
<1> QED
  BY <1>3, <1>4

\* To match is to be one of the paths above.
LEMMA MatchIs ==
    ASSUME NEW prefix \in Seq(STRING) \ {<<>>}, NEW path \in Seq(STRING) \ {<<>>}, path[1] = "/"
    PROVE  PrefixMatches(prefix, path) <=> prefix \in Ancestors(path)
<1> DEFINE n == Len(prefix)
           m == Len(path)
<1>1. n \in Nat \ {0} /\ m \in Nat \ {0}
  OBVIOUS
<1>2. SubSeq(prefix, 1, n) = prefix
  OBVIOUS
<1>3. IsPrefix(prefix, path) <=> n <= m /\ prefix = SubSeq(path, 1, n)
  BY <1>2 DEF IsPrefix
<1>4. <<"/">> \in Seq(STRING) /\ Len(<<"/">>) = 1 /\ SubSeq(path, 1, 1) = <<"/">>
  <2>1. <<"/">> \in Seq(STRING) /\ Len(<<"/">>) = 1 /\ <<"/">>[1] = "/"
    OBVIOUS
  <2>2. SubSeq(path, 1, 1) \in Seq(STRING) /\ Len(SubSeq(path, 1, 1)) = 1 /\ SubSeq(path, 1, 1)[1] = path[1]
    BY <1>1
  <2>3. \A i \in 1 .. Len(SubSeq(path, 1, 1)) : SubSeq(path, 1, 1)[i] = <<"/">>[i]
    BY <2>1, <2>2
  <2> QED
    BY <2>1, <2>2, <2>3, SeqEqual
<1>5. \A k \in 1 .. m : Len(SubSeq(path, 1, k)) = k
  OBVIOUS
<1>6. prefix \in Ancestors(path) <=>
        \/ prefix = <<"/">>
        \/ \E k \in 1 .. m : (k = m \/ path[k + 1] = "/") /\ prefix = SubSeq(path, 1, k)
  BY DEF Ancestors
<1>7. PrefixMatches(prefix, path) <=>
        /\ n <= m /\ prefix = SubSeq(path, 1, n)
        /\ prefix = <<"/">> \/ m = n \/ path[n + 1] = "/"
  BY <1>3 DEF PrefixMatches
<1>8. CASE prefix = <<"/">>
  <2>1. n = 1 /\ prefix = SubSeq(path, 1, n)
    BY <1>4, <1>8
  <2> QED
    BY <1>1, <1>6, <1>7, <1>8, <2>1
<1>9. CASE prefix # <<"/">>
  <2>1. ASSUME PrefixMatches(prefix, path)
        PROVE  prefix \in Ancestors(path)
    <3>1. n \in 1 .. m /\ (n = m \/ path[n + 1] = "/") /\ prefix = SubSeq(path, 1, n)
      BY <1>1, <1>7, <1>9, <2>1
    <3> QED
      BY <1>6, <3>1
  <2>2. ASSUME prefix \in Ancestors(path)
        PROVE  PrefixMatches(prefix, path)
    <3>1. PICK k \in 1 .. m : (k = m \/ path[k + 1] = "/") /\ prefix = SubSeq(path, 1, k)
      BY <1>6, <1>9, <2>2
    <3>2. n = k
      BY <1>5, <3>1
    <3> QED
      BY <1>1, <1>7, <3>1, <3>2
  <2> QED
    BY <2>1, <2>2
<1> QED
  BY <1>8, <1>9

\* Two prefixes of one path that are as long as each other are the same.
LEMMA SamePrefix ==
    ASSUME NEW p \in Seq(STRING), NEW s \in Seq(STRING), NEW path \in Seq(STRING),
           IsPrefix(p, path), IsPrefix(s, path), Len(p) = Len(s)
    PROVE  p = s
<1>1. SubSeq(p, 1, Len(p)) = p /\ SubSeq(s, 1, Len(s)) = s
  OBVIOUS
<1> QED
  BY <1>1 DEF IsPrefix

\* What is taken off a target that matches can be put back.
LEMMA RejoinsIs ==
    ASSUME NEW route, route.prefix \in Seq(STRING) \ {<<>>}, NEW target \in Seq(STRING),
           target # <<>>, target[1] = "/", PrefixMatches(route.prefix, RequestPath(target))
    PROVE  Rejoins(route, target)
<1> DEFINE p == route.prefix
           n == Len(p)
           m == Len(target)
           path == RequestPath(target)
           rest == SubSeq(target, n + 1, m)
           sent == UpstreamTarget(route, target)
<1>1. /\ path \in Seq(STRING) /\ Len(path) <= m
      /\ \A k \in 1 .. Len(path) : path[k] = target[k] /\ path[k] # "?"
      /\ Len(path) < m => target[Len(path) + 1] = "?"
  BY PathIs
<1>2. Rejoins(route, target) <=>
        /\ Head(sent) = "/"
        /\ sent # target => p \o sent = target \/ (p = path /\ p \o Tail(sent) = target)
  BY DEF Rejoins
<1>3. p \in Seq(STRING) /\ n \in Nat \ {0} /\ m \in Nat
  OBVIOUS
<1>4. /\ n <= Len(path) /\ SubSeq(p, 1, n) = SubSeq(path, 1, n)
      /\ p = <<"/">> \/ Len(path) = n \/ path[n + 1] = "/"
  BY DEF PrefixMatches, IsPrefix
<1>5. sent = IF route.strip_prefix /\ p # <<"/">>
             THEN IF rest = <<>> \/ Head(rest) = "?" THEN <<"/">> \o rest ELSE rest
             ELSE target
  BY DEF UpstreamTarget, StrippedTarget
<1>6. CASE ~(route.strip_prefix /\ p # <<"/">>)
  <2>1. sent = target
    BY <1>5, <1>6
  <2>2. Head(target) = "/"
    OBVIOUS
  <2> QED
    BY <1>2, <2>1, <2>2
<1>7. CASE route.strip_prefix /\ p # <<"/">>
  <2>1. \A k \in 1 .. n : p[k] = target[k]
    <3>1. \A k \in 1 .. n : SubSeq(p, 1, n)[k] = p[k] /\ SubSeq(path, 1, n)[k] = path[k]
      BY <1>1, <1>3, <1>4
    <3>2. \A k \in 1 .. n : k \in 1 .. Len(path)
      BY <1>1, <1>3, <1>4
    <3> QED
      BY <1>1, <1>4, <3>1, <3>2
  <2> HIDE DEF p, path
  <2>2. n <= m /\ Len(path) \in Nat
    BY <1>1, <1>3, <1>4
  <2> HIDE DEF n
  <2>3. /\ rest \in Seq(STRING) /\ Len(rest) = m - n
        /\ \A k \in 1 .. m - n : rest[k] = target[n + k]
    BY <1>3, <2>2
  <2> HIDE DEF rest
  <2>4. p \o rest = target
    <3>1. p \o rest \in Seq(STRING) /\ Len(p \o rest) = m
      BY <1>3, <2>2, <2>3 DEF n
    <3>2. \A k \in 1 .. m : (p \o rest)[k] = target[k]
      <4> SUFFICES ASSUME NEW k \in 1 .. m
                   PROVE  (p \o rest)[k] = target[k]
        OBVIOUS
      <4>1. CASE k <= n
        BY <1>3, <2>1, <2>2, <2>3, <4>1 DEF n
      <4>2. CASE ~(k <= n)
        <5>1. k - n \in 1 .. m - n /\ n + (k - n) = k
          BY <1>3, <2>2, <4>2
        <5>2. (p \o rest)[k] = rest[k - n]
          BY <1>3, <2>2, <2>3, <4>2 DEF n
        <5> QED
          BY <2>3, <5>1, <5>2
      <4> QED
        BY <4>1, <4>2
    <3>3. Len(p \o rest) = Len(target) /\ \A k \in 1 .. Len(p \o rest) : (p \o rest)[k] = target[k]
      BY <3>1, <3>2
    <3> QED
      BY <3>1, <3>3, SeqEqual
  <2>5. CASE rest = <<>> \/ Head(rest) = "?"
    <3>1. Len(path) = n
      <4>1. CASE m = n
        BY <1>1, <1>4, <2>2, <4>1
      <4>2. CASE m # n
        <5>1. rest # <<>> /\ Head(rest) = rest[1] /\ rest[1] = target[n + 1]
          BY <1>3, <2>2, <2>3, <4>2
        <5>2. target[n + 1] = "?"
          BY <2>5, <5>1
        <5>3. ~ (n + 1 \in 1 .. Len(path))
          BY <1>1, <5>2
        <5> QED
          BY <1>3, <1>4, <2>2, <5>3
      <4> QED
        BY <4>1, <4>2
    <3>2. p = path
      <4>1. SubSeq(p, 1, n) = p /\ SubSeq(path, 1, n) = path
        BY <1>1, <1>3, <3>1 DEF n
      <4> QED
        BY <1>4, <4>1
    <3>3. sent = <<"/">> \o rest
      BY <1>5, <1>7, <2>5
    <3> HIDE DEF sent
    <3>4. Head(sent) = "/" /\ Tail(sent) = rest
      BY <2>3, <3>3
    <3> QED
      BY <1>2, <2>4, <3>2, <3>4
  <2>6. CASE ~ (rest = <<>> \/ Head(rest) = "?")
    <3>1. sent = rest
      BY <1>5, <1>7, <2>6
    <3>2. m # n
      BY <1>3, <2>3, <2>6
    <3>3. Head(rest) = rest[1] /\ rest[1] = target[n + 1]
      BY <1>3, <2>2, <2>3, <3>2
    <3>4. target[n + 1] # "?"
      BY <2>6, <3>3
    <3>5. Len(path) # n
      BY <1>1, <1>3, <2>2, <3>2, <3>4
    <3>6. path[n + 1] = "/" /\ path[n + 1] = target[n + 1]
      <4>1. n + 1 \in 1 .. Len(path)
        BY <1>3, <1>4, <2>2, <3>5
      <4> QED
        BY <1>1, <1>4, <1>7, <3>5, <4>1
    <3> QED
      BY <1>2, <2>4, <3>1, <3>3, <3>6
  <2> QED
    BY <2>5, <2>6
<1> QED
  BY <1>6, <1>7

\* A target that can be proxied has a path that begins with "/".
LEMMA SupportedPath ==
    ASSUME NEW target \in Seq(STRING), IsSupportedProxyTarget(target)
    PROVE  /\ target # <<>> /\ target[1] = "/"
           /\ RequestPath(target) \in Seq(STRING) \ {<<>>} /\ RequestPath(target)[1] = "/"
<1> DEFINE path == RequestPath(target)
<1>1. target # <<>> /\ target[1] = "/"
  BY DEF IsSupportedProxyTarget
<1>2. /\ path \in Seq(STRING) /\ Len(path) <= Len(target)
      /\ \A k \in 1 .. Len(path) : path[k] = target[k] /\ path[k] # "?"
      /\ Len(path) < Len(target) => target[Len(path) + 1] = "?"
  BY PathIs
<1> HIDE DEF path
<1>3. Len(target) \in Nat \ {0} /\ Len(path) \in Nat
  BY <1>1, <1>2
<1>4. Len(path) # 0
  <2>1. CASE Len(path) = 0
    <3>1. target[0 + 1] = "?" /\ 0 + 1 = 1
      BY <1>2, <1>3, <2>1
    <3> QED
      BY <1>1, <3>1
  <2> QED
    BY <2>1
<1>5. path # <<>> /\ path[1] = "/"
  BY <1>1, <1>2, <1>3, <1>4
<1> QED
  BY <1>1, <1>2, <1>5 DEF path

\* The routes that cover a path are the ones the loop would take.
LEMMA CoveringIs ==
    ASSUME config \in Configs, NEW path \in Seq(STRING) \ {<<>>}, path[1] = "/", NEW r \in Routes
    PROVE  r \in Covering(path) <=> PrefixMatches(config.routes[r].prefix, path)
<1>1. config.routes[r].prefix \in Seq(STRING) \ {<<>>}
  BY PrefixAssumption DEF Routes
<1>2. r \in Covering(path) <=> config.routes[r].prefix \in Ancestors(path)
  BY DEF Covering
<1> QED
  BY <1>1, <1>2, MatchIs

\* What select_http_route gives: nothing for the gateway's own paths, and for
\* the rest the one route with the longest prefix that covers the path.
LEMMA SelectedIs ==
    ASSUME config \in Configs, NEW q, q.target \in Seq(STRING), NEW r, r = SelectHttpRoute(config, q)
    PROVE  LET path == RequestPath(q.target) IN
           /\ r \notin {NoRoute, LegacyRoute} =>
                /\ r \in Covering(path)
                /\ \A s \in Covering(path) \ {r} :
                      Len(config.routes[s].prefix) < Len(config.routes[r].prefix)
                /\ Rejoins(config.routes[r], q.target)
           /\ r # NoRoute => ClassifyRoute(q.target) = "unmatched" /\ ~IsMetricsTarget(config, q.target)
<1> DEFINE path == RequestPath(q.target)
           passed == /\ q.method \in UpstreamMethods
                     /\ ClassifyRoute(q.target) = "unmatched" /\ ~IsMetricsTarget(config, q.target)
                     /\ IsSupportedProxyTarget(q.target) /\ ~RequestsUpgrade(q) /\ ~GetWithBody(q)
           P(s) == config.routes[s].prefix
<1>1. r # NoRoute => passed
  BY DEF SelectHttpRoute
<1>2. ASSUME r \notin {NoRoute, LegacyRoute}
      PROVE  /\ r \in Covering(path)
             /\ \A s \in Covering(path) \ {r} : Len(P(s)) < Len(P(r))
             /\ Rejoins(config.routes[r], q.target)
  <2>1. passed
    BY <1>1, <1>2
  <2>2. r = LongestMatch(config, path)
    BY <1>2 DEF SelectHttpRoute
  <2>3. /\ q.target # <<>> /\ q.target[1] = "/"
        /\ path \in Seq(STRING) \ {<<>>} /\ path[1] = "/"
    BY <2>1, SupportedPath
  <2> HIDE DEF path, passed
  <2>4. Routes = 1 .. Len(config.routes)
    BY RoutesAssumption DEF Routes
  <2>5. /\ r \in Routes /\ PrefixMatches(P(r), path)
        /\ \A s \in Routes : PrefixMatches(P(s), path) => Len(P(s)) <= Len(P(r))
    <3>1. FoundBy(config, path, Len(config.routes), r)
      BY <2>2, LongestMatchIs
    <3> QED
      BY <1>2, <2>4, <3>1 DEF FoundBy
  <2>6. \A s \in Routes : P(s) \in Seq(STRING) \ {<<>>} /\ (P(s) = P(r) => s = r)
    BY <2>5, PrefixAssumption DEF Routes
  <2>7. r \in Covering(path)
    BY <2>3, <2>5, CoveringIs
  <2>8. ASSUME NEW s \in Covering(path) \ {r}
        PROVE  Len(P(s)) < Len(P(r))
    <3>1. s \in Routes
      BY DEF Covering
    <3>2. PrefixMatches(P(s), path)
      BY <2>3, <2>8, <3>1, CoveringIs
    <3>3. Len(P(s)) <= Len(P(r)) /\ Len(P(s)) \in Nat /\ Len(P(r)) \in Nat
      BY <2>5, <2>6, <3>1, <3>2
    <3>4. Len(P(s)) # Len(P(r))
      <4>1. IsPrefix(P(s), path) /\ IsPrefix(P(r), path)
        BY <2>5, <3>2 DEF PrefixMatches
      <4>2. P(s) \in Seq(STRING) /\ P(r) \in Seq(STRING) /\ path \in Seq(STRING)
        BY <2>3, <2>5, <2>6, <3>1
      <4>3. Len(P(s)) = Len(P(r)) => P(s) = P(r)
        BY <4>1, <4>2, SamePrefix
      <4> QED
        BY <2>6, <2>8, <3>1, <4>3
    <3> QED
      BY <3>3, <3>4
  <2>9. Rejoins(config.routes[r], q.target)
    BY <2>3, <2>5, <2>6, RejoinsIs DEF path
  <2> QED
    BY <2>7, <2>8, <2>9
<1> QED
  BY <1>1, <1>2

\* What a step decides: a local answer, or what select_http_route has chosen
\* the route for.
LEMMA DecidedIs ==
    ASSUME DispatchInv, DispatchNext
    PROVE  /\ config' = config
           /\ \A d \in decision' :
                 /\ d.request \in Traffic(config)
                 /\ d.route = SelectHttpRoute(config, d.request)
                 /\ \/ d.route = NoRoute /\ d.answer = HandleHttpRequest(config, d.request)
                    \/ /\ d.route # NoRoute /\ d.answer \notin {"ok", "not_found"}
                       /\ d.answer # "unauthorized" => ~AnswersUnauthorized(d.request, d.route)
<1>1. ASSUME NEW q \in Traffic(config), LocalRequest(q)
      PROVE  /\ config' = config
             /\ \A d \in decision' :
                   d.request = q /\ d.route = NoRoute /\ NoRoute = SelectHttpRoute(config, q)
                   /\ d.answer = HandleHttpRequest(config, q)
  BY <1>1 DEF LocalRequest, Decide, admissionVars
<1>2. ASSUME NEW q \in Traffic(config), UnauthorizedRequest(q)
      PROVE  /\ config' = config
             /\ \A d \in decision' :
                   /\ d.request = q /\ d.route = SelectHttpRoute(config, q) /\ d.route # NoRoute
                   /\ d.answer = "unauthorized"
  BY <1>2 DEF UnauthorizedRequest, Decide, admissionVars
<1>3. ASSUME NEW q \in Traffic(config), ProxyRequest(q)
      PROVE  /\ config' = config
             /\ \A d \in decision' :
                   /\ d.request = q /\ d.route = SelectHttpRoute(config, q) /\ d.route # NoRoute
                   /\ d.answer \notin {"ok", "not_found"} /\ ~AnswersUnauthorized(q, d.route)
  <2> DEFINE r == SelectHttpRoute(config, q)
  <2>1. r # NoRoute /\ ~AnswersUnauthorized(q, r)
    BY <1>3 DEF ProxyRequest
  <2>2. \A d \in decision' : d.request = q /\ d.route = r /\ d.answer \notin {"ok", "not_found"}
    <3> DEFINE s == IF r \in Routes THEN Chosen(r) ELSE 0
               is(a, slot, retry) == decision' = {[request |-> q, route |-> r, answer |-> a,
                                                   slot |-> slot, retry |-> retry]}
    <3>1. \/ is("rate_limited", 0, RetryAfter(r)) \/ is("gateway_overloaded", 0, 0)
          \/ is("no_healthy_upstream", 0, 0) \/ is("bad_gateway", 0, 0) \/ is("proxied", s, 0)
      BY <1>3 DEF ProxyRequest, Decide
    <3> HIDE DEF r, s
    <3>2. PICK a, slot, retry :
            a \in {"rate_limited", "gateway_overloaded", "no_healthy_upstream", "bad_gateway", "proxied"}
            /\ is(a, slot, retry)
      BY <3>1
    <3> QED
      BY <3>2
  <2>3. config' = config
    BY <1>3, ProxyIs, OutcomeInv
  <2> QED
    BY <2>1, <2>2, <2>3
<1>4. CASE /\ decision' = {}
           /\ \/ ExchangeEnds \/ Clock
              \/ \E r \in Routes : \E i \in SlotsOf(r) : HealthTransition(r, i)
  BY <1>4 DEF ExchangeEnds, Clock, HealthTransition
<1>5. \/ \E q \in Traffic(config) : LocalRequest(q) \/ UnauthorizedRequest(q) \/ ProxyRequest(q)
      \/ /\ decision' = {}
         /\ \/ ExchangeEnds \/ Clock
            \/ \E r \in Routes : \E i \in SlotsOf(r) : HealthTransition(r, i)
  BY DEF DispatchNext, Forget
<1> QED
  BY <1>1, <1>2, <1>3, <1>4, <1>5

\* What make_upstream_request copies and what it sets itself.
LEMMA FieldsAre ==
    ASSUME NEW q, NEW strips \in BOOLEAN, NEW fields, fields = UpstreamFields(q, strips)
    PROVE  /\ "host" \in fields /\ ("content-length" \in fields <=> q.method # "GET")
           /\ fields \cap q.connection \subseteq {"host", "content-length"}
           /\ strips => "authorization" \notin fields
<1>1. \A name : name \in fields <=>
        \/ /\ name \in q.fields /\ ~(strips /\ name = "authorization")
           /\ name \notin {"connection", "transfer-encoding", "upgrade"} /\ name \notin q.connection
           /\ name \notin {"x-forwarded-for", "host", "content-length", "expect"}
        \/ name = "host"
        \/ name = "content-length" /\ q.method # "GET"
  BY DEF UpstreamFields, IsHopByHop
<1> QED
  BY <1>1

\* A request that is authenticated has one field with one of the keys.
LEMMA KeyIs ==
    ASSUME NEW q, q.authorization \in Seq([scheme : STRING, key : STRING]), NEW keys,
           Authenticated(keys, q)
    PROVE  HoldsKey(q, keys)
<1> DEFINE a == q.authorization
           S == [scheme : STRING, key : STRING]
<1>1. a \in Seq(S) /\ Len(a) = 1 /\ a[1].scheme = "bearer" /\ a[1].key \in keys
  BY DEF Authenticated
<1> HIDE DEF a
<1>2. a[1] \in S
  <2>1. 1 \in 1 .. Len(a)
    BY <1>1
  <2> HIDE DEF S
  <2> QED
    BY <1>1, <2>1, ElementOfSeq
<1>3. PICK k : k = a[1].key
  OBVIOUS
<1>4. a[1] = [scheme |-> "bearer", key |-> k]
  BY <1>1, <1>2, <1>3
<1> HIDE DEF S
<1>5. a = <<a[1]>>
  <2>1. <<a[1]>> \in Seq(S) /\ Len(<<a[1]>>) = 1 /\ <<a[1]>>[1] = a[1]
    BY <1>2
  <2>2. \A i \in 1 .. Len(a) : a[i] = <<a[1]>>[i]
    BY <1>1, <2>1
  <2> QED
    BY <1>1, <2>1, <2>2, SeqEqual
<1>6. k \in keys /\ a = <<[scheme |-> "bearer", key |-> k]>>
  BY <1>1, <1>3, <1>4, <1>5
<1> QED
  BY <1>6 DEF HoldsKey, a

----------------------------------------------------------------------------
(* The theorems.                                                           *)

\* In every run, with any configurations and any traffic: what a bucket holds
\* is what rate, burst and time say, no computation passes the word, nobody
\* waits behind the slot that was just chosen, and the permits are within their limit.
THEOREM DispatchInvariance == DispatchSpec => []DispatchInv
<1>1. DispatchInit => DispatchInv
  BY DispatchStarts
<1>2. DispatchInv /\ [DispatchNext]_dispatchVars => DispatchInv'
  BY DispatchSteps
<1> QED
  BY <1>1, <1>2, PTL DEF DispatchSpec

\* What the search stops at is available, and nothing that has been available
\* all along since it was chosen last has been passed over.
THEOREM FairRotationTheorem == DispatchSpec => FairRotation
<1> DEFINE Fair == \A d \in decision' :
                      d.answer = "proxied" /\ d.route \in Routes =>
                          d.slot \in available[d.route] /\ since[d.route][d.slot] = {}
<1>1. ASSUME DispatchInv, DispatchNext
      PROVE  Fair
  <2>1. CASE \E q : LocalRequest(q)
    <3>1. PICK q : LocalRequest(q)
      BY <2>1
    <3>2. \A d \in decision' : d.answer = HandleHttpRequest(config, q)
      BY <3>1 DEF LocalRequest, Decide
    <3> QED
      BY <3>2, LocalAnswers
  <2>2. CASE \E q : UnauthorizedRequest(q)
    <3>1. \A d \in decision' : d.answer = "unauthorized"
      BY <2>2 DEF UnauthorizedRequest, Decide
    <3> QED
      BY <3>1
  <2>3. ASSUME NEW q, ProxyRequest(q)
        PROVE  Fair
    <3>1. PICK r, a, slot, retry :
                /\ Outcome(r)
                /\ decision' = {[request |-> q, route |-> r, answer |-> a, slot |-> slot,
                                 retry |-> retry]}
                /\ \/ a = "rate_limited" /\ RefusedByRate(r) /\ retry = RetryAfter(r)
                   \/ a = "gateway_overloaded" /\ RefusedByCapacity(r)
                   \/ a = "no_healthy_upstream" /\ NoHealthyUpstream(r)
                   \/ a = "bad_gateway" /\ Admitted(r, FALSE)
                   \/ a = "proxied" /\ Admitted(r, TRUE) /\ (r \in Routes => slot = Chosen(r))
      BY <2>3, ProxyIs
    <3>2. ASSUME a = "proxied", r \in Routes
          PROVE  slot \in available[r] /\ since[r][slot] = {}
      <4>1. available[r] # {} /\ slot = Chosen(r)
        BY <3>1, <3>2 DEF Admitted
      <4>2. DispatchTypeOK /\ RotationInv(r)
        BY <1>1, <3>2, InvNow
      <4>3. /\ slot \in available[r] /\ slot \in SlotsOf(r)
            /\ \A j \in available[r] : Distance(r, slot) <= Distance(r, j)
        BY <3>2, <4>1, <4>2, ChosenIs
      <4>4. /\ config \in Configs /\ next_upstream[r] \in SlotsOf(r)
            /\ available[r] \subseteq SlotsOf(r)
        BY <1>1, <3>2, InvNow
      <4>5. ASSUME NEW j \in since[r][slot]
            PROVE  FALSE
        <5>1. j \in available[r] /\ Distance(r, j) < Distance(r, slot)
          BY <4>2, <4>3, <4>5 DEF RotationInv
        <5>2. Distance(r, slot) <= Distance(r, j)
          BY <4>3, <5>1
        <5>3. Distance(r, slot) \in Nat /\ Distance(r, j) \in Nat
          BY <3>2, <4>3, <4>4, <5>1, DistanceIs
        <5> QED
          BY <5>1, <5>2, <5>3
      <4> QED
        BY <4>3, <4>5
    <3>3. \A d \in decision' : d.answer = a /\ d.route = r /\ d.slot = slot
      BY <3>1
    <3> QED
      BY <3>2, <3>3
  <2>4. CASE decision' = {}
    BY <2>4
  <2> QED
    BY <1>1, <2>1, <2>2, <2>3, <2>4, StepIs
<1>2. DispatchInv /\ [DispatchNext]_dispatchVars => [Fair]_dispatchVars
  BY <1>1
<1> HIDE DEF Fair
<1>4. DispatchSpec => [][Fair]_dispatchVars
  BY <1>2, DispatchInvariance, PTL DEF DispatchSpec
<1> QED
  BY <1>4 DEF FairRotation, Fair

\* A route with a rate limit lets through exactly what burst, rate and time
\* allow, and the Retry-After it gives is the least that is enough.
THEOREM RateLimitTheorem == DispatchSpec => RateLimitExact
<1> DEFINE Over(r) == debt[r] + units_per_token - Capacity(r)
           Second(r) == Rate(r) * units_per_token
           Exact(r, answer, retry) ==
              r \in Routes /\ Limited(r) /\ answer # "unauthorized" =>
                 /\ answer = "rate_limited" <=> Over(r) > 0
                 /\ answer = "rate_limited" =>
                      Over(r) <= retry * Second(r) /\ Over(r) > (retry - 1) * Second(r)
           Limits == \A d \in decision' : Exact(d.route, d.answer, d.retry)
<1>1. ASSUME DispatchInv, DispatchNext
      PROVE  Limits
  <2>1. CASE \E q : LocalRequest(q)
    <3>1. \A d \in decision' : d.route = NoRoute
      BY <2>1 DEF LocalRequest, Decide
    <3>2. NoRoute \notin Routes
      BY <1>1, InvNow, NotARoute
    <3> QED
      BY <3>1, <3>2
  <2>2. CASE \E q : UnauthorizedRequest(q)
    <3>1. \A d \in decision' : d.answer = "unauthorized"
      BY <2>2 DEF UnauthorizedRequest, Decide
    <3> QED
      BY <3>1
  <2>3. ASSUME NEW q, ProxyRequest(q)
        PROVE  Limits
    <3>1. PICK r, a, slot, retry :
                /\ Outcome(r)
                /\ decision' = {[request |-> q, route |-> r, answer |-> a, slot |-> slot,
                                 retry |-> retry]}
                /\ \/ a = "rate_limited" /\ RefusedByRate(r) /\ retry = RetryAfter(r)
                   \/ a = "gateway_overloaded" /\ RefusedByCapacity(r)
                   \/ a = "no_healthy_upstream" /\ NoHealthyUpstream(r)
                   \/ a = "bad_gateway" /\ Admitted(r, FALSE)
                   \/ a = "proxied" /\ Admitted(r, TRUE) /\ (r \in Routes => slot = Chosen(r))
      BY <2>3, ProxyIs
    <3>2. \A d \in decision' : d.answer = a /\ d.route = r /\ d.retry = retry
      BY <3>1
    <3>3. a = "rate_limited" <=> ~Allowed(r)
      BY <3>1 DEF RefusedByRate, RefusedByCapacity, NoHealthyUpstream, Admitted
    <3>4. a = "rate_limited" => retry = RetryAfter(r)
      BY <3>1
    <3>5. ASSUME r \in Routes, Limited(r)
          PROVE  /\ ~Allowed(r) <=> Over(r) > 0
                 /\ ~Allowed(r) => /\ Over(r) <= RetryAfter(r) * Second(r)
                                   /\ Over(r) > (RetryAfter(r) - 1) * Second(r)
      <4>1. DispatchTypeOK /\ BucketInv(r)
        BY <1>1, <3>5, InvNow
      <4> QED
        BY <3>5, <4>1, RetryIs
    <3> HIDE DEF Over, Second
    <3>6. Exact(r, a, retry)
      BY <3>3, <3>4, <3>5
    <3> QED
      BY <3>2, <3>6
  <2>4. CASE decision' = {}
    BY <2>4
  <2> QED
    BY <1>1, <2>1, <2>2, <2>3, <2>4, StepIs
<1>2. DispatchInv /\ [DispatchNext]_dispatchVars => [Limits]_dispatchVars
  BY <1>1
<1> HIDE DEF Limits
<1>4. DispatchSpec => [][Limits]_dispatchVars
  BY <1>2, DispatchInvariance, PTL DEF DispatchSpec
<1> QED
  BY <1>4 DEF RateLimitExact, Limits

\* In every run, what reaches an upstream does so by the one route with the
\* longest prefix over its path, with an accepted key, at the path below the
\* prefix and with the gateway's own framing.
THEOREM ProxiedTheorem == DispatchSpec => []ProxiedAsConfigured
<1> DEFINE Keys(d) == IF d.route = LegacyRoute THEN {} ELSE config.routes[d.route].auth
           Fields(d) == UpstreamFields(d.request, Keys(d) # {})
           Path(d) == RequestPath(d.request.target)
           Routed(d) == d.route # LegacyRoute =>
                          /\ d.route \in Covering(Path(d))
                          /\ \A r \in Covering(Path(d)) \ {d.route} :
                                Len(config.routes[r].prefix) < Len(config.routes[d.route].prefix)
                          /\ Rejoins(config.routes[d.route], d.request.target)
           Keyed(d) == Keys(d) # {} => HoldsKey(d.request, Keys(d)) /\ "authorization" \notin Fields(d)
           Framed(d) == /\ "host" \in Fields(d)
                        /\ ("content-length" \in Fields(d) <=> d.request.method # "GET")
                        /\ Fields(d) \cap d.request.connection \subseteq {"host", "content-length"}
           Right(d) == d.answer = "proxied" => Routed(d) /\ Keyed(d) /\ Framed(d)
<1>1. ProxiedAsConfigured <=> \A d \in decision : Right(d)
  BY DEF ProxiedAsConfigured
<1>2. config' = config => (ProxiedAsConfigured' <=> \A d \in decision' : Right(d))
  <2>1. config' = config => \A p : Covering(p)' = Covering(p)
    BY DEF Covering, Routes
  <2> QED
    BY <2>1, ZenonT(60) DEF ProxiedAsConfigured
<1>3. ASSUME DispatchInv, DispatchNext
      PROVE  ProxiedAsConfigured'
  <2>1. config \in Configs
    BY <1>3, InvNow
  <2>2. /\ config' = config
        /\ \A d \in decision' :
              /\ d.request \in Traffic(config)
              /\ d.route = SelectHttpRoute(config, d.request)
              /\ \/ d.route = NoRoute /\ d.answer = HandleHttpRequest(config, d.request)
                 \/ /\ d.route # NoRoute /\ d.answer \notin {"ok", "not_found"}
                    /\ d.answer # "unauthorized" => ~AnswersUnauthorized(d.request, d.route)
    BY <1>3, DecidedIs
  <2>3. ASSUME NEW d \in decision', d.answer = "proxied"
        PROVE  Routed(d) /\ Keyed(d) /\ Framed(d)
    <3> DEFINE q == d.request
    <3>1. q \in Traffic(config) /\ d.route = SelectHttpRoute(config, q)
      BY <2>2
    <3>2. d.route # NoRoute /\ ~AnswersUnauthorized(q, d.route)
      BY <2>2, <2>3, LocalAnswers
    <3>3. q.target \in Seq(STRING) /\ q.authorization \in Seq([scheme : STRING, key : STRING])
      BY <2>1, <3>1, TrafficAssumption
    <3>4. Routed(d)
      BY <2>1, <3>1, <3>2, <3>3, SelectedIs
    <3>5. PICK k : k = Keys(d)
      OBVIOUS
    <3>6. k # {} => Authenticated(k, q)
      <4>1. CASE d.route = LegacyRoute
        BY <3>5, <4>1
      <4>2. CASE d.route # LegacyRoute
        <5>1. d.route \in Routes
          BY <3>4, <4>2 DEF Covering
        <5>2. k = config.routes[d.route].auth
          BY <3>5, <4>2
        <5> QED
          BY <3>2, <5>1, <5>2 DEF AnswersUnauthorized
      <4> QED
        BY <4>1, <4>2
    <3>7. k # {} => HoldsKey(q, k)
      BY <3>3, <3>6, KeyIs
    <3> DEFINE strips == Keys(d) # {}
    <3>8. strips \in BOOLEAN
      BY Zenon
    <3>9. Fields(d) = UpstreamFields(q, strips) /\ (strips <=> k # {})
      BY <3>5, Zenon
    <3> HIDE DEF strips, Fields, Keys
    <3>10. /\ "host" \in Fields(d) /\ ("content-length" \in Fields(d) <=> q.method # "GET")
           /\ Fields(d) \cap q.connection \subseteq {"host", "content-length"}
           /\ strips => "authorization" \notin Fields(d)
      BY <3>8, <3>9, FieldsAre
    <3> QED
      BY <3>4, <3>5, <3>7, <3>9, <3>10
  <2> HIDE DEF Routed, Keyed, Framed
  <2> QED
    BY <1>2, <2>2, <2>3
<1>4. ASSUME UNCHANGED dispatchVars, ProxiedAsConfigured
      PROVE  ProxiedAsConfigured'
  <2>1. config' = config /\ decision' = decision
    BY <1>4 DEF dispatchVars, admissionVars
  <2> HIDE DEF Right
  <2> QED
    BY <1>1, <1>2, <1>4, <2>1
<1>5. DispatchInit => ProxiedAsConfigured
  BY DEF DispatchInit, ProxiedAsConfigured
<1>6. DispatchInv /\ ProxiedAsConfigured /\ [DispatchNext]_dispatchVars => ProxiedAsConfigured'
  BY <1>3, <1>4
<1> QED
  BY <1>5, <1>6, DispatchInvariance, PTL DEF DispatchSpec

\* In every run, a request that is answered "not found" is covered by no route,
\* and the gateway's own paths are answered by the gateway alone.
THEOREM FallThroughTheorem == DispatchSpec => []NoRouteFallsThrough
<1> DEFINE Path(d) == RequestPath(d.request.target)
           Own(d) == Path(d) \in {<<"/", "healthz">>, <<"/", "readyz">>} \cup
                                 (IF config.metrics_enabled THEN {<<"/", "metrics">>} ELSE {})
           Right(d) == /\ d.answer = "not_found" =>
                            ~Own(d) /\ ~config.upstream /\ Covering(Path(d)) = {}
                       /\ d.answer = "ok" => Own(d)
                       /\ Own(d) => d.route = NoRoute
<1>1. NoRouteFallsThrough <=> \A d \in decision : Right(d)
  BY DEF NoRouteFallsThrough
<1>2. config' = config => (NoRouteFallsThrough' <=> \A d \in decision' : Right(d))
  <2>1. config' = config => \A p : Covering(p)' = Covering(p)
    BY DEF Covering, Routes
  <2> QED
    BY <2>1 DEF NoRouteFallsThrough
<1>3. ASSUME DispatchInv, DispatchNext
      PROVE  NoRouteFallsThrough'
  <2>1. config \in Configs
    BY <1>3, InvNow
  <2>2. /\ config' = config
        /\ \A d \in decision' :
              /\ d.request \in Traffic(config)
              /\ d.route = SelectHttpRoute(config, d.request)
              /\ \/ d.route = NoRoute /\ d.answer = HandleHttpRequest(config, d.request)
                 \/ /\ d.route # NoRoute /\ d.answer \notin {"ok", "not_found"}
                    /\ d.answer # "unauthorized" => ~AnswersUnauthorized(d.request, d.route)
    BY <1>3, DecidedIs
  <2>3. ASSUME NEW d \in decision'
        PROVE  Right(d)
    <3> DEFINE q == d.request
    <3>1. q \in Traffic(config) /\ d.route = SelectHttpRoute(config, q)
      BY <2>2
    <3>2. Own(d) <=> ClassifyRoute(q.target) # "unmatched" \/ IsMetricsTarget(config, q.target)
      BY DEF ClassifyRoute, IsMetricsTarget
    <3>3. Own(d) => d.route = NoRoute
      BY <3>1, <3>2 DEF SelectHttpRoute
    <3>4. d.answer = "ok" => Own(d)
      <4>1. CASE d.answer = HandleHttpRequest(config, q)
        BY <3>2, <4>1 DEF HandleHttpRequest
      <4> QED
        BY <2>2, <4>1
    <3>5. ASSUME d.answer = "not_found"
          PROVE  ~Own(d) /\ ~config.upstream /\ Covering(Path(d)) = {}
      <4>1. d.route = NoRoute /\ HandleHttpRequest(config, q) = "not_found"
        BY <2>2, <3>5
      <4>2. /\ ClassifyRoute(q.target) = "unmatched" /\ ~IsMetricsTarget(config, q.target)
            /\ q.method \in UpstreamMethods
            /\ ProxyEnabled(config) =>
                  ~RequestsUpgrade(q) /\ IsSupportedProxyTarget(q.target) /\ ~GetWithBody(q)
        BY <4>1 DEF HandleHttpRequest
      <4>3. CASE ~ProxyEnabled(config)
        <5>1. config.routes = <<>> /\ ~config.upstream
          BY <4>3 DEF ProxyEnabled
        <5>2. Routes = {}
          BY <5>1 DEF Routes
        <5> QED
          BY <3>2, <4>2, <5>1, <5>2 DEF Covering
      <4>4. CASE ProxyEnabled(config)
        <5>1. SelectHttpRoute(config, q) = IF config.upstream THEN LegacyRoute
                                           ELSE LongestMatch(config, Path(d))
          BY <4>2, <4>4 DEF SelectHttpRoute
        <5>2. NoRoute # LegacyRoute
          BY DEF NoRoute, LegacyRoute
        <5>3. ~config.upstream /\ LongestMatch(config, Path(d)) = NoRoute
          BY <3>1, <4>1, <5>1, <5>2
        <5>4. FoundBy(config, Path(d), Len(config.routes), NoRoute)
          BY <2>1, <5>3, LongestMatchIs
        <5>5. \A r \in Routes : ~PrefixMatches(config.routes[r].prefix, Path(d))
          <6>1. Routes = 1 .. Len(config.routes)
            BY <2>1, RoutesAssumption DEF Routes
          <6>2. NoRoute \notin Routes
            BY <2>1, NotARoute
          <6> QED
            BY <5>4, <6>1, <6>2 DEF FoundBy
        <5>6. Path(d) \in Seq(STRING) \ {<<>>} /\ Path(d)[1] = "/"
          <6>1. q.target \in Seq(STRING)
            BY <2>1, <3>1, TrafficAssumption
          <6> QED
            BY <4>2, <4>4, <6>1, SupportedPath
        <5>7. \A r \in Routes : r \notin Covering(Path(d))
          BY <2>1, <5>5, <5>6, CoveringIs
        <5> QED
          BY <3>2, <4>2, <5>3, <5>7 DEF Covering
      <4> QED
        BY <4>3, <4>4
    <3> QED
      BY <3>3, <3>4, <3>5
  <2> HIDE DEF Right
  <2> QED
    BY <1>2, <2>2, <2>3
<1>4. ASSUME UNCHANGED dispatchVars, NoRouteFallsThrough
      PROVE  NoRouteFallsThrough'
  <2>1. config' = config /\ decision' = decision
    BY <1>4 DEF dispatchVars, admissionVars
  <2> HIDE DEF Right
  <2> QED
    BY <1>1, <1>2, <1>4, <2>1
<1>5. DispatchInit => NoRouteFallsThrough
  BY DEF DispatchInit, NoRouteFallsThrough
<1>6. DispatchInv /\ NoRouteFallsThrough /\ [DispatchNext]_dispatchVars => NoRouteFallsThrough'
  BY <1>3, <1>4
<1> QED
  BY <1>5, <1>6, DispatchInvariance, PTL DEF DispatchSpec
=============================================================================
