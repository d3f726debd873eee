--------------------------- MODULE RouteAdmission ---------------------------
(***************************************************************************)
(* RouteProxyAdmission: a route's token bucket, the proxy permit and the   *)
(* rotation over the route's upstreams that are available, taken in this   *)
(* order for every request that is to be proxied.                          *)
(*                                                                         *)
(* A second has units_per_token ticks, so a tick refills `rate' units, as  *)
(* a nanosecond does in the code.  A bucket is refilled when it is next    *)
(* asked; elapsed is the time since then.  Units are computed modulo Word. *)
(*                                                                         *)
(* A route has rate (0 for no rate_limit) and burst, upstreams (their      *)
(* number) and health_check.                                               *)
(***************************************************************************)
EXTENDS Integers, Sequences, FiniteSets

CONSTANTS
    Configs,             \* the configurations a process may be started with
    max_proxies,
    units_per_token,
    Word,                \* 2^64
    Horizon              \* caps elapsed

ASSUME AdmissionAssumption ==
    {max_proxies, units_per_token, Word, Horizon} \subseteq Nat \ {0}

\* What parse_routes guarantees (ranges) and what the fixed width relies on:
\* a bucket's capacity and the units of one second fit into a word.
ASSUME BucketAssumption ==
    \A c \in Configs : \A r \in DOMAIN c.routes :
        /\ c.routes[r].upstreams \in Nat \ {0} /\ c.routes[r].health_check \in BOOLEAN
        /\ c.routes[r].rate \in Nat /\ c.routes[r].burst \in Nat \ {0}
        /\ c.routes[r].burst * units_per_token < Word
        /\ c.routes[r].burst * units_per_token <= Horizon

\* The routes are a vector: an index is a position in it.
ASSUME RoutesAssumption ==
    \A c \in Configs : Len(c.routes) \in Nat /\ DOMAIN c.routes = 1 .. Len(c.routes)

VARIABLES
    config,              \* config_, fixed at the start
    units, elapsed,      \* TokenBucket of every route
    next_upstream,
    available,           \* UpstreamHealthState: the set of available slots of a route
    active_proxies,      \* ProxyAdmissionState
    debt,                \* history: units taken and not yet earned back
    since                \* history: for a slot, those that have waited since it was chosen

bucketVars    == <<units, elapsed, debt>>
rotationVars  == <<next_upstream, since>>
admissionVars == <<config, bucketVars, rotationVars, active_proxies, available>>

Routes     == DOMAIN config.routes
SlotsOf(r) == 0 .. config.routes[r].upstreams - 1

AdmissionInit ==
    /\ config \in Configs
    /\ units = [r \in Routes |-> config.routes[r].burst * units_per_token]
    /\ elapsed = [r \in Routes |-> 0]
    /\ next_upstream = [r \in Routes |-> 0]
    /\ available = [r \in Routes |-> SlotsOf(r)]
    /\ active_proxies = 0
    /\ debt = [r \in Routes |-> 0]
    /\ since = [r \in Routes |-> [i \in SlotsOf(r) |-> {}]]

----------------------------------------------------------------------------
(* TokenBucket                                                             *)

CeilDivide(n, d) == n \div d + (IF n % d = 0 THEN 0 ELSE 1)

Capacity(r) == config.routes[r].burst * units_per_token
Rate(r)     == config.routes[r].rate

\* Mutant: the product is computed for any time and clamped afterwards.
RefilledThenClamped(r) ==
    LET sum == (units[r] + elapsed[r] * Rate(r)) % Word IN
    IF sum > Capacity(r) THEN Capacity(r) ELSE sum

\* refill: clamped twice before the product is computed.
Refilled(r) ==
    IF elapsed[r] = 0 THEN units[r]
    ELSE IF elapsed[r] >= config.routes[r].burst * units_per_token THEN Capacity(r)
    ELSE IF elapsed[r] >= CeilDivide((Capacity(r) - units[r]) % Word, Rate(r)) THEN Capacity(r)
    ELSE (units[r] + ((elapsed[r] * Rate(r)) % Word)) % Word

Limited(r) == r \in Routes /\ Rate(r) # 0

\* try_acquire, and RouteRateLimits for a route without a bucket
Allowed(r) == Limited(r) => Refilled(r) >= units_per_token

RetryAfter(r) ==
    CeilDivide(CeilDivide(units_per_token - Refilled(r), Rate(r)), units_per_token)

AskBucket(r) ==
    IF ~Limited(r) THEN UNCHANGED bucketVars
    ELSE /\ elapsed' = [elapsed EXCEPT ![r] = 0]
         /\ units' = [units EXCEPT ![r] = IF Allowed(r) THEN Refilled(r) - units_per_token
                                          ELSE Refilled(r)]
         /\ debt' = [debt EXCEPT ![r] = IF Allowed(r) THEN @ + units_per_token ELSE @]

----------------------------------------------------------------------------
(* The rotation                                                            *)

\* How far the search goes from the position to a slot.
Distance(r, i) == (i - next_upstream[r]) % config.routes[r].upstreams

\* The slot the search stops at.
Chosen(r) == CHOOSE i \in available[r] : \A j \in available[r] : Distance(r, i) <= Distance(r, j)

\* Mutant: the position moves by one, whatever was skipped.
AdvanceByOne(r, i) ==
    next_upstream' = [next_upstream EXCEPT ![r] = (@ + 1) % config.routes[r].upstreams]

Advance(r, i) ==
    next_upstream' = [next_upstream EXCEPT ![r] = (i + 1) % config.routes[r].upstreams]

\* i was chosen: the other available slots begin to wait for it to be chosen again.
Waits(r, i) ==
    since' = [since EXCEPT ![r] =
                [k \in SlotsOf(r) |-> IF k = i THEN available[r] \ {i} ELSE @[k] \ {i}]]

----------------------------------------------------------------------------
(* The permit: ProxyPermit::try_acquire below the limit, and release       *)

Acquired(n) == n + 1
Released(n) == IF n > 0 THEN n - 1 ELSE n

----------------------------------------------------------------------------
(* try_acquire, one operator per outcome; r is a route or, for the single  *)
(* upstream, no index at all.  The bucket is asked first and never refunds. *)

RefusedByRate(r) ==
    /\ ~Allowed(r)
    /\ AskBucket(r)
    /\ UNCHANGED <<config, rotationVars, active_proxies, available>>

RefusedByCapacity(r) ==
    /\ Allowed(r) /\ active_proxies = max_proxies
    /\ AskBucket(r)
    /\ UNCHANGED <<config, rotationVars, active_proxies, available>>

\* The search finds no slot: the permit just taken is given back.
NoHealthyUpstream(r) ==
    /\ Allowed(r) /\ active_proxies < max_proxies
    /\ r \in Routes /\ available[r] = {}
    /\ AskBucket(r)
    /\ active_proxies' = Released(Acquired(active_proxies))
    /\ UNCHANGED <<config, rotationVars, available>>

\* The slot is taken, and the exchange starts and holds the permit, or making or
\* starting it throws and the catch block of the session drops the permit.
Admitted(r, starts) ==
    /\ Allowed(r) /\ active_proxies < max_proxies
    /\ r \in Routes => available[r] # {}
    /\ AskBucket(r)
    /\ IF r \in Routes THEN Advance(r, Chosen(r)) /\ Waits(r, Chosen(r))
       ELSE UNCHANGED rotationVars
    /\ active_proxies' = IF starts THEN Acquired(active_proxies)
                         ELSE Released(Acquired(active_proxies))
    /\ UNCHANGED <<config, available>>

----------------------------------------------------------------------------
(* What goes on beside the requests.                                       *)

\* An exchange ends and its session drops the permit.
ExchangeEnds ==
    /\ active_proxies > 0
    /\ active_proxies' = Released(active_proxies)
    /\ UNCHANGED <<config, bucketVars, rotationVars, available>>

\* The health checks record a transition.
HealthTransition(r, i) ==
    /\ config.routes[r].health_check
    /\ available' = [available EXCEPT ![r] = IF i \in @ THEN @ \ {i} ELSE @ \cup {i}]
    /\ since' = [since EXCEPT ![r] = [k \in SlotsOf(r) |-> @[k] \ {i}]]
    /\ UNCHANGED <<config, bucketVars, next_upstream, active_proxies>>

Clock ==
    /\ \E r \in Routes : Limited(r)
    /\ elapsed' = [r \in Routes |->
                    IF Limited(r) /\ elapsed[r] < Horizon THEN elapsed[r] + 1 ELSE elapsed[r]]
    /\ debt' = [r \in Routes |-> IF debt[r] > Rate(r) THEN debt[r] - Rate(r) ELSE 0]
    /\ UNCHANGED <<config, units, rotationVars, active_proxies, available>>
=============================================================================
