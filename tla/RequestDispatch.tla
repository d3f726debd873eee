-------------------------- MODULE RequestDispatch --------------------------
(***************************************************************************)
(* process_request and start_proxy_request: what becomes of a complete     *)
(* request.  The route decides, then the API key, then the admission; the  *)
(* rest is answered locally.  Sessions run on one thread, so a request is  *)
(* decided in one step; the exchanges it starts end whenever they do.      *)
(***************************************************************************)
EXTENDS HttpHandler, RouteAdmission

CONSTANTS
    Traffic(_)           \* the requests that are sent to a configuration

\* What parse_routes guarantees: no prefix is empty and none comes twice.
ASSUME PrefixAssumption ==
    \A c \in Configs : \A r \in DOMAIN c.routes :
        /\ c.routes[r].prefix \in Seq(STRING) \ {<<>>}
        /\ \A s \in DOMAIN c.routes : c.routes[r].prefix = c.routes[s].prefix => r = s

ASSUME TrafficAssumption ==
    \A c \in Configs : \A q \in Traffic(c) :
        /\ q.target \in Seq(STRING)
        /\ q.authorization \in Seq([scheme : STRING, key : STRING])

VARIABLES
    decision             \* history: the last request and what became of it, or {}

dispatchVars == <<admissionVars, decision>>

DispatchInit == AdmissionInit /\ decision = {}

\* The history of a step that is not a request.
Forget == decision' = {}

Decide(q, r, answer) == decision' = {[request |-> q, route |-> r, answer |-> answer,
                                      slot |-> 0, retry |-> 0]}

AnswersUnauthorized(q, r) ==
    r \in Routes /\ config.routes[r].auth # {} /\ ~Authenticated(config.routes[r].auth, q)

LocalRequest(q) ==
    /\ SelectHttpRoute(config, q) = NoRoute
    /\ Decide(q, NoRoute, HandleHttpRequest(config, q))
    /\ UNCHANGED admissionVars

UnauthorizedRequest(q) ==
    LET r == SelectHttpRoute(config, q) IN
    /\ r # NoRoute /\ AnswersUnauthorized(q, r)
    /\ Decide(q, r, "unauthorized")
    /\ UNCHANGED admissionVars

\* start_proxy_request
ProxyRequest(q) ==
    LET r == SelectHttpRoute(config, q)
        slot == IF r \in Routes THEN Chosen(r) ELSE 0 IN
    /\ r # NoRoute /\ ~AnswersUnauthorized(q, r)
    /\ \/ /\ RefusedByRate(r)
          /\ decision' = {[request |-> q, route |-> r, answer |-> "rate_limited", slot |-> 0,
                           retry |-> RetryAfter(r)]}
       \/ RefusedByCapacity(r) /\ Decide(q, r, "gateway_overloaded")
       \/ NoHealthyUpstream(r) /\ Decide(q, r, "no_healthy_upstream")
       \/ Admitted(r, FALSE) /\ Decide(q, r, "bad_gateway")
       \/ /\ Admitted(r, TRUE)
          /\ decision' = {[request |-> q, route |-> r, answer |-> "proxied", slot |-> slot,
                           retry |-> 0]}

DispatchNext ==
    \/ \E q \in Traffic(config) : LocalRequest(q) \/ UnauthorizedRequest(q) \/ ProxyRequest(q)
    \/ ExchangeEnds /\ Forget
    \/ \E r \in Routes : \E i \in SlotsOf(r) : HealthTransition(r, i) /\ Forget
    \/ Clock /\ Forget

DispatchSpec == DispatchInit /\ [][DispatchNext]_dispatchVars

----------------------------------------------------------------------------
(* Properties.                                                             *)

DispatchTypeOK ==
    /\ config \in Configs
    /\ units \in [Routes -> 0 .. Word - 1] /\ elapsed \in [Routes -> 0 .. Horizon]
    /\ debt \in [Routes -> Nat]
    /\ next_upstream \in [Routes -> Nat] /\ \A r \in Routes : next_upstream[r] \in SlotsOf(r)
    /\ \A r \in Routes : available[r] \subseteq SlotsOf(r)
    /\ active_proxies \in 0 .. max_proxies

\* The paths a path lies under: the root, and each that ends with a segment of it.
Ancestors(path) ==
    {<<"/">>} \cup {SubSeq(path, 1, k) : k \in {k \in 1 .. Len(path) : k = Len(path) \/ path[k + 1] = "/"}}

Covering(path) == {r \in Routes : config.routes[r].prefix \in Ancestors(path)}

\* The Authorization fields hold one accepted key and nothing else.
HoldsKey(q, keys) == \E k \in keys : q.authorization = <<[scheme |-> "bearer", key |-> k]>>

\* The target that is sent, put behind the prefix that was taken off, is the
\* one that came, but for the "/" that stands for an empty rest.
Rejoins(route, target) ==
    LET sent == UpstreamTarget(route, target) IN
    /\ Head(sent) = "/"
    /\ sent # target =>
         \/ route.prefix \o sent = target
         \/ route.prefix = RequestPath(target) /\ route.prefix \o Tail(sent) = target

\* What reaches an upstream does so as configured: of the routes that cover the
\* path it is the one with the longest prefix, with one of its keys if it asks
\* for one (which stays in the gateway), at the same path below the prefix, and
\* with the gateway's own Host and framing, whatever Connection names.
ProxiedAsConfigured ==
    \A d \in decision :
        d.answer = "proxied" =>
            LET q == d.request
                keys == IF d.route = LegacyRoute THEN {} ELSE config.routes[d.route].auth
                fields == UpstreamFields(q, keys # {}) IN
            /\ d.route # LegacyRoute =>
                 /\ d.route \in Covering(RequestPath(q.target))
                 /\ \A r \in Covering(RequestPath(q.target)) \ {d.route} :
                        Len(config.routes[r].prefix) < Len(config.routes[d.route].prefix)
                 /\ Rejoins(config.routes[d.route], q.target)
            /\ keys # {} => HoldsKey(q, keys) /\ "authorization" \notin fields
            /\ "host" \in fields /\ ("content-length" \in fields <=> q.method # "GET")
            /\ fields \cap q.connection \subseteq {"host", "content-length"}

\* The two functions that judge a request agree: one that no route takes is
\* called unknown only if no route covers its path, and a path of the gateway's
\* own never reaches an upstream.
NoRouteFallsThrough ==
    \A d \in decision :
        LET path == RequestPath(d.request.target)
            own  == path \in {<<"/", "healthz">>, <<"/", "readyz">>} \cup
                            (IF config.metrics_enabled THEN {<<"/", "metrics">>} ELSE {}) IN
        /\ d.answer = "not_found" => ~own /\ ~config.upstream /\ Covering(path) = {}
        /\ d.answer = "ok" => own
        /\ own => d.route = NoRoute

\* Within any stretch of time a route admits no more than burst plus rate times
\* the time; it refuses only what would be more than that; and a client that
\* waits as long as it was told, with no other in between, is admitted then,
\* and not a whole second before.
RateLimitExact ==
    [][\A d \in decision' :
          d.route \in Routes /\ Limited(d.route) /\ d.answer # "unauthorized" =>
              LET over == debt[d.route] + units_per_token - Capacity(d.route)
                  second == Rate(d.route) * units_per_token IN
              /\ d.answer = "rate_limited" <=> over > 0
              /\ d.answer = "rate_limited" =>
                   over <= d.retry * second /\ over > (d.retry - 1) * second]_dispatchVars

\* The rotation is fair to what is available: an upstream is chosen only when it
\* is available, and not again before every other one that has been available
\* since has had its turn, however the health checks move in between.
FairRotation ==
    [][\A d \in decision' :
          d.answer = "proxied" /\ d.route \in Routes =>
              d.slot \in available[d.route] /\ since[d.route][d.slot] = {}]_dispatchVars
=============================================================================
