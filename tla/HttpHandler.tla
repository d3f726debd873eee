---------------------------- MODULE HttpHandler ----------------------------
(***************************************************************************)
(* What is decided from the request and the configuration alone: the       *)
(* route that takes a request, the local answer when none does, the check  *)
(* of its API key, and the request the upstream gets.                      *)
(*                                                                         *)
(* A target is a sequence of tokens: "/", "?", "#" and runs of other       *)
(* characters, cut so that a prefix of the text is a prefix of the tokens. *)
(* Among the prefixes of one path, more tokens is more characters.         *)
(*                                                                         *)
(*   configuration  [upstream, routes, metrics_enabled]                    *)
(*   route          [prefix, strip_prefix, auth, ...], auth the keys       *)
(*                  accepted, {} for a route without authentication        *)
(*   request        [method, target, body, fields, connection,             *)
(*                  authorization]: field names present, the tokens of the *)
(*                  Connection field, the Authorization fields in order    *)
(***************************************************************************)
EXTENDS Integers, Sequences, SequencesExt

NoRoute     == 0            \* select_http_route gives nothing
LegacyRoute == -1           \* the single upstream, which has no route index

UpstreamMethods == {"GET", "POST", "PUT", "PATCH"}

\* The path ends where the query begins.
RequestPath(target) ==
    LET queries == {k \in DOMAIN target : target[k] = "?"} IN
    IF queries = {} THEN target
    ELSE SubSeq(target, 1, (CHOOSE k \in queries : \A j \in queries : k <= j) - 1)

ClassifyRoute(target) ==
    CASE RequestPath(target) = <<"/", "healthz">> -> "healthz"
      [] RequestPath(target) = <<"/", "readyz">>  -> "readyz"
      [] OTHER -> "unmatched"

IsMetricsTarget(c, target) == c.metrics_enabled /\ RequestPath(target) = <<"/", "metrics">>

IsSupportedProxyTarget(target) ==
    target # <<>> /\ Head(target) = "/" /\ \A k \in DOMAIN target : target[k] # "#"

RequestsUpgrade(q) == "upgrade" \in q.fields

GetWithBody(q) == q.method = "GET" /\ q.body

----------------------------------------------------------------------------
(* select_http_route                                                       *)

\* Mutant: no look at what follows the prefix.
PrefixMatchesText(prefix, path) == IsPrefix(prefix, path)

\* Mutant: a path that is the prefix itself is forgotten.
PrefixMatchesBelow(prefix, path) ==
    IsPrefix(prefix, path) /\ (prefix = <<"/">> \/ (Len(path) > Len(prefix) /\ path[Len(prefix) + 1] = "/"))

\* A prefix ends where a segment of the path ends.
PrefixMatches(prefix, path) ==
    /\ IsPrefix(prefix, path)
    /\ \/ prefix = <<"/">>
       \/ Len(path) = Len(prefix)
       \/ path[Len(prefix) + 1] = "/"

\* One turn of the loop: r, if it matches and its prefix is longer than the one
\* found so far.
Longer(c, path, found, r) ==
    LET prefix  == c.routes[r].prefix
        longest == IF found = NoRoute THEN 0 ELSE Len(c.routes[found].prefix) IN
    IF Len(prefix) > longest /\ PrefixMatches(prefix, path) THEN r ELSE found

\* The loop over the routes; found[k] is what is selected after k turns.
LongestMatch(c, path) ==
    LET found[k \in 0 .. Len(c.routes)] ==
            IF k = 0 THEN NoRoute ELSE Longer(c, path, found[k - 1], k) IN
    found[Len(c.routes)]

SelectHttpRoute(c, q) ==
    IF \/ q.method \notin UpstreamMethods
       \/ ClassifyRoute(q.target) # "unmatched" \/ IsMetricsTarget(c, q.target)
       \/ ~IsSupportedProxyTarget(q.target) \/ RequestsUpgrade(q) \/ GetWithBody(q)
    THEN NoRoute
    ELSE IF c.upstream THEN LegacyRoute ELSE LongestMatch(c, RequestPath(q.target))

----------------------------------------------------------------------------
(* handle_http_request: the answer to a request that no route takes.       *)

ProxyEnabled(c) == c.upstream \/ c.routes # <<>>

HandleHttpRequest(c, q) ==
    LET route == ClassifyRoute(q.target) IN
    IF IsMetricsTarget(c, q.target)
    THEN IF q.method # "GET" THEN "method_not_allowed"
         ELSE IF q.body \/ RequestsUpgrade(q) THEN "bad_request" ELSE "ok"
    ELSE IF route # "unmatched" /\ q.method # "GET" THEN "method_not_allowed"
    ELSE IF q.method \notin UpstreamMethods THEN "method_not_allowed"
    ELSE IF ProxyEnabled(c) /\ RequestsUpgrade(q) THEN "bad_request"
    ELSE IF route # "unmatched" THEN "ok"
    ELSE IF ~ProxyEnabled(c) /\ q.method # "GET" THEN "method_not_allowed"
    ELSE IF ProxyEnabled(c) /\ (~IsSupportedProxyTarget(q.target) \/ GetWithBody(q))
         THEN "bad_request"
    ELSE "not_found"

----------------------------------------------------------------------------
(* authenticate_api_key.  The digests are taken to differ when the keys do. *)

Authenticated(keys, q) ==
    /\ Len(q.authorization) = 1
    /\ q.authorization[1].scheme = "bearer"
    /\ q.authorization[1].key \in keys

----------------------------------------------------------------------------
(* make_upstream_request                                                   *)

\* The prefix comes off the target; what is left of it gets a "/" again.
StrippedTarget(target, prefix) ==
    LET rest == SubSeq(target, Len(prefix) + 1, Len(target)) IN
    IF rest = <<>> \/ Head(rest) = "?" THEN <<"/">> \o rest ELSE rest

UpstreamTarget(route, target) ==
    IF route.strip_prefix /\ route.prefix # <<"/">>
    THEN StrippedTarget(target, route.prefix) ELSE target

\* is_hop_by_hop; the other names of its list are treated as these.
IsHopByHop(name, connection) ==
    name \in {"connection", "transfer-encoding", "upgrade"} \/ name \in connection

UpstreamFields(q, strips) ==
    {name \in q.fields :
        /\ ~(strips /\ name = "authorization")
        /\ ~IsHopByHop(name, q.connection)
        /\ name \notin {"x-forwarded-for", "host", "content-length", "expect"}}
    \cup {"host"} \cup (IF q.method = "GET" THEN {} ELSE {"content-length"})
=============================================================================
