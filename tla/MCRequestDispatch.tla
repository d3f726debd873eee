------------------------- MODULE MCRequestDispatch -------------------------
(* Model checking of routing, authentication and admission.                *)
EXTENDS RequestDispatch

Route(prefix, strip, auth, rate, upstreams, checked) ==
    [prefix |-> prefix, strip_prefix |-> strip, auth |-> auth, rate |-> rate, burst |-> 2,
     upstreams |-> upstreams, health_check |-> checked]

\* Nested, neighbouring and overlapping prefixes, the longest neither first nor last.
Nested == [upstream |-> FALSE, metrics_enabled |-> TRUE,
           routes |-> << Route(<<"/", "a">>, TRUE, {}, 0, 1, FALSE),
                         Route(<<"/", "a", "/", "b">>, TRUE, {"k1", "k2"}, 0, 1, FALSE),
                         Route(<<"/", "a", "b">>, FALSE, {}, 0, 1, FALSE) >>]
Rooted == [upstream |-> FALSE, metrics_enabled |-> FALSE,
           routes |-> << Route(<<"/">>, TRUE, {}, 0, 1, FALSE),
                         Route(<<"/", "a">>, TRUE, {"k1"}, 0, 1, FALSE) >>]
Legacy == [upstream |-> TRUE, metrics_enabled |-> TRUE, routes |-> <<>>]
Local  == [upstream |-> FALSE, metrics_enabled |-> TRUE, routes |-> <<>>]
\* One limited and health-checked route.
Busy   == [upstream |-> FALSE, metrics_enabled |-> FALSE,
           routes |-> << Route(<<"/">>, FALSE, {}, 2, 3, TRUE) >>]

MCConfigs == {Nested, Rooted, Legacy, Local, Busy}

Request(method, target, body, fields, connection, authorization) ==
    [method |-> method, target |-> target, body |-> body, fields |-> fields,
     connection |-> connection, authorization |-> authorization]

Paths == {<<>>, <<"*">>, <<"/">>, <<"/", "a">>, <<"/", "a", "/">>, <<"/", "a", "b">>, <<"/", "a", "c">>,
          <<"/", "a", "/", "b">>, <<"/", "a", "/", "b", "c">>, <<"/", "a", "/", "b", "/", "c">>,
          <<"/", "/", "a">>, <<"/", "b">>, <<"/", "healthz">>, <<"/", "healthz", "/">>,
          <<"/", "readyz">>, <<"/", "metrics">>}
Common  == {<<"/">>, <<"/", "a">>, <<"/", "a", "/", "b">>, <<"/", "metrics">>, <<"/", "healthz">>}
Targets == Paths \cup {p \o <<"?", "/", "a">> : p \in Common} \cup {<<"/", "a", "#">>}

Bearer(k) == [scheme |-> "bearer", key |-> k]
Credentials == {<<>>, <<Bearer("k1")>>, <<Bearer("k2")>>, <<Bearer("wrong")>>,
                <<[scheme |-> "basic", key |-> "k1"]>>, <<Bearer("k1"), Bearer("wrong")>>}

\* Every target, method and shape; then every credential; then Connection fields
\* that name what must not cross and what must not be lost.
Shapes ==
    {Request(m, t, b, f, {}, <<>>) :
        m \in {"GET", "POST", "DELETE"}, t \in Targets, b \in BOOLEAN, f \in {{}, {"upgrade"}}}
Keys ==
    {Request("GET", t, FALSE, {"authorization"}, {}, a) : t \in Common, a \in Credentials}
Fields ==
    {Request(m, <<"/", "a", "/", "b">>, FALSE, {"authorization", "host", "x-a", "transfer-encoding"},
             c, <<Bearer("k1")>>) :
        m \in {"GET", "PUT"}, c \in SUBSET {"x-a", "host", "content-length", "close"}}

MCTraffic(c) ==
    IF c = Busy THEN {Request("GET", <<"/", "a">>, FALSE, {}, {}, <<>>)}
    ELSE Shapes \cup Keys \cup Fields
=============================================================================
