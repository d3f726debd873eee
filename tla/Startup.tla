------------------------------ MODULE Startup ------------------------------
(***************************************************************************)
(* main() up to the moment the gateway runs: the command line, the         *)
(* environment, the routes (read by RoutesDocument, then checked entry by  *)
(* entry), the two TLS contexts, and the constructors that take the        *)
(* configuration on trust or refuse it.                                    *)
(*                                                                         *)
(* The environment does not change, so a variable gets its value where it  *)
(* is first read: unset, empty, or a text its parser accepts ("good") or   *)
(* does not ("bad").  Numbers that two parts of the code check are numbers. *)
(* The entries are not those of the document that was read, but any its    *)
(* checks tell apart, one section of an entry per step.                    *)
(***************************************************************************)
EXTENDS RoutesDocument, FiniteSets

CONSTANTS
    Numbers(_),          \* the values tried for a numeric field
    Prefixes             \* bounds the entries: one per prefix

ASSUME PrefixAssumption == IsFiniteSet(Prefixes)
ASSUME NumberAssumption ==
    \A field \in {"rate", "interval", "timeout", "threshold"} : Numbers(field) \subseteq Int

Classes == {"unset", "empty", "bad", "good"}

VARIABLES
    stage,               \* what main() does next
    command,
    exit,                \* "none", "success" or the category of the bootstrap error
    tls, trust,          \* the two TLS contexts exist
    proxy,               \* "none", "legacy" or "routes"
    prefixes,            \* of the entries accepted so far
    protected, https,    \* some accepted route has auth, some upstream is https
    unusable             \* some accepted route breaks what a constructor asks for

loadVars    == <<tls, trust, proxy, prefixes, protected, https, unusable>>
startupVars == <<documentVars, stage, command, exit, loadVars>>

StartupInit ==
    /\ DocumentInit
    /\ stage = "command_line" /\ command = "run" /\ exit = "none"
    /\ tls = FALSE /\ trust = FALSE /\ proxy = "none"
    /\ prefixes = {} /\ protected = FALSE /\ https = FALSE /\ unusable = FALSE

Goto(s) == stage' = s /\ UNCHANGED <<exit, command>>
Leave(e) == stage' = "exited" /\ exit' = e /\ UNCHANGED command

\* A ConfigError anywhere in load_config_from_environment
ConfigError == Leave("configuration") /\ UNCHANGED loadVars

----------------------------------------------------------------------------
(* main                                                                    *)

\* parse_command_line, and the two commands that need no configuration
CommandLine ==
    /\ stage = "command_line"
    /\ \/ /\ command' \in {"run", "check_config"}
          /\ stage' = "tls" /\ UNCHANGED exit
       \/ Leave("success")                      \* --help, --version
       \/ Leave("arguments")                    \* anything else, or more than one
    /\ UNCHANGED <<documentVars, loadVars>>

\* Application is constructed; TokenBucket and ProbeSchedule throw
\* std::invalid_argument for numbers they do not take.
Start ==
    /\ stage = "loaded"
    /\ IF command = "check_config" THEN Leave("success")
       ELSE IF unusable THEN Leave("arguments") ELSE Goto("running")
    /\ UNCHANGED <<documentVars, loadVars>>

----------------------------------------------------------------------------
(* load_config_from_environment                                            *)

\* make_downstream_tls_context: both files or none, and they load
LoadTls ==
    /\ stage = "tls"
    /\ \E certificate, key \in Classes :
          CASE "empty" \in {certificate, key} -> ConfigError
            [] {certificate, key} = {"unset"} -> Goto("settings") /\ UNCHANGED loadVars
            [] {certificate, key} = {"good"} ->
                  Goto("settings") /\ tls' = TRUE
                  /\ UNCHANGED <<trust, proxy, prefixes, protected, https, unusable>>
            [] OTHER -> ConfigError
    /\ UNCHANGED documentVars

\* The eleven variables that stand alone, each optional.
LoadSettings ==
    /\ stage = "settings"
    /\ \E worst \in Classes :
          IF worst \in {"unset", "good"} THEN Goto("upstreams") /\ UNCHANGED loadVars
          ELSE ConfigError
    /\ UNCHANGED documentVars

\* APIGATE_ROUTES with a legacy variable, empty ones included
Conflict(routes, legacy) == routes # "unset" /\ legacy # {"unset"}

\* The legacy upstream: host and port together, a timeout only with them.
LegacyUpstream(host, port, timeout) ==
    IF \/ "empty" \in {host, port, timeout}
       \/ (host = "unset") # (port = "unset")
       \/ timeout # "unset" /\ host = "unset"
       \/ "bad" \in {host, port, timeout}
    THEN ConfigError
    ELSE /\ Goto("trust")
         /\ proxy' = IF host = "unset" THEN "none" ELSE "legacy"
         /\ UNCHANGED <<tls, trust, prefixes, protected, https, unusable>>

\* A text for APIGATE_ROUTES is "bad" when it is longer than 64 KiB.
LoadUpstreams ==
    /\ stage = "upstreams"
    /\ \E routes, host, port, timeout \in Classes :
          IF Conflict(routes, {host, port, timeout}) \/ routes \in {"empty", "bad"} THEN ConfigError
          ELSE IF routes = "unset" THEN LegacyUpstream(host, port, timeout)
          ELSE /\ Goto("document") /\ proxy' = "routes"
               /\ UNCHANGED <<tls, trust, prefixes, protected, https, unusable>>
    /\ UNCHANGED documentVars

\* Json::parse goes on ...
ReadRoutes ==
    /\ stage = "document"
    /\ ReadEvent
    /\ UNCHANGED <<stage, command, exit, loadVars>>

\* ... until the callback or the parser throws, or the document is there.
EndRoutes ==
    /\ stage = "document"
    /\ \/ verdict = "refused" /\ ConfigError
       \/ verdict = "reading" /\ ConfigError              \* the text is not JSON, or no array
       \/ verdict = "read" /\ Goto("prefix") /\ UNCHANGED loadVars
    /\ ForgetDocument

----------------------------------------------------------------------------
(* The checks of one entry.  A number that is absent is Absent; one that is *)
(* no integer or negative is -1.                                            *)

Absent == -2

\* Mutant: zero is let through.
RouteIntegerFromZero(value, maximum) == value >= 0 /\ value <= maximum

RouteInteger(value, maximum) == value > 0 /\ value <= maximum

\* The lambda for an optional number of health_check
HealthNumber(value, minimum, maximum) ==
    value # Absent => RouteInteger(value, maximum) /\ value >= minimum
Default(value, default) == IF value = Absent THEN default ELSE value

\* The upstreams of an entry, how many and whether one is https: given in the
\* route itself or as a pool.
UpstreamsAccepted(u) ==
    /\ ~(u.pool /\ u.single)
    /\ u.pool => u.count \in 1 .. max_upstreams
    /\ u.pool \/ u.single
    /\ u.valid

RateLimitAccepted(l) ==
    RouteInteger(l.requests_per_second, 1000000) /\ RouteInteger(l.burst, 1000000)

HealthCheckAccepted(h) ==
    /\ h.path
    /\ HealthNumber(h.interval_ms, 100, 60000) /\ HealthNumber(h.timeout_ms, 50, 60000)
    /\ HealthNumber(h.threshold, 1, 10)
    /\ Default(h.timeout_ms, 1000) <= Default(h.interval_ms, 5000)

\* Key references: a sequence of variables, each with the key it holds or "".
AuthAccepted(a) ==
    /\ Len(a) \in 1 .. max_keys
    /\ \A k \in DOMAIN a : a[k].valid /\ a[k].key # ""
    /\ \A j, k \in DOMAIN a : j # k => a[j].name # a[k].name /\ a[j].key # a[k].key

\* What the constructors ask of a route.
TokenBucketTakes(l) == \A n \in {l.requests_per_second, l.burst} : n # 0 /\ n <= 1000000
ProbeScheduleTakes(h) ==
    LET interval == Default(h.interval_ms, 5000) IN interval >= 100 /\ interval <= 60000
AdmissionTakes(u) == u.count \in 1 .. max_upstreams
DigestsFit(a)     == Len(a) \in 1 .. max_keys

----------------------------------------------------------------------------
(* The loop over the entries.                                              *)

Optional(S) == {{}} \cup {{x} : x \in S}

UpstreamShapes ==
    {u \in [pool : BOOLEAN, single : BOOLEAN, count : {0, 1, max_upstreams, max_upstreams + 1},
            https : BOOLEAN, valid : BOOLEAN] : u.single /\ ~u.pool => u.count = 1}
RateLimitShapes == [requests_per_second : Numbers("rate"), burst : Numbers("rate")]
HealthCheckShapes ==
    [path : BOOLEAN, interval_ms : Numbers("interval"), timeout_ms : Numbers("timeout"),
     threshold : Numbers("threshold")]
Reference  == [name : {"r1", "r2"}, valid : BOOLEAN, key : {"", "k1", "k2"}]
AuthShapes == UNION {[1 .. n -> Reference] : n \in 0 .. 2}
                  \cup {[k \in 1 .. max_keys + 1 |-> [name |-> "r1", valid |-> TRUE, key |-> "k1"]]}

\* An object with a prefix, known fields, and Booleans where they belong
CheckPrefix ==
    /\ stage = "prefix"
    /\ \/ /\ \E prefix \in Prefixes \ prefixes : prefixes' = prefixes \cup {prefix}
          /\ Goto("pool")
          /\ UNCHANGED <<tls, trust, proxy, protected, https, unusable>>
       \/ ConfigError
    /\ UNCHANGED documentVars

CheckUpstreams ==
    /\ stage = "pool"
    /\ \E u \in UpstreamShapes :
          IF UpstreamsAccepted(u)
          THEN /\ Goto("rate_limit")
               /\ https' = (https \/ u.https) /\ unusable' = (unusable \/ ~AdmissionTakes(u))
               /\ UNCHANGED <<tls, trust, proxy, prefixes, protected>>
          ELSE ConfigError
    /\ UNCHANGED documentVars

CheckRateLimit ==
    /\ stage = "rate_limit"
    /\ \E limit \in Optional(RateLimitShapes) :
          IF \A l \in limit : RateLimitAccepted(l)
          THEN /\ Goto("health_check")
               /\ unusable' = (unusable \/ \E l \in limit : ~TokenBucketTakes(l))
               /\ UNCHANGED <<tls, trust, proxy, prefixes, protected, https>>
          ELSE ConfigError
    /\ UNCHANGED documentVars

CheckHealthCheck ==
    /\ stage = "health_check"
    /\ \E health \in Optional(HealthCheckShapes) :
          IF \A h \in health : HealthCheckAccepted(h)
          THEN /\ Goto("auth")
               /\ unusable' = (unusable \/ \E h \in health : ~ProbeScheduleTakes(h))
               /\ UNCHANGED <<tls, trust, proxy, prefixes, protected, https>>
          ELSE ConfigError
    /\ UNCHANGED documentVars

\* The last section: another entry follows, or the document ends.
CheckAuth ==
    /\ stage = "auth"
    /\ \E auth \in Optional(AuthShapes) :
          IF \A a \in auth : AuthAccepted(a)
          THEN /\ Goto("prefix") \/ Goto("routes")
               /\ protected' = (protected \/ auth # {})
               /\ unusable' = (unusable \/ \E a \in auth : ~DigestsFit(a))
               /\ UNCHANGED <<tls, trust, proxy, prefixes, https>>
          ELSE ConfigError
    /\ UNCHANGED documentVars

\* Protected routes need downstream TLS.
AcceptRoutes ==
    /\ stage = "routes"
    /\ IF protected /\ ~tls THEN ConfigError ELSE Goto("trust") /\ UNCHANGED loadVars
    /\ UNCHANGED documentVars

\* make_upstream_tls_context: a CA file, or for https a bundle of the system
LoadTrust ==
    /\ stage = "trust"
    /\ \E ca \in Classes :
          CASE ca = "unset" /\ ~https -> Goto("loaded") /\ UNCHANGED loadVars
            [] ca = "good" \/ (ca = "unset" /\ https) ->
                  \/ /\ Goto("loaded") /\ trust' = TRUE
                     /\ UNCHANGED <<tls, proxy, prefixes, protected, https, unusable>>
                  \/ ConfigError
            [] ca \in {"empty", "bad"} -> ConfigError
    /\ UNCHANGED documentVars

\* A process that runs or has ended stays so, as far as this module goes.
Over == stage \in {"running", "exited"} /\ UNCHANGED startupVars

StartupNext ==
    \/ CommandLine \/ LoadTls \/ LoadSettings \/ LoadUpstreams
    \/ ReadRoutes \/ EndRoutes
    \/ CheckPrefix \/ CheckUpstreams \/ CheckRateLimit \/ CheckHealthCheck \/ CheckAuth
    \/ AcceptRoutes \/ LoadTrust \/ Start \/ Over

StartupSpec == StartupInit /\ [][StartupNext]_startupVars

----------------------------------------------------------------------------
(* Property.                                                               *)

\* What the loader accepts, the rest of the program can use, so --check-config
\* tells the truth: no constructor refuses the configuration, keys are only
\* asked for over TLS, https upstreams have a trust store, and routes and the
\* legacy upstream exclude each other.  Only the command line is ever blamed
\* for its arguments.
LoadedIsUsable ==
    /\ stage \in {"loaded", "running"} =>
         /\ ~unusable
         /\ protected => tls
         /\ https => trust
         /\ proxy = "routes" <=> prefixes # {}
    /\ exit = "arguments" => ~tls /\ proxy = "none"
=============================================================================
