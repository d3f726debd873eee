# ApiGate: a TLA+ verification of the gateway, from its configuration to its last drained connection

ApiGate is an HTTP(S) reverse proxy in C++ on Boost.Asio and Boost.Beast. One
`io_context` thread runs everything: no locks, no atomics, but every operation
is asynchronous, every completion handler runs some time after its operation
ended, and a cancelled operation still delivers a handler. What is hard to get
right is therefore the order in which handlers, timers, cancellations, signals
and exceptions meet. That is what the modules here model and check.

## 1. Inventory

| Component (source) | State | Operations | What makes it correct |
|---|---|---|---|
| Connection server (`http_server.cpp` 113-247, 1303-1865; `http_server_internal.hpp`) | `DrainState`, `AcceptCapacityState`, set of sessions, accept / retry / drain waits, one-shot flags | start, accept, retry, begin_drain, force_stop_drain, stop, fail_runtime, remove_session | connection limit; listener never stalls; three records of the number of sessions agree; a drain is bounded, completes once and starts nothing new |
| Process (`application.cpp`, `ShutdownSignalState`) | signal wait, shutdown state, exit code, event loop | run, on_signal, on_drain_complete, on_runtime_failure | no signal lost; one signal ends the process; the exit code is truthful |
| HTTP session (`http_server.cpp` 368-1296, `downstream_transport.*`, `stream_response.hpp`) | phase, the operation under way, exchange, permits, `RequestObservation`, request count | start, read header / body, process, proxy, write, stream, TLS shutdown, drain, stop | one response per request; permits returned; never without something to wait for; ends when draining |
| Buffer budget and proxy permits (`buffer_budget.*`, `http_server.cpp` 249-320) | two shared counters, RAII permits (moved, shrunk, shared) | try_acquire, shrink_to, release | counters equal what permits hold; limits hold |
| Proxy exchange (`http_proxy.*`) | stage, operation, deadline generation, one-shot completion, connection | construct, start, one handler per stage, deadline, stream loop, cancel | session told once; each stage has its own deadline; nothing of one exchange reaches another |
| Upstream pool (`upstream_pool.*`) | idle slots with deadlines, cleanup timer, leases | take, put, expire, arm_cleanup, stop | exclusive ownership; only clean connections are lent; idle ones are closed in time |
| Health checks (`health_check.*`, `health_state.cpp`) | due times, probes in flight, thresholds | start, pump, completed, stop | places for probes are neither lost nor exceeded; no lost wake-up; every target is probed; availability follows the thresholds |
| Admission (`rate_limit.*`, `route_proxy_admission.*`) | token buckets, round-robin position | try_acquire, refill | exactly burst plus rate times time is admitted; only available slots, in turn |
| Routing, local answers, API keys, request rewriting (`http_handler.cpp`, `api_key_auth.cpp`, `http_proxy.cpp` 60-210) | immutable tables | select_http_route, handle_http_request, authenticate_api_key, make_upstream_request | the longest prefix that covers the path; no request between two functions; only what is configured reaches an upstream |
| Configuration and start (`config.cpp`, `main.cpp`, `downstream_tls.cpp`, `upstream_tls.cpp`) | the callback's memory while the routes are parsed | load_config_from_environment, parse_routes, the TLS contexts, main | refuses exactly what breaks a rule; what is accepted can be run |
| Metrics, logging | counters | render, write | |

Interactions. `Application` calls the server's interface and is called back in
the same handler when a drain completes or the server fails. The server owns
the sessions and hears of a session's end from inside that session's handler
(`on_close_`), which may arm the next accept or complete the drain. A session
owns its exchange; the exchange calls back through weak references, a streamed
response alternates between the two with `resume`. Exchanges borrow connections
from the pool as unique pointers. The budget, the proxy counter and the pool are
shared by all of them. The server stops the pool and the health checks.

The hard behaviours are listed at their lines under `hazards` in `PROJECT.json`.

## 2. Modules

| Module | Models | Uses |
|---|---|---|
| `HttpServer` | `HttpServer::Impl`; sessions by phase only | |
| `Application` | `Application::Impl`, signal set, life of `io_context::run` | EXTENDS `HttpServer`, whose actions its handlers are |
| `HttpSession` | the request cycle, budget, proxy permits; an exchange by its promise | |
| `HttpProxyExchange` | `HttpProxyExchange::Impl` | EXTENDS `ConnectionLeases`; implies `LeaseSpec` |
| `ConnectionLeases` | abstract: what the pool promises | |
| `UpstreamPool` | `UpstreamPool`, slots, deadlines, timer | implements `ConnectionLeases` by INSTANCE with a refinement mapping |
| `HealthChecks` | `HealthChecks::Impl`, `ProbeSchedule`, `UpstreamHealthState`, `Probe` | |
| `HttpHandler` | routing, local answers, API keys, the upstream's request: operators only | |
| `RouteAdmission` | token bucket, proxy permit, rotation | |
| `RequestDispatch` | `process_request`, `start_proxy_request` as the decision on a request | EXTENDS `HttpHandler`, `RouteAdmission` |
| `RoutesDocument` | the parser callback of `parse_routes` | |
| `Startup` | `main`, `load_config_from_environment`, checks of an entry, TLS contexts | EXTENDS `RoutesDocument` |
| `HttpServerProofs`, `ApplicationProofs`, `UpstreamPoolProofs`, `HttpProxyExchangeProofs`, `HttpSessionProofs`, `HealthChecksProofs`, `RequestDispatchProofs`, `StartupProofs` | theorems | EXTEND their component; `StartupProofs` covers `RoutesDocument` too, `RequestDispatchProofs` covers `HttpHandler` and `RouteAdmission` |
| `MC*` | constants for TLC | |

Conventions. An action is one completion handler, one interface call, or one
thing the kernel, the network or a client does between handlers. A pending
operation is `armed`; the kernel makes it `fired` or `failed`, a cancel makes an
armed one `aborted`, and only then may its handler run: an operation that fired
before it was cancelled keeps its result, which is where the races are.
Variables have the source's names without the trailing underscore. Definitions
under "Mutant:" comments are plausible bugs; no specification uses them, they
show that the properties can fail.

### HttpServer and Application

`phase, active_sessions` are `DrainState`; `active_connections, accept_pending,
retry_pending, paused, stopped` are `AcceptCapacityState`. `sessions` is the set
the server holds, `session_phase` what each session knows of itself. Two history
variables record faults: `fault` (an exception, a timer error, a listener that
cannot be opened) and `signal_fault`. `Finish` is `HttpSession::finish` with the
`remove_session` inside it, for one session or for all of a forced stop.
`backgroundOp` stands for the waits of the pool and of the health checks, which
matter here only as work that keeps `io_context::run` from returning.

In `Application` the handlers of the server run only while the loop runs, the
callbacks `on_drain_complete` and `on_runtime_failure` are part of the handler
that triggers them, and `RunReturns` needs the loop stopped or no work left.
`StartThrows` covers a throw on both sides of `started_ = true`: before it nothing
was armed, after it an accept may be pending, which `~Impl` stops. `HealthChecks::start`
only posts its first pump, so it fails inside `start()` only by that post throwing.

### HttpSession

A session is a record and the methods are operators on it, since they call each
other within a handler. An operation of a session that was closed stays pending
and keeps the object, its permits and, for a streamed write, the exchange alive
until its late handler has run. A request permit may be shared by a session and
a cancelled exchange (only when starting the exchange throws); `shares` is that
reference count. Bytes are scaled to one or two units; what all holders hold together is
the number of their byte tokens (`Bytes`), a cardinality rather than a recursive sum, so
that it can be reasoned about. Whether a header is legal, how
long a body is, what the route decides and how an operation ends are inputs.
`stopping_` is not a variable: whoever sets it finishes the session in the same call.

### HttpProxyExchange, ConnectionLeases, UpstreamPool

`stage` names the operation started last. `waits` holds the deadline waits whose
handler has not run; a cancelled one is dropped at once, because its handler sees the
error and returns, but one that fired stays with its generation. `told` records
the callbacks to the session. `unsettled` are connections with a request or a
response under way. A start that throws is the same as a cancel right after it.

A response is the set of its `Flaws`: what it may leave on its connection that makes
the next request on it go wrong. `reply` holds them from the header on; `Refused` is
what `on_read_header` and `start_stream` turn away, `Reusable` what `finish_response`
and `finish_stream` test. A stream's end does not look at the status and at the
Upgrade field, its header did; a buffered response is refused only for its status. Only
a response without a flaw makes its connection settled, whatever `Reusable` says, so
that `NoLeftovers` fails for every test that is left out of both places. (The status
is tested twice for a buffered response, so one of these two may go.) Without
`upstream_keep_alive` there is no `pool_` and nothing is cached.

`UpstreamPool` counts time left instead of absolute time, as only differences are compared.

### HealthChecks

A slot is a probe target. `due` is the time left until its next probe, 0 when it
has passed; `in_flight`, `active` and `cursor` are the schedule's; `probe` is the
table of probes with the stage each is in; `late` are slots whose ended probe
still has handlers to come (`done_` makes them return). `pump` repeats `take_due`
until nothing is due or every place is taken, and a probe may end inside `start()`,
in which case the nested `pump` is suppressed by `pumping_`: `Taken` says which slots
one pump starts, given the ones whose start fails. When `pump` itself throws,
`PumpThrows` keeps the results of probes that had already failed in the same loop and
leaves the handlers of those it had begun in `late`. `recent` is a history of the
results, from which `AvailabilityFollowsEvidence` tells what the state should be.

### HttpHandler, RouteAdmission, RequestDispatch

A target is a sequence of tokens cut so that prefixes of the text are prefixes of
the tokens (`/ab` is `/`, `a`, `b`: a segment that begins like another one). The
properties compare with definitions of their own: `Covering` is stated with the
ancestors of a path, `RateLimitExact` with `debt`, a history of the units that were
taken and not yet earned back, which an exact bucket would have. Units are scaled: a
second has three ticks and a word 32 values, so an unclamped product does overflow;
`BucketAssumption` is what the width relies on. `since` records for a slot which
others have been available since it was chosen last. The permit is taken before an
upstream is looked for and is given back when there is none (`Acquired`, `Released`);
that permits are conserved is a property of the sessions that hold them
(`PermitAccounting` of `HttpSession`, where a throw between taking the permit and
starting the exchange is `StartExchangeThrows`). In `RequestDispatch` one step decides one
request; `decision` remembers it for the properties. What happens after the decision
is `HttpSession` and `HttpProxyExchange`. The loop over the routes is a recursive
function, one value per turn (`LongestMatch`, `Longer`).

### RoutesDocument, Startup

The callback is told a depth and an event and keeps no stack. The parser does;
`frames` is that stack, and the events are those of any well-formed document. `flaw`
is the rule itself, read from the place of a container in the parser's stack, and
`RefusedExactlyWhenFlawed` compares the two after every event. `Startup` reads the
environment in the code's order; a variable is unset, empty, accepted by its parser or
not. The checks of an entry run on every combination of the values around each
limit, in steps of one section. The entries are not those of the document that was
just read: the callback keeps nothing for them. An exception in `Application` itself
(a listener that cannot be opened) is `AppStartThrows` of `Application`.

## 3. Runs

| Run | Instance | Distinct states |
|---|---|---|
| `server` | three session objects, limit 2, TLS, arbitrary caller | 9 823 |
| `process` | two sessions, up to three signals | 26 308 |
| `sessions` | two plain sessions, two exchange objects, budget 2, one proxy permit | 268 319 |
| `session` | one TLS session, same limits, fairness | 5 564 |
| `pool` | two slots, three connections, two backends, idle timeout of two ticks | 71 073 |
| `exchange` | one exchange at a time, a plain and a TLS backend, both response modes, a response without a flaw and one with each of the six | 403 338 |
| `two_exchanges` | two exchanges, two connections, one backend, buffered, flawless responses; symmetric | about 1.3 million |
| `health` | two targets with intervals 1 and 2, one over TLS, one place, thresholds 2; fairness | 57 023 |
| `dispatch` | five configurations, up to 326 requests each; in one a route with rate 2, burst 2 and three checked upstreams; two permits | 19 779 |
| `startup` | two routes, upstreams, key references and prefixes; numbers around every limit | 814 085 |
| `dead_connection`, `request_limit` | as `session`; violations, see section 5 | |

What they show:

* `server`: `ConnectionAccounting`, `ConnectionLimit`, `AcceptorNeverStalls` (no
  lost wake-up of the listener), `DrainIsBounded`, `DrainCompletion` (the callback
  neither early nor lost), `OnlyFaultsAreFatal` (a cancellation that a shutdown
  causes is never a failure), `NothingNewAfterDrain`.
* `process`: `SignalsReachTheServer`, `AlwaysListening`, `FailureNeedsFault`,
  `SuccessMeansDrained`, `LoopRunsOut` (after the shutdown no wait is left that was not
  cancelled: `io_context::run` returns at once and not at the drain deadline), and
  `SignalEndsProcess`.
* `sessions`, `session`: `PermitAccounting` (and an idle connection holds nothing),
  `OneResponse`, `Attended` (a session always waits for something, but for one path),
  `DrainingEnds`.
* `pool`: `ExclusiveOwnership`, `CleanupCovers`, `ImplementsLeases`, `IdleIsTemporary`.
* `exchange`: `NotifiedOnce`, `DeadlineCovers`, `NoLeftovers` (the tests of the header
  and of the end together let no flawed response's connection be cached), `TimeoutIsOwn` (a 504
  never comes from a deadline of an earlier stage), `ExchangeEnds`.
* `two_exchanges`: `OwnsItsConnection`, `LeaseSpec`: late handlers of one exchange
  never touch a connection another one uses.
* `health`: `ProbeAccounting` (three records of the probes under way agree),
  `NoLostWakeup`, `AvailabilityFollowsEvidence` (taken out and put back exactly by
  the thresholds), `EveryTargetProbed`.
* `dispatch`: `ProxiedAsConfigured`, `NoRouteFallsThrough` (the two functions that
  judge a request agree), `RateLimitExact` (neither more
  nor less than burst plus rate times time, and a Retry-After that is exact to the
  second), `FairRotation`.
* `startup`: `RefusedExactlyWhenFlawed`, `LoadedIsUsable` (what `--check-config`
  approves, no constructor refuses; keys only over TLS; https only with trust).

Of the type invariants only that of `HttpServer` is a run's property, because it is a
theorem too; the others (`AppTypeOK`, `PoolTypeOK`, `ExchangeTypeOK`,
`SessionTypeOK`, `HealthTypeOK`, `DispatchTypeOK`) are parts of the inductive
invariants of section 4.

Why the bounds are enough. The limit of two with three session objects lets
the server be empty, partly full, full, and full while a finished object lingers.
Three signals cover begin, force and ignore. Two idle slots and three connections
let the pool be full while one more is returned, and idle entries have
different deadlines. Two exchanges are enough for one to return a connection the
other borrows. The flaws are tested one by one, so one flaw at a time is enough to
see a test that is missing. Two units of budget let a second reservation fail or fit, and a
reservation shrink. `max_requests_per_connection` is 2 and the model stops one
request above it, `Exchange` bounds how many exchange objects linger.
Two targets and one place make one wait while the other is probed, and thresholds of
2 let a counter be short of its limit, reach it and saturate. Three upstreams are the
fewest for which a skipped one distinguishes the position from the last choice. Two of everything in a
document let a second object meet what the first left behind and let an allowance be
used up and exceeded. `Horizon` is past the time that fills any bucket, `MaxQueued`
allows one timer handler to wait while the next wait is armed. A model
of an unbounded number of sessions is what the theorems of section 4 are for.

Only `server` runs without the deadlock check: a server nobody calls again may
stop. `Application` has an explicit `Exited` step for the same reason.

Fairness. The event loop dispatches a queued handler at some time; a timer that
is armed expires; a cancelled operation's handler is queued; time passes. In
`HttpSession` every operation has such a deadline (5 s handshake, 10 s read and
write, 2 s shutdown), hence `WF` on its handlers, and an exchange ends by itself,
which is `ExchangeEnds`. In `HealthChecks` time passes, the timer expires, queued
pumps run, and the one deadline of a probe ends it. Nothing is assumed of clients, upstreams or the
network: in `Application` a session may stay in any phase for ever until it is
stopped, in `HttpProxyExchange` no operation ever has to end by itself.

## 4. Proofs

`HttpServerProofs` proves, for every finite set of sessions and every positive
limit, `TypeOK`, `ConnectionAccounting`, `ConnectionLimit`, `AcceptorNeverStalls`,
`DrainIsBounded`, `DrainCompletion`, `OnlyFaultsAreFatal` as invariants and the
action property `NothingNewAfterDrain`. The inductive invariant `IInv` is their
conjunction with four parts that the runs do not ask for but the induction needs:

* `QuietBeforeStart`: nothing is pending and no session exists before start();
* `RunningIsUntouched`: while running nothing was cancelled and no drain wait
  exists, otherwise `OnAcceptError` could see an aborted accept while running and the
  drain timer could be armed twice;
* `DrainOwesCallback`: a drain in progress has not given its callback, without
  which `DrainCompletion` is not preserved by the last session's end;
* `TimerErrorsAreFaults`: a timer that will report an error recorded its cause,
  without which `OnlyFaultsAreFatal` is not preserved by the handler.

Each action has a lemma; forced stopping, which five actions share, is handled
once (`ForceStopResult`, `CompletedStateInv`), and so is `DriveAccept`.
Cardinalities come from `FiniteSetTheorems` through `SessionCounts`.

`ApplicationProofs` proves `FailureNeedsFault`, with an invariant that adds the
causes a queued signal handler carries, and `SignalsReachTheServer`, `AlwaysListening`,
`SuccessMeansDrained` and `LoopRunsOut`. The process only uses the server's actions, so
its invariant holds here too (the lemma `AppImplementsServer`, by the shape of `AppNext`).
`LoopRunsOut` combines what the server leaves armed when it completes (`ServerWaitsEnd`)
with the handler that then cancels the signal wait (`SignalWaitEnds`). The others need what the code never states: that
`ShutdownSignalState` and `DrainState`, two state machines that are moved by different
handlers, agree until the shutdown is complete (`SignalsFollowPhase`), and that a
completed server in a running process was either drained after a signal or failed
(`CompletedIsExplained`). `HandlerOutcome` sums up what one handler of the server can do
to the phase; it is proved from the server's own invariant.

`UpstreamPoolProofs`: `ExclusiveOwnership` and `CleanupCovers` are inductive together
with the types (`PoolInv`), for every set of connections, every capacity, zero included,
and every timeout. The least of the deadlines that `arm_cleanup` looks for exists by
well-foundedness (`LeastExists`). `PoolImplementsLeases` maps the occupied slots to the
set `idle` and shows every step of the pool to be a step of `ConnectionLeases` or none.

`HttpProxyExchangeProofs` proves `NotifiedOnce`, `DeadlineCovers`, `OwnsItsConnection`,
`NoLeftovers`, the action property `TimeoutIsOwn` and that every step of any number of
exchanges keeps to `LeaseSpec`. The deadline generations are not bounded there. Besides
the properties the invariant says that the leases themselves are exclusive (`LeaseInv`,
also a theorem about `ConnectionLeases` alone), that an exchange which is over left
nothing behind, that only a cancel claims the completion silently, and that a wait of the
current generation belongs to the stage a live exchange is in (`WaitsAreOfTheirStage`),
without which a deadline handler that fired just before a stage ended could report a
timeout of the next one. `StreamsAreVetted` carries what `start_stream` found out to
`finish_stream`, which does not ask again; without it `NoLeftovers` is not inductive.

`HttpSessionProofs` proves `OneResponse`, `Attended` and `PermitAccounting` for any
finite sets of sessions and exchanges and all limits. `RecordOK` relates the members of
a session, `Linked` a session to its exchange (it has one just as long as nothing else
drives it on, and the exchange's state tells how far the response has come),
`ExchangeOK` and `OneShare` an exchange to the session it came from; the share in a
request permit exists only while that session writes its answer. For the accounting
every operation of a session is shown to touch only that session and its own exchanges
(`StepOf`), so that the change of a counter can be compared with the change of what the
one session holds.

`HealthChecksProofs` proves `ProbeAccounting` and `NoLostWakeup`, which are inductive
with the types once it is known that `take_due` never takes more slots than there are
places (`PlacesSuffice`), and `AvailabilityFollowsEvidence` for all thresholds. The
latter needs that the two saturating counters are the lengths of the runs in which the
results of a slot end (`CountsAreRuns`), and a lemma for each result that a handler can
record, up to two in one step.

`RequestDispatchProofs` proves all properties of the `dispatch` run, for every set of
configurations, all traffic, every rate, burst, number of upstreams and word size.
`BucketInv`: a bucket that has not been asked for a while is behind the exact bucket by
what the time since has earned (`Owes`), from which `RefilledIs` shows that each of the
branches of `refill` gives the same number and that no sum or product passes the word;
`CeilDivideIs`, applied twice, makes the Retry-After exact. `RotationInv`: what has waited
since a slot was chosen lies before that slot on the way of the search. `LongestMatchIs`
is the invariant of the loop over the routes; it is proved by a least counterexample,
as is the existence of the recursive function that stands for the loop.

`StartupProofs` proves `LoadedIsUsable`, with an invariant that says what `main` has
found out by each stage, and `RefusedExactlyWhenFlawed` for documents of any size:
`Remembered` says level by level that the flags, counters and sets the callback keeps
are those of the parser's open containers, whatever containers were closed before.

The assumptions are the named ASSUMEs of the modules, and TLC evaluates each of them:
finite sets of sessions and exchanges, positive limits and intervals, `None` no member of
the sets it completes; that a full bucket fits into a word and is full again within
`Horizon` (`BucketAssumption`); that the routes are a vector with different prefixes, none
empty (`RoutesAssumption`, `PrefixAssumption`: what `parse_routes` guarantees) and that
targets and Authorization fields are sequences (`TrafficAssumption`); that the parsers of
numbers give numbers (`NumberAssumption`); and that no field is called `""`, which the
model of the callback uses for "no name" (`NameAssumption`). The bounds `MaxQueued` and
`Horizon` are parameters of the theorems.

Only model-checked: the liveness properties (`SignalEndsProcess`, `IdleIsTemporary`,
`ExchangeEnds`, `DrainingEnds`, `EveryTargetProbed`), whose fairness and ENABLED are out
of the prover's reach. Every other property of a passing run is a theorem.

## 5. Findings

Both are in the catch block of `start_proxy_request`, and both need an exception.

* `dead_connection`: a refusal (429 or 503) whose `async_write` cannot be started
  is followed by a second `write_response`, which returns silently because the
  observation is completed. The session is left with no operation, no deadline
  and no exchange, and holds its connection until the server stops it. `Attended`
  shows that this is the only such path.
* `request_limit`: the 502 of that block does not apply the limit of 100 requests
  per connection that every other answer applies and the design document states.

## 6. Not modelled

* Metrics: the counters are increments and their rendering is text. That a request
  is observed once is part of `HttpSession`.
* Logging: formatting and output. Its exception paths end in `noexcept` fallbacks.
* The syntax of single values: host names, labels, paths, numbers, header fields and
  HTTP messages are valid or not. Certificates, their verification, ALPN and the
  digest of a key are library calls.
* `make_downstream_header`, which filters the same hop-by-hop names as the request,
  and the texts of local answers.
* The saturation of the pool's and the schedule's times at `time_point::max`, and
  errors of `cancel()` (logged only). That callbacks are noexcept is taken from their
  declarations.

## 7. Plan

1. Done: `HttpServer`, `Application` with proofs; `ConnectionLeases`,
   `UpstreamPool`, `HttpProxyExchange`; `HttpSession` with the budget.
2. Done: `HealthChecks`; `HttpHandler`, `RouteAdmission`, `RequestDispatch`;
   `RoutesDocument`, `Startup`.
3. Done: proofs of all safety and action properties of the passing runs and of both
   refinements (the pool's and the exchanges' use of `ConnectionLeases`).
4. To come: the safety parts of the liveness arguments, such as that a deadline that
   is pending only comes nearer and that the search of `take_due` passes no target twice
   before the others, and shorter proofs where lemmas repeat.
