---------------------------- MODULE HealthChecks ----------------------------
(***************************************************************************)
(* Active health checks: ProbeSchedule picks the slots that are due,       *)
(* HealthChecks::Impl runs at most max_in_flight probes and one timer      *)
(* between them, UpstreamHealthState turns results into availability.      *)
(*                                                                         *)
(* A slot is one probe target (a route's upstream).  Time is kept as the   *)
(* time left, and a due time that has passed stays at 0.  A handler that   *)
(* pumps is one action: which of the due slots it starts, and in which     *)
(* order, follows from the cursor and the free places.                     *)
(***************************************************************************)
EXTENDS Integers, Sequences, FiniteSets

CONSTANTS
    slot_count,                     \* targets_.size()
    interval,                       \* slot -> ticks between two probes
    https,                          \* the slots probed over TLS
    max_in_flight,
    unhealthy_threshold, healthy_threshold,
    MaxQueued                       \* bounds the timer handlers that wait to run

Slots == 0 .. slot_count - 1

ASSUME ScheduleAssumption ==
    /\ slot_count \in Nat \ {0} /\ max_in_flight \in Nat \ {0}
    /\ interval \in [Slots -> Nat \ {0}] /\ https \subseteq Slots
ASSUME ThresholdAssumption ==
    unhealthy_threshold \in Nat \ {0} /\ healthy_threshold \in Nat \ {0} /\ MaxQueued \in Nat \ {0}

VARIABLES
    due, in_flight, cursor, active,      \* ProbeSchedule; in_flight as a set
    started, stopped,                    \* HealthChecks::Impl
    probe,                               \* probes_: the stage of each slot's probe
    late,                                \* slots with an ended probe that still has handlers
    posted,                              \* the first pump() waits to run
    timer, timer_left, fired, failed,    \* the timer, and ended waits not yet handled
    slot,                                \* UpstreamHealthState
    recent,                              \* history: the last results of each slot
    reported                             \* history: on_failure_ was called

scheduleVars == <<due, in_flight, cursor, active>>
timerVars    == <<posted, timer, timer_left, fired, failed>>
healthVars   == <<scheduleVars, started, stopped, probe, late, timerVars, slot, recent, reported>>

Stages == {"resolve", "connect", "handshake", "write", "read"}

HealthInit ==
    /\ due = [i \in Slots |-> 0]
    /\ in_flight = {} /\ cursor = 0 /\ active = 0
    /\ started = FALSE /\ stopped = FALSE
    /\ probe = [i \in Slots |-> "none"]
    /\ late = {}
    /\ posted = FALSE /\ timer = "none" /\ timer_left = 0 /\ fired = 0 /\ failed = FALSE
    /\ slot = [i \in Slots |-> [healthy |-> TRUE, failures |-> 0, successes |-> 0]]
    /\ recent = [i \in Slots |-> <<>>]
    /\ reported = FALSE

----------------------------------------------------------------------------
(* UpstreamHealthState.                                                    *)

Lesser(a, b) == IF a <= b THEN a ELSE b

\* Mutant: a success does not clear the failures.
RecordKeepsFailures(s, success) ==
    IF success
    THEN LET n == Lesser(s.successes + 1, healthy_threshold) IN
         [s EXCEPT !.successes = n, !.healthy = @ \/ n = healthy_threshold]
    ELSE LET n == Lesser(s.failures + 1, unhealthy_threshold) IN
         [healthy |-> s.healthy /\ n # unhealthy_threshold, failures |-> n, successes |-> 0]

\* record: the slot after one more result.
Record(s, success) ==
    IF success
    THEN LET n == Lesser(s.successes + 1, healthy_threshold) IN
         [healthy |-> s.healthy \/ n = healthy_threshold, failures |-> 0, successes |-> n]
    ELSE LET n == Lesser(s.failures + 1, unhealthy_threshold) IN
         [healthy |-> s.healthy /\ n # unhealthy_threshold, failures |-> n, successes |-> 0]

\* The last results: as many as a threshold may ask for, and one more, as one
\* handler may record two (a completion, then a new probe that fails at once).
Memory == 1 + (IF unhealthy_threshold > healthy_threshold THEN unhealthy_threshold
               ELSE healthy_threshold)
Remember(results, success) ==
    LET all == Append(results, success) IN
    IF Len(all) > Memory THEN Tail(all) ELSE all

----------------------------------------------------------------------------
(* ProbeSchedule, on the in-flight slots `flying' a handler has arrived at. *)

\* take_due looks at the slots in this order.
Distance(i) == (i - cursor) % slot_count

\* Mutant: active_ may exceed max_in_flight by one.
TakenOneMore(flying, count, throwing) ==
    LET waiting == {i \in Slots \ flying : due[i] = 0}
        before(i) == {j \in waiting \ throwing : Distance(j) < Distance(i)} IN
    {i \in waiting : count + Cardinality(before(i)) <= max_in_flight}

\* take_due again and again, while the probes of `throwing' end inside start():
\* they free their place at once.
Taken(flying, count, throwing) ==
    LET waiting == {i \in Slots \ flying : due[i] = 0}
        before(i) == {j \in waiting \ throwing : Distance(j) < Distance(i)} IN
    {i \in waiting : count + Cardinality(before(i)) < max_in_flight}

\* Mutant: the search always begins at the first slot.
CursorAfterFixed(taken) == 0

\* One past the slot that was taken last; a search that finds none comes back.
CursorAfter(taken) ==
    IF taken = {} THEN cursor
    ELSE LET last == CHOOSE i \in taken : \A j \in taken : Distance(j) <= Distance(i) IN
         (last + 1) % slot_count

\* next_due, when there is one.
HasNextDue(flying, count) == count # max_in_flight /\ flying # Slots
NextDue(flying, left) ==
    LET times == {left[i] : i \in Slots \ flying} IN CHOOSE t \in times : \A u \in times : t <= u

----------------------------------------------------------------------------
(* HealthChecks::Impl.                                                     *)

\* expires_at cancels the wait under way, unless it has already ended.
ArmTimer(flying, count, left) ==
    IF HasNextDue(flying, count)
    THEN timer' = "armed" /\ timer_left' = NextDue(flying, left)
    ELSE UNCHANGED <<timer, timer_left>>

\* pump, called with `flying' and `count' of the schedule, the probes `running'
\* and the health state `health' with its history.
Pump(flying, count, running, health, results) ==
    \E throwing \in SUBSET Slots :
        LET taken == Taken(flying, count, throwing)
            up    == taken \ throwing
            left  == [i \in Slots |-> IF i \in taken THEN interval[i] ELSE due[i]] IN
        /\ throwing \subseteq taken
        /\ in_flight' = flying \cup up
        /\ active' = count + Cardinality(up)
        /\ due' = left
        /\ cursor' = CursorAfter(taken)
        /\ probe' = [i \in Slots |-> IF i \in up THEN "resolve" ELSE running[i]]
        /\ slot' = [i \in Slots |-> IF i \in throwing THEN Record(health[i], FALSE) ELSE health[i]]
        /\ recent' = [i \in Slots |->
                        IF i \in throwing THEN Remember(results[i], FALSE) ELSE results[i]]
        /\ ArmTimer(flying \cup up, count + Cardinality(up), left)
        /\ UNCHANGED <<started, stopped, reported>>

\* stop: schedule_.stop, the timer and every probe cancelled.
StopChecks(cancelled) ==
    /\ stopped' = TRUE
    /\ in_flight' = {} /\ active' = 0
    /\ timer' = "none"
    /\ probe' = [i \in Slots |-> "none"]
    /\ late' = late \cup cancelled
    /\ UNCHANGED <<due, cursor, started, timer_left>>

Running == {i \in Slots : probe[i] # "none"}

\* failed, before a stop
Fail(cancelled) == StopChecks(cancelled) /\ reported' = TRUE

\* The catch block of pump(): making a probe or arming the timer throws, after the
\* loop came so far as `begun'.  Of these, the ones of `throwing' ended inside
\* start() and their results stay; the stop undoes the rest, and due times no
\* longer matter.
PumpThrows(flying, count, health, results) ==
    \E throwing \in SUBSET Slots, reach \in 0..slot_count :
        LET begun == {i \in Taken(flying, count, throwing) : Distance(i) < reach} IN
        /\ throwing \subseteq begun
        /\ slot' = [i \in Slots |-> IF i \in throwing THEN Record(health[i], FALSE) ELSE health[i]]
        /\ recent' = [i \in Slots |->
                        IF i \in throwing THEN Remember(results[i], FALSE) ELSE results[i]]
        /\ Fail(Running \cup (begun \ throwing))

\* start, called by the server once it listens
StartChecks ==
    /\ ~started /\ ~stopped
    /\ started' = TRUE /\ posted' = TRUE
    /\ UNCHANGED <<scheduleVars, stopped, probe, late, timer, timer_left, fired, failed, slot,
                   recent, reported>>

Stop ==
    /\ ~stopped
    /\ StopChecks(Running)
    /\ UNCHANGED <<posted, fired, failed, slot, recent, reported>>

\* A handler of the timer, or the posted one, has come to its turn.
Dispatch ==
    \/ posted /\ posted' = FALSE /\ UNCHANGED <<fired, failed>>
    \/ fired > 0 /\ fired' = fired - 1 /\ UNCHANGED <<posted, failed>>

OnPump ==
    /\ ~stopped
    /\ Dispatch
    /\ Pump(in_flight, active, probe, slot, recent)
    /\ UNCHANGED late

OnPumpThrows ==
    /\ ~stopped
    /\ Dispatch
    /\ PumpThrows(in_flight, active, slot, recent)

OnTimerFails ==
    /\ ~stopped /\ failed
    /\ failed' = FALSE
    /\ Fail(Running)
    /\ UNCHANGED <<posted, fired, slot, recent>>

OnStopped ==
    /\ stopped
    /\ \/ Dispatch
       \/ failed /\ failed' = FALSE /\ UNCHANGED <<posted, fired>>
    /\ UNCHANGED <<scheduleVars, started, stopped, probe, late, timer, timer_left, slot, recent,
                   reported>>

----------------------------------------------------------------------------
(* Probe, and completed() which its finish() calls.                        *)

\* The handler of the operation under way, without an error: the next one starts.
NextStage(i) ==
    CASE probe[i] = "resolve"   -> "connect"
      [] probe[i] = "connect"   -> IF i \in https THEN "handshake" ELSE "write"
      [] probe[i] = "handshake" -> "write"
      [] probe[i] = "write"     -> "read"

ProbeAdvances(i) ==
    /\ probe[i] \in Stages \ {"read"}
    /\ probe' = [probe EXCEPT ![i] = NextStage(i)]
    /\ UNCHANGED <<scheduleVars, started, stopped, late, timerVars, slot, recent, reported>>

\* Mutant: completed() leaves the next probe to the timer.
CompletedWithoutPump(i, success) ==
    /\ in_flight' = in_flight \ {i} /\ active' = active - 1
    /\ probe' = [probe EXCEPT ![i] = "none"]
    /\ slot' = [slot EXCEPT ![i] = Record(@, success)]
    /\ recent' = [recent EXCEPT ![i] = Remember(@, success)]
    /\ UNCHANGED <<due, cursor, timer, timer_left, started, stopped, reported>>

\* completed: the place is free, the result recorded, and pump() looks again.
Completed(i, success) ==
    LET flies == i \in in_flight IN
    Pump(in_flight \ {i}, IF flies THEN active - 1 ELSE active,
         [probe EXCEPT ![i] = "none"],
         [slot EXCEPT ![i] = Record(@, success)],
         [recent EXCEPT ![i] = Remember(@, success)])

\* The pump() inside completed() meets the exception.
CompletedThrows(i, success) ==
    LET flies == i \in in_flight IN
    PumpThrows(in_flight \ {i}, IF flies THEN active - 1 ELSE active,
               [slot EXCEPT ![i] = Record(@, success)],
               [recent EXCEPT ![i] = Remember(@, success)])

\* The response's status decides ...
ProbeAnswered(i) ==
    /\ probe[i] = "read"
    /\ \E success \in BOOLEAN : Completed(i, success)
    /\ late' = late \cup {i}
    /\ UNCHANGED <<posted, fired, failed>>

\* ... and until then the one deadline of all stages, an operation's error or an
\* exception ends the probe as a failure.
ProbeFails(i) ==
    /\ probe[i] \in Stages
    /\ Completed(i, FALSE)
    /\ late' = late \cup {i}
    /\ UNCHANGED <<posted, fired, failed>>

ProbeEndsInFailure(i) ==
    /\ probe[i] \in Stages
    /\ \E success \in {FALSE, probe[i] = "read"} : CompletedThrows(i, success)
    /\ UNCHANGED <<posted, fired, failed>>

\* A handler of a probe that has finished or was cancelled: done_ is set.
LateProbe(i) ==
    /\ i \in late
    /\ late' = late \ {i}
    /\ UNCHANGED <<scheduleVars, started, stopped, probe, timerVars, slot, recent, reported>>

----------------------------------------------------------------------------
(* Time and the kernel.                                                    *)

Down(t) == IF t = 0 THEN 0 ELSE t - 1

Tick ==
    /\ due' = [i \in Slots |-> Down(due[i])]
    /\ timer_left' = Down(timer_left)
    /\ UNCHANGED <<in_flight, cursor, active, started, stopped, probe, late, posted, timer, fired,
                   failed, slot, recent, reported>>

TimerExpires ==
    /\ timer = "armed" /\ timer_left = 0
    /\ fired < MaxQueued
    /\ timer' = "none" /\ fired' = fired + 1
    /\ UNCHANGED <<scheduleVars, started, stopped, probe, late, posted, timer_left, failed, slot,
                   recent, reported>>

TimerErrs ==
    /\ timer = "armed"
    /\ timer' = "none" /\ failed' = TRUE
    /\ UNCHANGED <<scheduleVars, started, stopped, probe, late, posted, timer_left, fired, slot,
                   recent, reported>>

ProbeSteps(i) ==
    ProbeAdvances(i) \/ ProbeAnswered(i) \/ ProbeFails(i) \/ ProbeEndsInFailure(i) \/ LateProbe(i)

HealthNext ==
    \/ StartChecks \/ Stop
    \/ OnPump \/ OnPumpThrows \/ OnTimerFails \/ OnStopped
    \/ \E i \in Slots : ProbeSteps(i)
    \/ Tick \/ TimerExpires \/ TimerErrs

HealthSafety == HealthInit /\ [][HealthNext]_healthVars

\* Time passes, a queued handler is dispatched, a wait that is over is noticed,
\* and a probe's deadline ends it.  Upstreams owe nothing.
HealthFairness ==
    /\ WF_healthVars(Tick) /\ WF_healthVars(TimerExpires)
    /\ WF_healthVars(OnPump \/ OnPumpThrows) /\ WF_healthVars(OnTimerFails)
    /\ \A i \in Slots : WF_healthVars(ProbeFails(i) \/ ProbeEndsInFailure(i))

HealthSpec == HealthSafety /\ HealthFairness

----------------------------------------------------------------------------
(* Properties.                                                             *)

\* Every variable keeps its type; in particular the cursor is a slot.
HealthTypeOK ==
    /\ due \in [Slots -> Nat] /\ in_flight \subseteq Slots /\ cursor \in Slots /\ active \in Nat
    /\ started \in BOOLEAN /\ stopped \in BOOLEAN
    /\ probe \in [Slots -> Stages \cup {"none"}] /\ late \subseteq Slots
    /\ posted \in BOOLEAN /\ timer \in {"none", "armed"} /\ timer_left \in Nat
    /\ fired \in Nat /\ failed \in BOOLEAN
    /\ slot \in [Slots -> [healthy : BOOLEAN, failures : Nat, successes : Nat]]
    /\ recent \in [Slots -> Seq(BOOLEAN)]
    /\ reported \in BOOLEAN

\* The three records of the probes under way agree, whatever handlers of earlier
\* probes are still to come, and there are at most max_in_flight of them; a
\* stopped scheduler has none.
ProbeAccounting ==
    /\ active = Cardinality(in_flight) /\ active <= max_in_flight
    /\ in_flight = {i \in Slots : probe[i] # "none"}
    /\ stopped => in_flight = {} /\ timer = "none"

\* A handler of the scheduler is queued or its wait has ended.
Alerted == posted \/ fired > 0 \/ failed

\* No lost wake-up: whenever a slot waits for its next probe, something will
\* call pump() by then: a queued handler, the timer no later than the slot is
\* due, or, with every place taken, the end of a probe.
NoLostWakeup ==
    started /\ ~stopped =>
        \A i \in Slots \ in_flight :
            \/ Alerted
            \/ timer = "armed" /\ timer_left <= due[i]
            \/ active = max_in_flight

LastAre(results, n, value) ==
    Len(results) >= n /\ \A k \in Len(results) - n + 1 .. Len(results) : results[k] = value
WithoutLast(results) == IF results = <<>> THEN <<>> ELSE SubSeq(results, 1, Len(results) - 1)

\* What the results say of an upstream that was `before'.
Verdict(before, results) ==
    IF LastAre(results, unhealthy_threshold, FALSE) THEN FALSE
    ELSE LastAre(results, healthy_threshold, TRUE) \/ before

\* An upstream is taken out exactly by unhealthy_threshold failures in a row and
\* put back exactly by healthy_threshold successes in a row, whatever the order
\* of the results, however often a counter has reached its limit, and although
\* one handler may record two results of an upstream.
AvailabilityFollowsEvidence ==
    [][\A i \in Slots :
          slot'[i].healthy =
              Verdict(Verdict(slot[i].healthy, WithoutLast(recent'[i])), recent'[i])]_healthVars

\* A slot that is due is probed (which sets its next due time) or the scheduler
\* stops, although the places are fewer than the slots, all of them may be
\* overdue and a probe may fail before it is under way.
EveryTargetProbed == \A i \in Slots : started /\ due[i] = 0 ~> due[i] > 0 \/ stopped
=============================================================================
