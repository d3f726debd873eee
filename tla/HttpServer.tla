----------------------------- MODULE HttpServer -----------------------------
(***************************************************************************)
(* The connection server of ApiGate: HttpServer::Impl with the two state   *)
(* classes it drives, DrainState and AcceptCapacityState, and the part of  *)
(* HttpSession the server can see (its phase and the moment it finishes).  *)
(*                                                                         *)
(* One io_context thread runs every handler to completion, so one action   *)
(* is one completion handler or one call of the server's interface.  What  *)
(* happens between handlers is the kernel's: a pending operation becomes   *)
(* "fired", "failed" or, after a cancel, "aborted", and its handler runs   *)
(* some time later.  Logging is left out.  `fault' is a history variable:  *)
(* it records that the environment made something fail that the code may   *)
(* not survive (an exception, a timer error, a failed listener).           *)
(***************************************************************************)
EXTENDS Naturals, FiniteSets

CONSTANTS
    Session,           \* the HttpSession objects that may ever exist at once
    max_connections,   \* AppConfig::max_connections
    Tls                \* is AppConfig::downstream_tls_context set?

ASSUME SessionAssumption == IsFiniteSet(Session)
ASSUME MaxConnectionsAssumption == max_connections \in Nat \ {0}
ASSUME TlsAssumption == Tls \in BOOLEAN

VARIABLES
    \* DrainState
    phase, active_sessions,
    \* AcceptCapacityState
    active_connections, accept_pending, retry_pending, paused, stopped,
    \* HttpServer::Impl
    started, sessions, drain_completion_enabled, drain_callback_claimed, runtime_failed,
    \* the sessions themselves: phase_ and draining_
    session_phase, session_draining,
    \* the asynchronous operations that hold a handler of the server
    acceptOp, retryOp, drainOp, backgroundOp,
    fault

drainVars    == <<phase, active_sessions>>
capacityVars == <<active_connections, accept_pending, retry_pending, paused, stopped>>
claimVars    == <<drain_completion_enabled, drain_callback_claimed, runtime_failed>>
sessionVars  == <<sessions, session_phase, session_draining>>
opVars       == <<acceptOp, retryOp, drainOp, backgroundOp>>
serverVars   == <<drainVars, capacityVars, claimVars, sessionVars, opVars, started, fault>>

Phases        == {"running", "draining", "force_stopping", "completed"}
LivePhases    == {"handshaking", "reading", "proxying", "writing", "closing"}
SessionPhases == LivePhases \cup {"free", "finished"}

(***************************************************************************)
(* An asynchronous operation.  Cancelling reaches only an operation that   *)
(* is still waiting: one whose handler is already queued keeps its result. *)
(***************************************************************************)
OpStates   == {"none", "armed", "fired", "failed", "aborted"}
Queued     == {"fired", "failed", "aborted"}
Cancel(op) == IF op = "armed" THEN "aborted" ELSE op

\* Mutant: the limit is compared with > instead of >=.
NextActionOffByOne(active, accepting, retrying) ==
    CASE stopped \/ accepting \/ retrying -> "none"
      [] ~(stopped \/ accepting \/ retrying) /\ active > max_connections ->
             IF paused THEN "none" ELSE "pause"
      [] OTHER -> "start_accept"

\* Mutant: a paused listener is not resumed when the server is no longer full.
NextActionStaysPaused(active, accepting, retrying) ==
    CASE stopped \/ accepting \/ retrying \/ paused -> "none"
      [] ~(stopped \/ accepting \/ retrying \/ paused) /\ active >= max_connections -> "pause"
      [] OTHER -> "start_accept"

(***************************************************************************)
(* AcceptCapacityState::next_action, with the counters the caller has      *)
(* already updated in this handler.  "resume_and_start" differs from       *)
(* "start_accept" by a log line only.                                      *)
(***************************************************************************)
NextAction(active, accepting, retrying) ==
    CASE stopped \/ accepting \/ retrying -> "none"
      [] ~(stopped \/ accepting \/ retrying) /\ active >= max_connections ->
             IF paused THEN "none" ELSE "pause"
      [] OTHER -> "start_accept"

\* drive_accept in phase running; op is the accept operation at the call.
DriveAccept(active, accepting, retrying, op) ==
    LET action == NextAction(active, accepting, retrying) IN
    /\ accept_pending' = (accepting \/ action = "start_accept")
    /\ paused' = IF action = "start_accept" THEN FALSE ELSE paused \/ action = "pause"
    /\ acceptOp' = IF action = "start_accept" THEN "armed" ELSE op

\* stop_accepting: the pool and the health checks are stopped with the listener.
StopAccepting(accept_op, retry_op) ==
    /\ stopped' = TRUE
    /\ acceptOp' = Cancel(accept_op)
    /\ retryOp' = Cancel(retry_op)
    /\ backgroundOp' = Cancel(backgroundOp)

\* Mutant: the test of drain_completion_enabled_ is inverted.
FinishDrainSilently(reached, enabled) ==
    /\ drain_callback_claimed' = (drain_callback_claimed \/ (reached /\ ~enabled))
    /\ drain_completion_enabled' = enabled

\* finish_drain, reached (or not) at the end of a handler; its callback may
\* call back into stop(), which then only clears drain_completion_enabled_.
FinishDrain(reached, enabled) ==
    IF reached /\ enabled /\ ~drain_callback_claimed
    THEN /\ drain_callback_claimed' = TRUE
         /\ drain_completion_enabled' \in BOOLEAN
    ELSE /\ drain_callback_claimed' = drain_callback_claimed
         /\ drain_completion_enabled' = enabled

\* Mutant: finish() is not idempotent and gives the connection back twice.
FinishTwice(closing, open, connections, counted, in_phase) ==
    /\ sessions' = open \ closing
    /\ active_connections' = connections - 2 * Cardinality(closing)
    /\ active_sessions' = counted - Cardinality(closing)
    /\ phase' = IF counted = Cardinality(closing) /\ in_phase # "running"
                THEN "completed" ELSE in_phase
    /\ session_phase' = [s \in Session |-> IF s \in closing THEN "finished"
                                                            ELSE session_phase[s]]

\* Mutant: remove_session returns before it tells AcceptCapacityState.
FinishKeepsCapacity(closing, open, connections, counted, in_phase) ==
    /\ sessions' = open \ closing
    /\ active_connections' = connections
    /\ active_sessions' = counted - Cardinality(closing)
    /\ phase' = IF counted = Cardinality(closing) /\ in_phase # "running"
                THEN "completed" ELSE in_phase
    /\ session_phase' = [s \in Session |-> IF s \in closing THEN "finished"
                                                            ELSE session_phase[s]]

\* HttpSession::finish for every session of `closing', and the remove_session
\* it calls: the sessions leave the set and both counters go down once each.
Finish(closing, open, connections, counted, in_phase) ==
    /\ sessions' = open \ closing
    /\ active_connections' = connections - Cardinality(closing)
    /\ active_sessions' = counted - Cardinality(closing)
    /\ phase' = IF counted = Cardinality(closing) /\ in_phase # "running"
                THEN "completed" ELSE in_phase
    /\ session_phase' = [s \in Session |-> IF s \in closing THEN "finished"
                                                            ELSE session_phase[s]]

\* begin_force_stop, then stop_accepting, cancel_drain_timer, stop_all_sessions.
ForceStop(open, connections, counted, accept_op, retry_op, drain_op) ==
    /\ StopAccepting(accept_op, retry_op)
    /\ drainOp' = Cancel(drain_op)
    /\ Finish(open, open, connections, counted, "force_stopping")

\* fail_runtime: an operation failed or threw in a way no handler can mend.
FailRuntime(open, connections, counted, accept_op, retry_op, drain_op) ==
    /\ runtime_failed' = TRUE
    /\ drain_completion_enabled' = FALSE
    /\ ForceStop(open, connections, counted, accept_op, retry_op, drain_op)
    /\ UNCHANGED <<drain_callback_claimed, session_draining, started>>

----------------------------------------------------------------------------
Init ==
    /\ phase = "running" /\ active_sessions = 0
    /\ active_connections = 0
    /\ accept_pending = FALSE /\ retry_pending = FALSE
    /\ paused = FALSE /\ stopped = FALSE
    /\ started = FALSE /\ sessions = {}
    /\ drain_completion_enabled = FALSE
    /\ drain_callback_claimed = FALSE
    /\ runtime_failed = FALSE
    /\ session_phase = [s \in Session |-> "free"]
    /\ session_draining = {}
    /\ acceptOp = "none" /\ retryOp = "none" /\ drainOp = "none" /\ backgroundOp = "none"
    /\ fault = FALSE

----------------------------------------------------------------------------
(* The interface: start, begin_drain, force_stop_drain, stop.              *)

Start ==
    /\ ~started /\ phase = "running"
    /\ started' = TRUE
    /\ backgroundOp' = "armed"
    /\ DriveAccept(active_connections, accept_pending, retry_pending, acceptOp)
    /\ UNCHANGED <<drainVars, active_connections, retry_pending, stopped, claimVars,
                   sessionVars, retryOp, drainOp, fault>>

\* Mutant: a session in its TLS handshake is waited for.
DrainClosesReadersOnly == {s \in sessions : session_phase[s] = "reading"}

\* begin_drain_impl: idle and half-read sessions close at once, the others
\* finish what they are doing under the drain deadline.
DrainClosesNow == {s \in sessions : session_phase[s] \in {"handshaking", "reading"}}

BeginDrain ==
    /\ started /\ phase = "running"
    /\ StopAccepting(acceptOp, retryOp)
    /\ Finish(DrainClosesNow, sessions, active_connections, active_sessions, "draining")
    /\ session_draining' = session_draining \cup sessions
    /\ drainOp' = IF phase' = "draining" THEN "armed" ELSE drainOp
    /\ FinishDrain(phase' = "completed", TRUE)
    /\ UNCHANGED <<accept_pending, retry_pending, paused, runtime_failed, started, fault>>

\* The snapshot of the sessions, or arming the drain timer, throws.
BeginDrainThrows ==
    /\ started /\ phase = "running" /\ active_sessions > 0
    /\ FailRuntime(sessions, active_connections, active_sessions, acceptOp, retryOp, drainOp)
    /\ fault' = TRUE
    /\ UNCHANGED <<accept_pending, retry_pending, paused>>

ForceStopDrain ==
    /\ phase = "draining"
    /\ ForceStop(sessions, active_connections, active_sessions, acceptOp, retryOp, drainOp)
    /\ FinishDrain(phase' = "completed", drain_completion_enabled)
    /\ UNCHANGED <<accept_pending, retry_pending, paused, session_draining, started,
                   runtime_failed, fault>>

\* stop: from the destructor, or after the signal wait failed.
Stop ==
    /\ drain_completion_enabled' = FALSE
    /\ IF phase \in {"force_stopping", "completed"}
       THEN UNCHANGED <<drainVars, sessions, session_phase, active_connections, stopped, opVars>>
       ELSE ForceStop(sessions, active_connections, active_sessions, acceptOp, retryOp, drainOp)
    /\ UNCHANGED <<accept_pending, retry_pending, paused, session_draining, started,
                   drain_callback_claimed, runtime_failed>>

\* Listening throws or, once started_ is set, the log line, the first async_accept
\* or the posting of the health checks; the owner gives up and the destructor
\* calls stop().
StartThrows ==
    /\ ~started /\ phase = "running"
    /\ started' \in BOOLEAN
    /\ accept_pending' \in {FALSE, started'}
    /\ \E accept_op \in {"none"} \cup (IF accept_pending' THEN {"armed"} ELSE {}) :
          ForceStop(sessions, active_connections, active_sessions, accept_op, retryOp, drainOp)
    /\ drain_completion_enabled' = FALSE
    /\ fault' = TRUE
    /\ UNCHANGED <<retry_pending, paused, session_draining, drain_callback_claimed,
                   runtime_failed>>

----------------------------------------------------------------------------
(* The server's completion handlers.                                       *)

OnAcceptStopped ==
    /\ acceptOp \in Queued
    /\ phase # "running"
    /\ accept_pending' = FALSE
    /\ acceptOp' = "none"
    /\ UNCHANGED <<drainVars, active_connections, retry_pending, paused, stopped, claimVars,
                   sessionVars, retryOp, drainOp, backgroundOp, started, fault>>

OnAcceptError ==
    /\ acceptOp \in {"failed", "aborted"}
    /\ phase = "running"
    /\ accept_pending' = FALSE
    /\ acceptOp' = "none"
    /\ retry_pending' = TRUE
    /\ retryOp' = "armed"
    /\ UNCHANGED <<drainVars, active_connections, paused, stopped, claimVars, sessionVars,
                   drainOp, backgroundOp, started, fault>>

OnAcceptSession(s) ==
    /\ acceptOp = "fired"
    /\ phase = "running"
    /\ session_phase[s] = "free"
    /\ sessions' = sessions \cup {s}
    /\ active_connections' = active_connections + 1
    /\ active_sessions' = active_sessions + 1
    /\ session_phase' = [session_phase EXCEPT ![s] = IF Tls THEN "handshaking" ELSE "reading"]
    /\ session_draining' = session_draining \ {s}
    /\ DriveAccept(active_connections + 1, FALSE, retry_pending, "none")
    /\ UNCHANGED <<phase, retry_pending, stopped, claimVars, retryOp, drainOp, backgroundOp,
                   started, fault>>

\* on_accept throws: building or starting the session, the next async_accept,
\* or the retry wait.  `inserted' says whether the session was already counted.
OnAcceptThrows(s, inserted) ==
    /\ acceptOp \in Queued
    /\ phase = "running"
    /\ inserted => acceptOp = "fired" /\ session_phase[s] = "free"
    /\ LET n == IF inserted THEN 1 ELSE 0 IN
       FailRuntime(sessions \cup (IF inserted THEN {s} ELSE {}), active_connections + n,
                   active_sessions + n, "none", retryOp, drainOp)
    /\ accept_pending' \in {FALSE, inserted}
    /\ retry_pending' \in {retry_pending, retry_pending \/ acceptOp # "fired"}
    /\ fault' = TRUE
    /\ UNCHANGED paused

OnAcceptRetryTimer ==
    /\ retryOp \in Queued
    /\ phase = "running" => retryOp = "fired"
    /\ retry_pending' = FALSE
    /\ retryOp' = "none"
    /\ IF phase = "running"
       THEN DriveAccept(active_connections, accept_pending, FALSE, acceptOp)
       ELSE UNCHANGED <<accept_pending, paused, acceptOp>>
    /\ UNCHANGED <<drainVars, active_connections, stopped, claimVars, sessionVars, drainOp,
                   backgroundOp, started, fault>>

\* The retry wait failed (fail_accept_retry), or drive_accept threw.
OnAcceptRetryTimerFails ==
    /\ retryOp \in Queued
    /\ phase = "running"
    /\ FailRuntime(sessions, active_connections, active_sessions, acceptOp, "none", drainOp)
    /\ retry_pending' = FALSE
    /\ IF retryOp = "fired"
       THEN /\ NextAction(active_connections, accept_pending, FALSE) = "start_accept"
            /\ accept_pending' = TRUE
            /\ paused' = FALSE
            /\ fault' = TRUE
       ELSE UNCHANGED <<accept_pending, paused, fault>>

OnDrainTimerIgnored ==
    /\ drainOp \in Queued
    /\ phase # "draining"
    /\ drainOp' = "none"
    /\ UNCHANGED <<drainVars, capacityVars, claimVars, sessionVars, acceptOp, retryOp,
                   backgroundOp, started, fault>>

\* force_stop_after_timeout
OnDrainTimeout ==
    /\ drainOp = "fired"
    /\ phase = "draining"
    /\ ForceStop(sessions, active_connections, active_sessions, acceptOp, retryOp, "none")
    /\ FinishDrain(phase' = "completed", drain_completion_enabled)
    /\ UNCHANGED <<accept_pending, retry_pending, paused, session_draining, started,
                   runtime_failed, fault>>

\* Mutant: the phase is not asked before an error of the drain timer is fatal.
OnDrainTimerAnyError ==
    /\ drainOp \in {"failed", "aborted"}
    /\ FailRuntime(sessions, active_connections, active_sessions, acceptOp, retryOp, "none")
    /\ UNCHANGED <<accept_pending, retry_pending, paused, fault>>

OnDrainTimerFails ==
    /\ drainOp \in {"failed", "aborted"}
    /\ phase = "draining"
    /\ FailRuntime(sessions, active_connections, active_sessions, acceptOp, retryOp, "none")
    /\ UNCHANGED <<accept_pending, retry_pending, paused, fault>>

\* The health checks could not go on scheduling probes.
HealthCheckSchedulerFails ==
    /\ started /\ phase = "running"
    /\ FailRuntime(sessions, active_connections, active_sessions, acceptOp, retryOp, drainOp)
    /\ fault' = TRUE
    /\ UNCHANGED <<accept_pending, retry_pending, paused>>

\* The handler of a cancelled pool, health-check or probe operation.
OnBackgroundCancelled ==
    /\ backgroundOp \in Queued
    /\ backgroundOp' = "none"
    /\ UNCHANGED <<drainVars, capacityVars, claimVars, sessionVars, acceptOp, retryOp, drainOp,
                   started, fault>>

----------------------------------------------------------------------------
(* The handlers of a session, as far as the server sees them.              *)

SessionMoves(s, to) ==
    /\ session_phase' = [session_phase EXCEPT ![s] = to]
    /\ UNCHANGED <<drainVars, capacityVars, claimVars, sessions, session_draining, opVars,
                   started, fault>>

\* Mutant: the drain timer is left running when the last session ends the drain.
SessionClosesKeepsTimer(s) ==
    /\ Finish({s}, sessions, active_connections, active_sessions, phase)
    /\ IF phase = "running"
       THEN /\ DriveAccept(active_connections - 1, accept_pending, retry_pending, acceptOp)
            /\ UNCHANGED <<drain_callback_claimed, drain_completion_enabled>>
       ELSE /\ FinishDrain(phase' = "completed", drain_completion_enabled)
            /\ UNCHANGED <<accept_pending, paused, acceptOp>>
    /\ UNCHANGED <<retry_pending, stopped, runtime_failed, session_draining, retryOp, drainOp,
                   backgroundOp, started, fault>>

\* close_socket: the session finishes and remove_session runs inside it.  The
\* drive_accept at its end may throw.
SessionCloses(s) ==
    /\ Finish({s}, sessions, active_connections, active_sessions, phase)
    /\ IF phase = "running"
       THEN /\ DriveAccept(active_connections - 1, accept_pending, retry_pending, acceptOp)
            /\ UNCHANGED <<drainOp, drain_callback_claimed, drain_completion_enabled>>
       ELSE /\ drainOp' = IF phase' = "completed" /\ drain_completion_enabled
                          THEN Cancel(drainOp) ELSE drainOp
            /\ FinishDrain(phase' = "completed", drain_completion_enabled)
            /\ UNCHANGED <<accept_pending, paused, acceptOp>>
    /\ UNCHANGED <<retry_pending, stopped, runtime_failed, session_draining, retryOp,
                   backgroundOp, started, fault>>

SessionClosesAcceptThrows(s) ==
    /\ s \in sessions
    /\ phase = "running"
    /\ NextAction(active_connections - 1, accept_pending, retry_pending) = "start_accept"
    /\ FailRuntime(sessions, active_connections, active_sessions, acceptOp, retryOp, drainOp)
    /\ accept_pending' = TRUE
    /\ paused' = FALSE
    /\ fault' = TRUE
    /\ UNCHANGED retry_pending

\* graceful_close: a TLS session sends close_notify first.
GracefulClose(s) ==
    IF Tls THEN SessionMoves(s, "closing") ELSE SessionCloses(s)

OnHandshake(s) ==
    /\ session_phase[s] = "handshaking"
    /\ \/ SessionMoves(s, "reading")
       \/ SessionCloses(s)

\* on_read_header, on_read_body, process_request
OnRead(s) ==
    /\ session_phase[s] = "reading"
    /\ \/ SessionMoves(s, "proxying")
       \/ SessionMoves(s, "writing")
       \/ GracefulClose(s)
       \/ SessionCloses(s)

\* on_proxy_complete, write_stream_header, on_proxy_aborted
OnProxy(s) ==
    /\ session_phase[s] = "proxying"
    /\ \/ SessionMoves(s, "writing")
       \/ SessionCloses(s)

\* Mutant: a kept-alive session reads on without asking whether it drains.
OnWriteKeepsAlive(s) ==
    /\ session_phase[s] = "writing"
    /\ \/ SessionMoves(s, "reading")
       \/ GracefulClose(s)
       \/ SessionCloses(s)

\* on_write and on_stream_complete: the next request is read only while the
\* server is not draining.
OnWrite(s) ==
    /\ session_phase[s] = "writing"
    /\ \/ s \notin session_draining /\ SessionMoves(s, "reading")
       \/ GracefulClose(s)
       \/ SessionCloses(s)

OnTlsShutdown(s) ==
    /\ session_phase[s] = "closing"
    /\ SessionCloses(s)

\* The last handler that keeps a finished session alive returns.
SessionReleased(s) ==
    /\ session_phase[s] = "finished"
    /\ SessionMoves(s, "free")

----------------------------------------------------------------------------
(* The kernel completes a waiting operation.                               *)

AcceptCompletes ==
    /\ acceptOp = "armed"
    /\ acceptOp' \in {"fired", "failed"}
    /\ UNCHANGED <<drainVars, capacityVars, claimVars, sessionVars, retryOp, drainOp,
                   backgroundOp, started, fault>>

RetryTimerExpires ==
    /\ retryOp = "armed"
    /\ retryOp' \in {"fired", "failed"}
    /\ fault' = (fault \/ retryOp' = "failed")
    /\ UNCHANGED <<drainVars, capacityVars, claimVars, sessionVars, acceptOp, drainOp,
                   backgroundOp, started>>

DrainTimerExpires ==
    /\ drainOp = "armed"
    /\ drainOp' \in {"fired", "failed"}
    /\ fault' = (fault \/ drainOp' = "failed")
    /\ UNCHANGED <<drainVars, capacityVars, claimVars, sessionVars, acceptOp, retryOp,
                   backgroundOp, started>>

----------------------------------------------------------------------------
SessionHandler(s) ==
    \/ OnHandshake(s)
    \/ OnRead(s)
    \/ OnProxy(s)
    \/ OnWrite(s)
    \/ OnTlsShutdown(s)
    \/ SessionClosesAcceptThrows(s)
    \/ SessionReleased(s)

ServerHandler ==
    \/ OnAcceptStopped
    \/ OnAcceptError
    \/ \E s \in Session : OnAcceptSession(s)
    \/ \E s \in Session, inserted \in BOOLEAN : OnAcceptThrows(s, inserted)
    \/ OnAcceptRetryTimer
    \/ OnAcceptRetryTimerFails
    \/ OnDrainTimerIgnored
    \/ OnDrainTimeout
    \/ OnDrainTimerFails
    \/ HealthCheckSchedulerFails
    \/ OnBackgroundCancelled

Kernel ==
    \/ AcceptCompletes
    \/ RetryTimerExpires
    \/ DrainTimerExpires

Next ==
    \/ Start
    \/ StartThrows
    \/ BeginDrain
    \/ BeginDrainThrows
    \/ ForceStopDrain
    \/ Stop /\ UNCHANGED fault
    \/ ServerHandler
    \/ \E s \in Session : SessionHandler(s)
    \/ Kernel

Spec == Init /\ [][Next]_serverVars

----------------------------------------------------------------------------
(* Properties.                                                             *)

\* Every variable keeps its type; the set of sessions is a set of sessions.
TypeOK ==
    /\ phase \in Phases
    /\ active_sessions \in Nat
    /\ active_connections \in Nat
    /\ accept_pending \in BOOLEAN
    /\ retry_pending \in BOOLEAN
    /\ paused \in BOOLEAN
    /\ stopped \in BOOLEAN
    /\ started \in BOOLEAN
    /\ sessions \in SUBSET Session
    /\ drain_completion_enabled \in BOOLEAN
    /\ drain_callback_claimed \in BOOLEAN
    /\ runtime_failed \in BOOLEAN
    /\ session_phase \in [Session -> SessionPhases]
    /\ session_draining \in SUBSET Session
    /\ acceptOp \in OpStates
    /\ retryOp \in OpStates
    /\ drainOp \in OpStates
    /\ backgroundOp \in OpStates
    /\ fault \in BOOLEAN

\* The server's set holds exactly the sessions that have not finished, and
\* the two counters kept apart from it, DrainState::active_sessions_ and
\* AcceptCapacityState::active_connections_, both equal its size.  Without it
\* stop_all_sessions would not end and a drain would end early or never.
ConnectionAccounting ==
    /\ sessions = {s \in Session : session_phase[s] \in LivePhases}
    /\ active_connections = Cardinality(sessions)
    /\ active_sessions = Cardinality(sessions)

\* APIGATE_MAX_CONNECTIONS holds at every moment, an accept whose handler is
\* already queued included.
ConnectionLimit ==
    /\ Cardinality(sessions) <= max_connections
    /\ phase = "running" /\ acceptOp # "none" => Cardinality(sessions) < max_connections

\* No lost wake-up of the listener: while the server runs, the pending flags
\* match the operations that really hold a handler, never both at once, and
\* when neither is pending the server is paused because it is full.
AcceptorNeverStalls ==
    started /\ phase = "running" =>
        /\ accept_pending <=> acceptOp # "none"
        /\ retry_pending <=> retryOp # "none"
        /\ ~(accept_pending /\ retry_pending)
        /\ ~accept_pending /\ ~retry_pending =>
              paused /\ Cardinality(sessions) = max_connections

\* A drain in progress has a deadline that will be heard, at least one session
\* to wait for, and waits only for sessions that know of the drain and are
\* past reading their request.
DrainIsBounded ==
    phase = "draining" =>
        /\ drainOp \in {"armed", "fired", "failed"}
        /\ sessions # {}
        /\ sessions \subseteq session_draining
        /\ \A s \in sessions : session_phase[s] \in {"proxying", "writing", "closing"}

\* The drain callback is given only when no session is left, and it is not
\* lost: a drain that completed without a stop() has given it.  Forced
\* stopping is over when its handler is over.
DrainCompletion ==
    /\ drain_callback_claimed => phase = "completed"
    /\ phase = "completed" => sessions = {}
    /\ phase = "completed" /\ drain_completion_enabled => drain_callback_claimed
    /\ phase # "force_stopping"

\* The cancellations that a shutdown itself causes are never taken for
\* failures: fail_runtime runs only after something really failed.
OnlyFaultsAreFatal == runtime_failed => fault

\* Once the drain began nothing new starts: no session is added, no session
\* goes back to reading, and the server does not run again.
NothingNewAfterDrain ==
    [][phase # "running" =>
         /\ phase' # "running"
         /\ sessions' \subseteq sessions
         /\ \A s \in sessions' : session_phase'[s] \in {"handshaking", "reading"}
                                     => session_phase'[s] = session_phase[s]]_serverVars
=============================================================================
