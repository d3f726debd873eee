-------------------------- MODULE HttpServerProofs --------------------------
(***************************************************************************)
(* The safety properties of HttpServer for every set of sessions and every *)
(* connection limit.  They are proved together: each conjunct of the       *)
(* inductive invariant needs the others.                                   *)
(***************************************************************************)
EXTENDS HttpServer, FiniteSetTheorems, TLAPS

\* Before start() nothing is pending and nobody is connected.
QuietBeforeStart ==
    ~started /\ phase = "running" =>
        /\ acceptOp = "none" /\ retryOp = "none"
        /\ ~accept_pending /\ ~retry_pending
        /\ sessions = {}

\* While the server runs nothing was cancelled and no shutdown path was taken.
RunningIsUntouched ==
    phase = "running" =>
        /\ ~stopped /\ ~drain_callback_claimed
        /\ drainOp = "none" /\ acceptOp # "aborted" /\ retryOp # "aborted"

\* A drain in progress still owes its callback.
DrainOwesCallback ==
    phase = "draining" => drain_completion_enabled /\ ~drain_callback_claimed

\* A timer handler that will report an error has recorded its cause.
TimerErrorsAreFaults ==
    /\ retryOp = "failed" => fault
    /\ drainOp = "failed" => fault

IInv ==
    /\ TypeOK
    /\ ConnectionAccounting
    /\ ConnectionLimit
    /\ AcceptorNeverStalls
    /\ DrainIsBounded
    /\ DrainCompletion
    /\ OnlyFaultsAreFatal
    /\ QuietBeforeStart
    /\ RunningIsUntouched
    /\ DrainOwesCallback
    /\ TimerErrorsAreFaults

----------------------------------------------------------------------------
(* What the helpers do.                                                    *)

\* Sessions are finitely many, so their counts are natural numbers and
\* removing a part of them subtracts its size.
LEMMA SessionCounts ==
    ASSUME NEW S \in SUBSET Session
    PROVE  /\ Cardinality(S) \in Nat
           /\ Cardinality(S) = 0 <=> S = {}
           /\ \A T \in SUBSET S : /\ Cardinality(T) \in Nat
                                  /\ Cardinality(T) <= Cardinality(S)
                                  /\ Cardinality(S) = Cardinality(T) => S = T
                                  /\ Cardinality(S \ T) = Cardinality(S) - Cardinality(T)
           /\ \A x : x \notin S => Cardinality(S \cup {x}) = Cardinality(S) + 1
           /\ \A x : Cardinality({x}) = 1
<1>1. IsFiniteSet(S)
  BY SessionAssumption, FS_Subset
<1>2. Cardinality(S) \in Nat
  BY <1>1, FS_CardinalityType
<1>3. Cardinality(S) = 0 <=> S = {}
  BY <1>1, FS_EmptySet
<1>4. ASSUME NEW T \in SUBSET S
      PROVE  /\ Cardinality(T) \in Nat
             /\ Cardinality(T) <= Cardinality(S)
             /\ Cardinality(S) = Cardinality(T) => S = T
             /\ Cardinality(S \ T) = Cardinality(S) - Cardinality(T)
  <2>1. IsFiniteSet(T) /\ Cardinality(T) <= Cardinality(S)
        /\ (Cardinality(S) = Cardinality(T) => S = T)
    BY <1>1, FS_Subset
  <2>2. Cardinality(T) \in Nat
    BY <2>1, FS_CardinalityType
  <2>3. S \cap T = T
    OBVIOUS
  <2>4. Cardinality(S \ T) = Cardinality(S) - Cardinality(S \cap T)
    BY <1>1, FS_Difference
  <2> QED
    BY <2>1, <2>2, <2>3, <2>4
<1>5. \A x : x \notin S => Cardinality(S \cup {x}) = Cardinality(S) + 1
  BY <1>1, FS_AddElement
<1>6. \A x : Cardinality({x}) = 1
  BY FS_Singleton
<1> QED
  BY <1>2, <1>3, <1>4, <1>5, <1>6

\* stop_all_sessions ends with no session, and the phase with it.
LEMMA ForceStopResult ==
    ASSUME TypeOK, NEW open \in SUBSET Session,
           NEW accept_op \in OpStates, NEW retry_op \in OpStates, NEW drain_op \in OpStates,
           NEW n, n = Cardinality(open),
           \A s \in Session : session_phase[s] \in LivePhases => s \in open,
           ForceStop(open, n, n, accept_op, retry_op, drain_op)
    PROVE  /\ phase' = "completed" /\ sessions' = {}
           /\ active_connections' = 0 /\ active_sessions' = 0
           /\ session_phase' \in [Session -> SessionPhases]
           /\ \A s \in Session : session_phase'[s] \notin LivePhases
           /\ stopped' = TRUE
           /\ acceptOp' \in OpStates /\ retryOp' \in OpStates
           /\ drainOp' \in OpStates /\ backgroundOp' \in OpStates
           /\ retryOp' = "failed" => retry_op = "failed"
           /\ drainOp' = "failed" => drain_op = "failed"
<1>1. n \in Nat
  BY SessionCounts
<1>2. phase' = "completed" /\ sessions' = {} /\ active_connections' = 0 /\ active_sessions' = 0
  BY <1>1 DEF ForceStop, Finish
<1>3. /\ session_phase' \in [Session -> SessionPhases]
      /\ \A s \in Session : session_phase'[s] \notin LivePhases
  BY DEF ForceStop, Finish, TypeOK, SessionPhases, LivePhases
<1>4. /\ stopped' = TRUE
      /\ acceptOp' \in OpStates /\ retryOp' \in OpStates
      /\ drainOp' \in OpStates /\ backgroundOp' \in OpStates
      /\ retryOp' = "failed" => retry_op = "failed"
      /\ drainOp' = "failed" => drain_op = "failed"
  BY DEF ForceStop, StopAccepting, Cancel, OpStates, TypeOK
<1> QED
  BY <1>2, <1>3, <1>4

\* A server without sessions, phase completed, satisfies the invariant.
LEMMA CompletedStateInv ==
    ASSUME TypeOK', phase' = "completed", sessions' = {},
           active_connections' = 0, active_sessions' = 0,
           \A s \in Session : session_phase'[s] \notin LivePhases,
           drain_completion_enabled' => drain_callback_claimed',
           OnlyFaultsAreFatal', TimerErrorsAreFaults'
    PROVE  IInv'
<1>1. Cardinality({}) = 0
  BY FS_EmptySet
<1>2. ConnectionAccounting' /\ ConnectionLimit'
  BY <1>1, MaxConnectionsAssumption DEF ConnectionAccounting, ConnectionLimit
<1>3. AcceptorNeverStalls' /\ DrainIsBounded' /\ DrainCompletion'
  BY DEF AcceptorNeverStalls, DrainIsBounded, DrainCompletion
<1>4. QuietBeforeStart' /\ RunningIsUntouched' /\ DrainOwesCallback'
  BY DEF QuietBeforeStart, RunningIsUntouched, DrainOwesCallback
<1> QED
  BY <1>2, <1>3, <1>4 DEF IInv

\* fail_runtime in a state the invariant describes: `open' is the set of
\* sessions at the call, which are the live ones and at most one just added.
LEMMA FailRuntimeInv ==
    ASSUME IInv, NEW open \in SUBSET Session,
           NEW accept_op \in OpStates, NEW retry_op \in OpStates, NEW drain_op \in OpStates,
           NEW n, n = Cardinality(open), sessions \subseteq open,
           FailRuntime(open, n, n, accept_op, retry_op, drain_op),
           accept_pending' \in BOOLEAN, retry_pending' \in BOOLEAN, paused' \in BOOLEAN,
           fault' = TRUE
    PROVE  IInv'
<1>1. /\ phase' = "completed" /\ sessions' = {}
      /\ active_connections' = 0 /\ active_sessions' = 0
      /\ session_phase' \in [Session -> SessionPhases]
      /\ \A s \in Session : session_phase'[s] \notin LivePhases
      /\ stopped' = TRUE
      /\ acceptOp' \in OpStates /\ retryOp' \in OpStates
      /\ drainOp' \in OpStates /\ backgroundOp' \in OpStates
  <2>1. \A s \in Session : session_phase[s] \in LivePhases => s \in open
    BY DEF IInv, ConnectionAccounting
  <2>2. ForceStop(open, n, n, accept_op, retry_op, drain_op)
    BY DEF FailRuntime
  <2> QED
    BY <2>1, <2>2, ForceStopResult DEF IInv
<1>2. TypeOK'
  BY <1>1 DEF TypeOK, IInv, FailRuntime, Phases
<1>3. OnlyFaultsAreFatal' /\ TimerErrorsAreFaults'
  BY DEF OnlyFaultsAreFatal, TimerErrorsAreFaults
<1>4. drain_completion_enabled' => drain_callback_claimed'
  BY DEF FailRuntime
<1> QED
  BY <1>1, <1>2, <1>3, <1>4, CompletedStateInv

\* The same for the calls that pass the server's own counters.
LEMMA FailRuntimeHereInv ==
    ASSUME IInv,
           NEW accept_op \in OpStates, NEW retry_op \in OpStates, NEW drain_op \in OpStates,
           FailRuntime(sessions, active_connections, active_sessions,
                       accept_op, retry_op, drain_op),
           accept_pending' \in BOOLEAN, retry_pending' \in BOOLEAN, paused' \in BOOLEAN,
           fault' = TRUE
    PROVE  IInv'
<1>1. sessions \in SUBSET Session
  BY DEF IInv, TypeOK
<1>2. FailRuntime(sessions, Cardinality(sessions), Cardinality(sessions),
                  accept_op, retry_op, drain_op)
  BY DEF IInv, ConnectionAccounting
<1> QED
  BY <1>1, <1>2, FailRuntimeInv

\* stop_all_sessions called with the server's own counters.
LEMMA ForceStopHere ==
    ASSUME IInv, NEW drain_op \in OpStates,
           ForceStop(sessions, active_connections, active_sessions, acceptOp, retryOp, drain_op)
    PROVE  /\ phase' = "completed" /\ sessions' = {}
           /\ active_connections' = 0 /\ active_sessions' = 0
           /\ session_phase' \in [Session -> SessionPhases]
           /\ \A s \in Session : session_phase'[s] \notin LivePhases
           /\ stopped' = TRUE
           /\ acceptOp' \in OpStates /\ retryOp' \in OpStates
           /\ drainOp' \in OpStates /\ backgroundOp' \in OpStates
           /\ retryOp' = "failed" => retryOp = "failed"
           /\ drainOp' = "failed" => drain_op = "failed"
<1>1. /\ active_connections = Cardinality(sessions) /\ active_sessions = Cardinality(sessions)
      /\ Cardinality(sessions) \in Nat
      /\ \A s \in Session : session_phase[s] \in LivePhases => s \in sessions
  BY SessionCounts DEF IInv, ConnectionAccounting, TypeOK
<1>2. phase' = "completed" /\ sessions' = {} /\ active_connections' = 0 /\ active_sessions' = 0
  BY <1>1 DEF ForceStop, Finish
<1>3. /\ session_phase' \in [Session -> SessionPhases]
      /\ \A s \in Session : session_phase'[s] \notin LivePhases
  BY <1>1 DEF ForceStop, Finish, IInv, TypeOK, SessionPhases, LivePhases
<1>4. /\ stopped' = TRUE
      /\ acceptOp' \in OpStates /\ retryOp' \in OpStates
      /\ drainOp' \in OpStates /\ backgroundOp' \in OpStates
      /\ retryOp' = "failed" => retryOp = "failed"
      /\ drainOp' = "failed" => drain_op = "failed"
  BY DEF ForceStop, StopAccepting, Cancel, OpStates, IInv, TypeOK
<1> QED
  BY <1>2, <1>3, <1>4

\* Forced stopping from a drain, by its deadline or by a second signal.
LEMMA ForceStopInv ==
    ASSUME IInv, phase = "draining", NEW drain_op \in OpStates, drain_op = "failed" => fault,
           ForceStop(sessions, active_connections, active_sessions, acceptOp, retryOp, drain_op),
           phase' = "completed" =>
               drain_callback_claimed' = TRUE /\ drain_completion_enabled' \in BOOLEAN,
           UNCHANGED <<accept_pending, retry_pending, paused, session_draining, started,
                       runtime_failed, fault>>
    PROVE  IInv'
<1>1. /\ phase' = "completed" /\ sessions' = {}
      /\ active_connections' = 0 /\ active_sessions' = 0
      /\ session_phase' \in [Session -> SessionPhases]
      /\ \A s \in Session : session_phase'[s] \notin LivePhases
      /\ stopped' = TRUE
      /\ acceptOp' \in OpStates /\ retryOp' \in OpStates
      /\ drainOp' \in OpStates /\ backgroundOp' \in OpStates
      /\ retryOp' = "failed" => retryOp = "failed"
      /\ drainOp' = "failed" => drain_op = "failed"
  BY ForceStopHere, Zenon
<1>2. drain_callback_claimed' = TRUE /\ drain_completion_enabled' \in BOOLEAN
  BY <1>1
<1>3. TypeOK'
  BY <1>1, <1>2 DEF TypeOK, IInv, Phases
<1>4. OnlyFaultsAreFatal' /\ TimerErrorsAreFaults'
  BY <1>1 DEF OnlyFaultsAreFatal, TimerErrorsAreFaults, IInv
<1> QED
  BY <1>1, <1>2, <1>3, <1>4, CompletedStateInv

\* drive_accept keeps the listener armed, waiting to retry, or paused full.
LEMMA DriveAcceptResult ==
    ASSUME NEW active \in Nat, NEW accepting \in BOOLEAN, NEW retrying \in BOOLEAN,
           NEW op \in OpStates, paused \in BOOLEAN, stopped = FALSE,
           active <= max_connections,
           accepting <=> op # "none",
           accepting => active < max_connections,
           ~(accepting /\ retrying), op # "aborted",
           DriveAccept(active, accepting, retrying, op)
    PROVE  /\ accept_pending' \in BOOLEAN /\ paused' \in BOOLEAN /\ acceptOp' \in OpStates
           /\ accept_pending' <=> acceptOp' # "none"
           /\ ~(accept_pending' /\ retrying)
           /\ acceptOp' # "none" => active < max_connections
           /\ acceptOp' # "aborted"
           /\ ~accept_pending' /\ ~retrying => paused' /\ active = max_connections
<1>1. CASE accepting \/ retrying
  <2>1. NextAction(active, accepting, retrying) = "none"
    BY <1>1 DEF NextAction
  <2>2. /\ accept_pending' = accepting
        /\ paused' = paused
        /\ acceptOp' = op
    BY <2>1, Zenon DEF DriveAccept
  <2> QED
    BY <1>1, <2>2
<1>2. CASE ~accepting /\ ~retrying /\ active >= max_connections
  <2>1. NextAction(active, accepting, retrying) = IF paused THEN "none" ELSE "pause"
    BY <1>2 DEF NextAction
  <2>2. /\ accept_pending' = accepting
        /\ paused' = TRUE
        /\ acceptOp' = op
    BY <2>1, <1>2 DEF DriveAccept
  <2> QED
    BY <1>2, <2>2, MaxConnectionsAssumption
<1>3. CASE ~accepting /\ ~retrying /\ ~(active >= max_connections)
  <2>1. NextAction(active, accepting, retrying) = "start_accept"
    BY <1>3 DEF NextAction
  <2>2. /\ accept_pending' = TRUE
        /\ paused' = FALSE
        /\ acceptOp' = "armed"
    BY <2>1 DEF DriveAccept
  <2>3. active < max_connections
    BY <1>3, MaxConnectionsAssumption
  <2> QED
    BY <1>3, <2>2, <2>3, Zenon DEF OpStates
<1> QED
  BY <1>1, <1>2, <1>3

----------------------------------------------------------------------------
(* The actions that need more than their own definition.                   *)

\* start() arms the first accept and keeps the invariant.
LEMMA StartInv == IInv /\ Start => IInv'
<1> SUFFICES ASSUME IInv, Start PROVE IInv'
  OBVIOUS
<1>1. /\ phase = "running" /\ sessions = {} /\ active_connections = 0
      /\ accept_pending = FALSE /\ retry_pending = FALSE /\ acceptOp = "none"
      /\ retryOp = "none" /\ stopped = FALSE
  BY FS_EmptySet DEF Start, IInv, TypeOK, QuietBeforeStart, ConnectionAccounting,
                     RunningIsUntouched
<1>2. /\ accept_pending' \in BOOLEAN /\ paused' \in BOOLEAN /\ acceptOp' \in OpStates
      /\ accept_pending' <=> acceptOp' # "none"
      /\ acceptOp' # "none" => active_connections < max_connections
      /\ acceptOp' # "aborted"
      /\ ~accept_pending' => paused' /\ active_connections = max_connections
  <2>1. DriveAccept(active_connections, accept_pending, retry_pending, acceptOp)
    BY DEF Start
  <2>2. active_connections < max_connections
    BY <1>1, MaxConnectionsAssumption
  <2>3. NextAction(active_connections, accept_pending, retry_pending) = "start_accept"
    BY <1>1, MaxConnectionsAssumption DEF NextAction
  <2>4. accept_pending' = TRUE /\ paused' = FALSE /\ acceptOp' = "armed"
    BY <2>1, <2>3 DEF DriveAccept
  <2> QED
    BY <2>2, <2>4, Zenon DEF OpStates
<1>3. TypeOK'
  BY <1>1, <1>2 DEF IInv, TypeOK, Start, OpStates, drainVars, claimVars, sessionVars
<1>4. ConnectionAccounting'
  BY DEF IInv, ConnectionAccounting, Start, drainVars, sessionVars
<1>5. ConnectionLimit' /\ AcceptorNeverStalls'
  BY <1>1, <1>2, FS_EmptySet, MaxConnectionsAssumption
  DEF IInv, ConnectionLimit, AcceptorNeverStalls, Start, drainVars, sessionVars
<1>6. /\ DrainIsBounded' /\ DrainCompletion' /\ OnlyFaultsAreFatal' /\ QuietBeforeStart'
      /\ RunningIsUntouched' /\ DrainOwesCallback' /\ TimerErrorsAreFaults'
  BY <1>1, <1>2 DEF IInv, Start, drainVars, claimVars, sessionVars, DrainIsBounded,
     DrainCompletion, OnlyFaultsAreFatal, QuietBeforeStart, RunningIsUntouched,
     DrainOwesCallback, TimerErrorsAreFaults
<1> QED
  BY <1>3, <1>4, <1>5, <1>6 DEF IInv

\* An accepted connection below the limit becomes a counted session, and the
\* listener is armed again or pauses.
LEMMA OnAcceptSessionInv ==
    ASSUME IInv, NEW s \in Session, OnAcceptSession(s)
    PROVE  IInv'
<1> DEFINE n == active_connections
<1>1. /\ phase = "running" /\ acceptOp = "fired" /\ s \notin sessions
      /\ stopped = FALSE /\ n \in Nat /\ n < max_connections
      /\ n = Cardinality(sessions) /\ active_sessions = n
      /\ session_phase[s] = "free"
      /\ started = TRUE
  BY DEF OnAcceptSession, IInv, TypeOK, ConnectionAccounting, ConnectionLimit,
         RunningIsUntouched, LivePhases, QuietBeforeStart
<1>2. retry_pending = FALSE /\ retryOp = "none"
  BY <1>1 DEF IInv, TypeOK, AcceptorNeverStalls
<1>3. Cardinality(sessions \cup {s}) = n + 1
  BY <1>1, SessionCounts DEF IInv, TypeOK
<1>4. /\ accept_pending' \in BOOLEAN /\ paused' \in BOOLEAN /\ acceptOp' \in OpStates
      /\ accept_pending' <=> acceptOp' # "none"
      /\ acceptOp' # "none" => n + 1 < max_connections
      /\ acceptOp' # "aborted"
      /\ ~accept_pending' => paused' /\ n + 1 = max_connections
  <2>1. DriveAccept(n + 1, FALSE, FALSE, "none")
    BY <1>2 DEF OnAcceptSession
  <2>2. n + 1 \in Nat /\ n + 1 <= max_connections /\ paused \in BOOLEAN
    BY <1>1, MaxConnectionsAssumption DEF IInv, TypeOK
  <2> HIDE DEF n
  <2> QED
    BY <1>1, <2>1, <2>2, DriveAcceptResult DEF OpStates
<1>5. TypeOK'
  BY <1>1, <1>2, <1>4 DEF IInv, TypeOK, OnAcceptSession, claimVars, SessionPhases, LivePhases
<1>6. ConnectionAccounting'
  <2>1. sessions' = {t \in Session : session_phase'[t] \in LivePhases}
    BY <1>1 DEF IInv, TypeOK, ConnectionAccounting, OnAcceptSession, LivePhases
  <2> QED
    BY <1>1, <1>3, <2>1 DEF ConnectionAccounting, OnAcceptSession
<1>7. ConnectionLimit' /\ AcceptorNeverStalls'
  BY <1>1, <1>2, <1>3, <1>4, MaxConnectionsAssumption
  DEF ConnectionLimit, AcceptorNeverStalls, OnAcceptSession
<1>8. /\ DrainIsBounded' /\ DrainCompletion' /\ OnlyFaultsAreFatal' /\ QuietBeforeStart'
      /\ RunningIsUntouched' /\ DrainOwesCallback' /\ TimerErrorsAreFaults'
  BY <1>1, <1>4 DEF IInv, OnAcceptSession, claimVars, DrainIsBounded, DrainCompletion,
     OnlyFaultsAreFatal, QuietBeforeStart, RunningIsUntouched, DrainOwesCallback,
     TimerErrorsAreFaults
<1> QED
  BY <1>5, <1>6, <1>7, <1>8 DEF IInv

\* The retry wait ends: a running server accepts again, a stopping one does not.
LEMMA OnAcceptRetryTimerInv == IInv /\ OnAcceptRetryTimer => IInv'
<1> SUFFICES ASSUME IInv, OnAcceptRetryTimer PROVE IInv'
  OBVIOUS
<1> USE DEF drainVars, claimVars, sessionVars
<1>1. /\ retry_pending' = FALSE /\ retryOp' = "none"
      /\ UNCHANGED <<drainVars, active_connections, stopped, claimVars, sessionVars, drainOp,
                     backgroundOp, started, fault>>
  BY DEF OnAcceptRetryTimer
<1>2. CASE phase = "running"
  <2>1. /\ stopped = FALSE /\ active_connections \in Nat
        /\ active_connections = Cardinality(sessions)
        /\ active_connections <= max_connections /\ started = TRUE
        /\ retryOp # "none"
    BY <1>2 DEF OnAcceptRetryTimer, IInv, TypeOK, ConnectionAccounting, ConnectionLimit,
                RunningIsUntouched, QuietBeforeStart, Queued
  <2>2. accept_pending = FALSE /\ acceptOp = "none"
    BY <1>2, <2>1 DEF IInv, TypeOK, AcceptorNeverStalls
  <2>3. /\ accept_pending' \in BOOLEAN /\ paused' \in BOOLEAN /\ acceptOp' \in OpStates
        /\ accept_pending' <=> acceptOp' # "none"
        /\ acceptOp' # "none" => active_connections < max_connections
        /\ acceptOp' # "aborted"
        /\ ~accept_pending' => paused' /\ active_connections = max_connections
    <3>1. DriveAccept(active_connections, FALSE, FALSE, "none")
      BY <1>2, <2>2 DEF OnAcceptRetryTimer
    <3>2. paused \in BOOLEAN
      BY DEF IInv, TypeOK
    <3> QED
      BY <2>1, <3>1, <3>2, DriveAcceptResult DEF OpStates
  <2>4. TypeOK'
    BY <1>1, <2>3, ZenonT(60) DEF IInv, TypeOK, OpStates
  <2>5. ConnectionAccounting'
    BY <1>1 DEF IInv, ConnectionAccounting
  <2>6. ConnectionLimit' /\ AcceptorNeverStalls'
    BY <1>1, <2>1, <2>3 DEF ConnectionLimit, AcceptorNeverStalls
  <2>7. /\ DrainIsBounded' /\ DrainCompletion' /\ OnlyFaultsAreFatal' /\ QuietBeforeStart'
        /\ RunningIsUntouched' /\ DrainOwesCallback' /\ TimerErrorsAreFaults'
    BY <1>1, <1>2, <2>1, <2>3 DEF IInv, DrainIsBounded, DrainCompletion, OnlyFaultsAreFatal,
       QuietBeforeStart, RunningIsUntouched, DrainOwesCallback, TimerErrorsAreFaults
  <2> QED
    BY <2>4, <2>5, <2>6, <2>7 DEF IInv
<1>3. CASE phase # "running"
  <2>1. UNCHANGED <<accept_pending, paused, acceptOp>>
    BY <1>3 DEF OnAcceptRetryTimer
  <2>2. TypeOK'
    <3>1. "none" \in OpStates
      BY DEF OpStates
    <3>2. TypeOK
      BY DEF IInv
    <3> QED
      BY <1>1, <2>1, <3>1, <3>2 DEF TypeOK
  <2>3. ConnectionAccounting' /\ ConnectionLimit' /\ AcceptorNeverStalls'
    BY <1>1, <1>3, <2>1 DEF IInv, ConnectionAccounting, ConnectionLimit, AcceptorNeverStalls
  <2>4. /\ DrainIsBounded' /\ DrainCompletion' /\ OnlyFaultsAreFatal' /\ QuietBeforeStart'
        /\ RunningIsUntouched' /\ DrainOwesCallback' /\ TimerErrorsAreFaults'
    BY <1>1, <1>3, <2>1 DEF IInv, DrainIsBounded, DrainCompletion, OnlyFaultsAreFatal,
       QuietBeforeStart, RunningIsUntouched, DrainOwesCallback, TimerErrorsAreFaults
  <2> QED
    BY <2>2, <2>3, <2>4 DEF IInv
<1> QED
  BY <1>2, <1>3

\* One session finishes by itself, in a running or in a draining server.
LEMMA SessionClosesInv ==
    ASSUME IInv, NEW s \in Session, session_phase[s] \in LivePhases, SessionCloses(s)
    PROVE  IInv'
<1> DEFINE n == Cardinality(sessions)
<1>1. /\ s \in sessions /\ sessions \in SUBSET Session
      /\ active_connections = n /\ active_sessions = n
  BY DEF IInv, TypeOK, ConnectionAccounting
<1>2. n \in Nat /\ n > 0 /\ Cardinality(sessions \ {s}) = n - 1 /\ Cardinality({s}) = 1
      /\ n - 1 \in Nat /\ (n = 1 <=> sessions \ {s} = {})
  <2>1. {s} \in SUBSET sessions /\ sessions \ {s} \in SUBSET Session
    BY <1>1
  <2>2. n \in Nat /\ (n = 0 <=> sessions = {}) /\ Cardinality({s}) = 1
        /\ Cardinality(sessions \ {s}) = n - Cardinality({s})
    BY <1>1, <2>1, SessionCounts
  <2>3. Cardinality(sessions \ {s}) = 0 <=> sessions \ {s} = {}
    BY <2>1, SessionCounts
  <2> QED
    BY <1>1, <2>2, <2>3
<1>3. /\ sessions' = sessions \ {s}
      /\ active_connections' = n - 1 /\ active_sessions' = n - 1
      /\ phase' = IF n = 1 /\ phase # "running" THEN "completed" ELSE phase
      /\ session_phase' = [t \in Session |-> IF t \in {s} THEN "finished" ELSE session_phase[t]]
      /\ UNCHANGED <<retry_pending, stopped, runtime_failed, session_draining, retryOp,
                     backgroundOp, started, fault>>
  BY <1>1, <1>2 DEF SessionCloses, Finish
<1>4. phase \in {"running", "draining"}
  BY <1>1 DEF IInv, TypeOK, Phases, DrainCompletion
<1>5. session_phase' \in [Session -> SessionPhases]
  BY <1>3 DEF IInv, TypeOK, SessionPhases
<1>6. sessions' = {t \in Session : session_phase'[t] \in LivePhases}
  BY <1>3 DEF IInv, ConnectionAccounting, LivePhases
<1>7. ConnectionAccounting'
  BY <1>2, <1>3, <1>6 DEF ConnectionAccounting
<1>8. CASE phase = "running"
  <2>1. /\ phase' = "running" /\ stopped = FALSE
        /\ UNCHANGED <<drainOp, drain_callback_claimed, drain_completion_enabled>>
    BY <1>3, <1>8 DEF SessionCloses, IInv, RunningIsUntouched, TypeOK
  <2>2. /\ started = TRUE /\ n <= max_connections /\ n - 1 < max_connections
        /\ n - 1 <= max_connections
    BY <1>1, <1>2, <1>8, MaxConnectionsAssumption
    DEF IInv, TypeOK, QuietBeforeStart, ConnectionLimit
  <2>3. /\ accept_pending <=> acceptOp # "none"
        /\ retry_pending <=> retryOp # "none"
        /\ ~(accept_pending /\ retry_pending)
        /\ acceptOp # "aborted"
    BY <1>8, <2>2 DEF IInv, AcceptorNeverStalls, RunningIsUntouched
  <2>4. /\ accept_pending' \in BOOLEAN /\ paused' \in BOOLEAN /\ acceptOp' \in OpStates
        /\ accept_pending' <=> acceptOp' # "none"
        /\ ~(accept_pending' /\ retry_pending)
        /\ acceptOp' # "aborted"
        /\ ~accept_pending' /\ ~retry_pending => paused' /\ n - 1 = max_connections
    <3>1. DriveAccept(n - 1, accept_pending, retry_pending, acceptOp)
      BY <1>1, <1>8 DEF SessionCloses
    <3>2. /\ accept_pending \in BOOLEAN /\ retry_pending \in BOOLEAN /\ paused \in BOOLEAN
          /\ acceptOp \in OpStates
      BY DEF IInv, TypeOK
    <3> HIDE DEF n
    <3> QED
      BY <1>2, <2>1, <2>2, <2>3, <3>1, <3>2, DriveAcceptResult
  <2>5. TypeOK'
    BY <1>2, <1>3, <1>5, <2>1, <2>4 DEF IInv, TypeOK, Phases
  <2>6. ConnectionLimit' /\ AcceptorNeverStalls'
    BY <1>2, <1>3, <2>1, <2>2, <2>3, <2>4, MaxConnectionsAssumption
    DEF ConnectionLimit, AcceptorNeverStalls
  <2>7. /\ DrainIsBounded' /\ DrainCompletion' /\ OnlyFaultsAreFatal' /\ QuietBeforeStart'
        /\ RunningIsUntouched' /\ DrainOwesCallback' /\ TimerErrorsAreFaults'
    BY <1>3, <1>8, <2>1, <2>2, <2>4 DEF IInv, DrainIsBounded, DrainCompletion,
       OnlyFaultsAreFatal, QuietBeforeStart, RunningIsUntouched, DrainOwesCallback,
       TimerErrorsAreFaults
  <2> QED
    BY <1>7, <2>5, <2>6, <2>7 DEF IInv
<1>9. CASE phase = "draining"
  <2>1. /\ drain_completion_enabled = TRUE /\ drain_callback_claimed = FALSE
        /\ UNCHANGED <<accept_pending, paused, acceptOp>>
    BY <1>9 DEF SessionCloses, IInv, TypeOK, DrainOwesCallback
  <2>2. CASE n = 1
    <3>1. /\ phase' = "completed" /\ sessions' = {} /\ active_connections' = 0
          /\ active_sessions' = 0
      BY <1>2, <1>3, <1>9, <2>2
    <3>2. /\ drain_callback_claimed' = TRUE /\ drain_completion_enabled' \in BOOLEAN
          /\ drainOp' = Cancel(drainOp)
      BY <1>9, <2>1, <3>1 DEF SessionCloses, FinishDrain
    <3>3. TypeOK'
      BY <1>3, <1>5, <2>1, <3>1, <3>2 DEF IInv, TypeOK, Phases, Cancel, OpStates
    <3>4. \A t \in Session : session_phase'[t] \notin LivePhases
      BY <1>6, <3>1
    <3>5. OnlyFaultsAreFatal' /\ TimerErrorsAreFaults'
      BY <1>3, <3>2 DEF IInv, OnlyFaultsAreFatal, TimerErrorsAreFaults, Cancel
    <3> QED
      BY <3>1, <3>2, <3>3, <3>4, <3>5, CompletedStateInv
  <2>3. CASE n # 1
    <3>1. phase' = "draining" /\ sessions' # {}
      BY <1>2, <1>3, <1>9, <2>3
    <3>2. /\ drain_callback_claimed' = FALSE /\ drain_completion_enabled' = TRUE
          /\ drainOp' = drainOp
      BY <1>9, <2>1, <3>1 DEF SessionCloses, FinishDrain
    <3>3. TypeOK'
      BY <1>2, <1>3, <1>5, <2>1, <3>1, <3>2 DEF IInv, TypeOK, Phases
    <3>4. ConnectionLimit' /\ AcceptorNeverStalls'
      BY <1>2, <1>3, <3>1, MaxConnectionsAssumption
      DEF IInv, ConnectionLimit, AcceptorNeverStalls
    <3>5. DrainIsBounded'
      BY <1>3, <1>9, <3>1, <3>2 DEF IInv, TypeOK, DrainIsBounded
    <3>6. /\ DrainCompletion' /\ OnlyFaultsAreFatal' /\ QuietBeforeStart'
          /\ RunningIsUntouched' /\ DrainOwesCallback' /\ TimerErrorsAreFaults'
      BY <1>3, <3>1, <3>2 DEF IInv, DrainCompletion, OnlyFaultsAreFatal, QuietBeforeStart,
         RunningIsUntouched, DrainOwesCallback, TimerErrorsAreFaults
    <3> QED
      BY <1>7, <3>3, <3>4, <3>5, <3>6 DEF IInv
  <2> QED
    BY <2>2, <2>3
<1> QED
  BY <1>4, <1>8, <1>9

\* A session goes on to another phase without finishing.
LEMMA SessionMovesInv ==
    ASSUME IInv, NEW s \in Session, NEW to \in LivePhases, session_phase[s] \in LivePhases,
           phase = "draining" => to \in {"proxying", "writing", "closing"},
           SessionMoves(s, to)
    PROVE  IInv'
<1> USE DEF SessionMoves, drainVars, capacityVars, claimVars, opVars
<1>1. TypeOK'
  BY DEF IInv, TypeOK, SessionPhases
<1>2. ConnectionAccounting'
  BY DEF IInv, TypeOK, ConnectionAccounting
<1>3. ConnectionLimit' /\ AcceptorNeverStalls'
  BY DEF IInv, ConnectionLimit, AcceptorNeverStalls
<1>4. DrainIsBounded'
  BY DEF IInv, TypeOK, DrainIsBounded
<1>5. /\ DrainCompletion' /\ OnlyFaultsAreFatal' /\ QuietBeforeStart'
      /\ RunningIsUntouched' /\ DrainOwesCallback' /\ TimerErrorsAreFaults'
  BY DEF IInv, DrainCompletion, OnlyFaultsAreFatal, QuietBeforeStart,
         RunningIsUntouched, DrainOwesCallback, TimerErrorsAreFaults
<1> QED
  BY <1>1, <1>2, <1>3, <1>4, <1>5 DEF IInv

\* A finished session's object goes away; no counter mentions it any more.
LEMMA SessionReleasedInv ==
    ASSUME IInv, NEW s \in Session, SessionReleased(s)
    PROVE  IInv'
<1> USE DEF SessionReleased, SessionMoves, drainVars, capacityVars, claimVars, opVars
<1>1. TypeOK'
  BY DEF IInv, TypeOK, SessionPhases
<1>2. ConnectionAccounting'
  BY DEF IInv, TypeOK, ConnectionAccounting, LivePhases
<1>3. ConnectionLimit' /\ AcceptorNeverStalls'
  BY DEF IInv, ConnectionLimit, AcceptorNeverStalls
<1>4. DrainIsBounded'
  BY DEF IInv, TypeOK, DrainIsBounded
<1>5. /\ DrainCompletion' /\ OnlyFaultsAreFatal' /\ QuietBeforeStart'
      /\ RunningIsUntouched' /\ DrainOwesCallback' /\ TimerErrorsAreFaults'
  BY DEF IInv, DrainCompletion, OnlyFaultsAreFatal, QuietBeforeStart,
         RunningIsUntouched, DrainOwesCallback, TimerErrorsAreFaults
<1> QED
  BY <1>1, <1>2, <1>3, <1>4, <1>5 DEF IInv

\* Every handler of a session.
LEMMA SessionHandlerInv ==
    ASSUME IInv, NEW s \in Session, SessionHandler(s)
    PROVE  IInv'
<1>1. phase = "draining" /\ session_phase[s] \in LivePhases =>
          session_phase[s] \in {"proxying", "writing", "closing"} /\ s \in session_draining
  BY DEF IInv, ConnectionAccounting, DrainIsBounded
<1>2. ASSUME session_phase[s] \in LivePhases, GracefulClose(s) PROVE IInv'
  BY <1>2, SessionMovesInv, SessionClosesInv DEF GracefulClose, LivePhases
<1>3. CASE OnHandshake(s)
  BY <1>1, <1>3, SessionMovesInv, SessionClosesInv DEF OnHandshake, LivePhases
<1>4. CASE OnRead(s)
  BY <1>1, <1>2, <1>4, SessionMovesInv, SessionClosesInv DEF OnRead, LivePhases
<1>5. CASE OnProxy(s)
  BY <1>5, SessionMovesInv, SessionClosesInv DEF OnProxy, LivePhases
<1>6. CASE OnWrite(s)
  BY <1>1, <1>2, <1>6, SessionMovesInv, SessionClosesInv DEF OnWrite, LivePhases
<1>7. CASE OnTlsShutdown(s)
  BY <1>7, SessionClosesInv DEF OnTlsShutdown, LivePhases
<1>8. CASE SessionClosesAcceptThrows(s)
  <2>1. /\ FailRuntime(sessions, active_connections, active_sessions, acceptOp, retryOp, drainOp)
        /\ accept_pending' = TRUE /\ paused' = FALSE /\ fault' = TRUE
        /\ retry_pending' = retry_pending
    BY <1>8 DEF SessionClosesAcceptThrows
  <2>2. /\ acceptOp \in OpStates /\ retryOp \in OpStates /\ drainOp \in OpStates
        /\ retry_pending \in BOOLEAN
    BY DEF IInv, TypeOK
  <2> QED
    BY <2>1, <2>2, FailRuntimeHereInv
<1>9. CASE SessionReleased(s)
  BY <1>9, SessionReleasedInv
<1> QED
  BY <1>3, <1>4, <1>5, <1>6, <1>7, <1>8, <1>9 DEF SessionHandler

\* begin_drain_impl closes what is not dispatched yet, and either arms the
\* deadline or is already complete.
LEMMA BeginDrainInv == IInv /\ BeginDrain => IInv'
<1> SUFFICES ASSUME IInv, BeginDrain PROVE IInv'
  OBVIOUS
<1> DEFINE n == Cardinality(sessions)
           R == DrainClosesNow
           k == Cardinality(R)
<1>1. /\ R \in SUBSET sessions /\ sessions \in SUBSET Session
      /\ active_connections = n /\ active_sessions = n
      /\ phase = "running" /\ drainOp = "none" /\ drain_callback_claimed = FALSE
  BY DEF IInv, TypeOK, ConnectionAccounting, DrainClosesNow, BeginDrain, RunningIsUntouched
<1>2. /\ n \in Nat /\ k \in Nat /\ k <= n /\ (n = k <=> sessions = R)
      /\ Cardinality(sessions \ R) = n - k
  BY <1>1, SessionCounts
<1>3. /\ sessions' = sessions \ R
      /\ active_connections' = n - k /\ active_sessions' = n - k
      /\ phase' = IF n = k THEN "completed" ELSE "draining"
      /\ session_phase' = [t \in Session |-> IF t \in R THEN "finished" ELSE session_phase[t]]
  BY <1>1 DEF BeginDrain, Finish
<1>4. /\ session_draining' = session_draining \cup sessions
      /\ stopped' = TRUE
      /\ acceptOp' \in OpStates /\ retryOp' \in OpStates /\ backgroundOp' \in OpStates
      /\ retryOp' = "failed" => retryOp = "failed"
      /\ UNCHANGED <<accept_pending, retry_pending, paused, runtime_failed, started, fault>>
  BY DEF BeginDrain, StopAccepting, Cancel, OpStates, IInv, TypeOK
<1>5. session_phase' \in [Session -> SessionPhases]
  BY <1>3 DEF IInv, TypeOK, SessionPhases
<1>6. sessions' = {t \in Session : session_phase'[t] \in LivePhases}
  BY <1>1, <1>3 DEF IInv, ConnectionAccounting, LivePhases
<1>7. n - k \in Nat /\ session_draining' \in SUBSET Session
  BY <1>1, <1>2, <1>4 DEF IInv, TypeOK
<1>8. CASE n = k
  <2>1. phase' = "completed" /\ sessions' = {} /\ active_connections' = 0 /\ active_sessions' = 0
    BY <1>2, <1>3, <1>8
  <2>2. drain_callback_claimed' = TRUE /\ drain_completion_enabled' \in BOOLEAN
        /\ drainOp' = "none"
    BY <1>1, <2>1 DEF BeginDrain, FinishDrain
  <2>3. TypeOK'
    BY <1>4, <1>5, <1>7, <2>1, <2>2 DEF IInv, TypeOK, Phases, OpStates
  <2>4. \A t \in Session : session_phase'[t] \notin LivePhases
    BY <1>6, <2>1
  <2>5. OnlyFaultsAreFatal' /\ TimerErrorsAreFaults'
    BY <1>4, <2>2 DEF IInv, OnlyFaultsAreFatal, TimerErrorsAreFaults
  <2> QED
    BY <2>1, <2>2, <2>3, <2>4, <2>5, CompletedStateInv
<1>9. CASE n # k
  <2>1. phase' = "draining" /\ sessions' # {}
    BY <1>1, <1>2, <1>3, <1>9
  <2>2. drain_callback_claimed' = FALSE /\ drain_completion_enabled' = TRUE
        /\ drainOp' = "armed"
    BY <1>1, <2>1 DEF BeginDrain, FinishDrain
  <2>3. TypeOK'
    BY <1>3, <1>4, <1>5, <1>7, <2>1, <2>2 DEF IInv, TypeOK, Phases, OpStates
  <2>4. ConnectionAccounting'
    BY <1>2, <1>3, <1>6 DEF ConnectionAccounting
  <2>5. ConnectionLimit' /\ AcceptorNeverStalls'
    BY <1>2, <1>3, <2>1, MaxConnectionsAssumption DEF IInv, ConnectionLimit, AcceptorNeverStalls
  <2>6. DrainIsBounded'
    <3>1. \A t \in sessions' : /\ session_phase'[t] = session_phase[t]
                               /\ session_phase[t] \in LivePhases
                               /\ session_phase[t] \notin {"handshaking", "reading"}
      BY <1>1, <1>3 DEF DrainClosesNow, IInv, ConnectionAccounting
    <3>2. sessions' \subseteq session_draining'
      BY <1>3, <1>4
    <3> QED
      BY <2>1, <2>2, <3>1, <3>2 DEF DrainIsBounded, LivePhases
  <2>7. /\ DrainCompletion' /\ OnlyFaultsAreFatal' /\ QuietBeforeStart'
        /\ RunningIsUntouched' /\ DrainOwesCallback' /\ TimerErrorsAreFaults'
    BY <1>4, <2>1, <2>2 DEF IInv, DrainCompletion, OnlyFaultsAreFatal, QuietBeforeStart,
       RunningIsUntouched, DrainOwesCallback, TimerErrorsAreFaults
  <2> QED
    BY <2>3, <2>4, <2>5, <2>6, <2>7 DEF IInv
<1> QED
  BY <1>8, <1>9

\* stop(), from any phase.
LEMMA StopInv ==
    ASSUME IInv, Stop, fault' = TRUE \/ fault' = fault
    PROVE  IInv'
<1>1. /\ drain_completion_enabled' = FALSE
      /\ UNCHANGED <<accept_pending, retry_pending, paused, session_draining, started,
                     drain_callback_claimed, runtime_failed>>
  BY DEF Stop
<1>2. phase \in {"running", "draining", "completed"} /\ fault \in BOOLEAN
  BY DEF IInv, TypeOK, Phases, DrainCompletion
<1>3. CASE phase = "completed"
  <2>1. UNCHANGED <<drainVars, sessions, session_phase, active_connections, stopped, opVars>>
    BY <1>3 DEF Stop
  <2>2. TypeOK'
    BY <1>1, <1>2, <2>1 DEF IInv, TypeOK, drainVars, opVars
  <2>3. /\ sessions' = {} /\ active_connections' = 0 /\ active_sessions' = 0
        /\ \A t \in Session : session_phase'[t] \notin LivePhases
        /\ phase' = "completed"
    BY <1>3, <2>1, FS_EmptySet DEF IInv, ConnectionAccounting, DrainCompletion, drainVars
  <2>4. OnlyFaultsAreFatal' /\ TimerErrorsAreFaults'
    BY <1>1, <2>1 DEF IInv, OnlyFaultsAreFatal, TimerErrorsAreFaults, opVars
  <2> QED
    BY <1>1, <2>2, <2>3, <2>4, CompletedStateInv
<1>4. CASE phase # "completed"
  <2>1. ForceStop(sessions, active_connections, active_sessions, acceptOp, retryOp, drainOp)
    BY <1>2, <1>4 DEF Stop
  <2>2. drainOp \in OpStates
    BY DEF IInv, TypeOK
  <2>3. /\ phase' = "completed" /\ sessions' = {}
        /\ active_connections' = 0 /\ active_sessions' = 0
        /\ session_phase' \in [Session -> SessionPhases]
        /\ \A s \in Session : session_phase'[s] \notin LivePhases
        /\ stopped' = TRUE
        /\ acceptOp' \in OpStates /\ retryOp' \in OpStates
        /\ drainOp' \in OpStates /\ backgroundOp' \in OpStates
        /\ retryOp' = "failed" => retryOp = "failed"
        /\ drainOp' = "failed" => drainOp = "failed"
    BY <2>1, <2>2, ForceStopHere
  <2>4. TypeOK'
    BY <1>1, <1>2, <2>3 DEF IInv, TypeOK, Phases
  <2>5. OnlyFaultsAreFatal' /\ TimerErrorsAreFaults'
    BY <1>1, <2>3 DEF IInv, OnlyFaultsAreFatal, TimerErrorsAreFaults
  <2> QED
    BY <1>1, <2>3, <2>4, <2>5, CompletedStateInv
<1> QED
  BY <1>3, <1>4

\* start() throws and the destructor stops what it had begun.
LEMMA StartThrowsInv == IInv /\ StartThrows => IInv'
<1> SUFFICES ASSUME IInv, StartThrows PROVE IInv'
  OBVIOUS
<1>1. /\ started' \in BOOLEAN /\ accept_pending' \in BOOLEAN
      /\ drain_completion_enabled' = FALSE /\ fault' = TRUE
      /\ UNCHANGED <<retry_pending, paused, session_draining, drain_callback_claimed,
                     runtime_failed>>
  BY DEF StartThrows
<1>2. PICK accept_op \in {"none", "armed"} :
         ForceStop(sessions, active_connections, active_sessions, accept_op, retryOp, drainOp)
  BY DEF StartThrows
<1>3. /\ active_connections = Cardinality(sessions) /\ active_sessions = Cardinality(sessions)
      /\ \A s \in Session : session_phase[s] \in LivePhases => s \in sessions
      /\ TypeOK /\ sessions \in SUBSET Session
      /\ accept_op \in OpStates /\ retryOp \in OpStates /\ drainOp \in OpStates
  BY DEF IInv, ConnectionAccounting, TypeOK, OpStates
<1>4. /\ phase' = "completed" /\ sessions' = {}
      /\ active_connections' = 0 /\ active_sessions' = 0
      /\ session_phase' \in [Session -> SessionPhases]
      /\ \A s \in Session : session_phase'[s] \notin LivePhases
      /\ stopped' = TRUE
      /\ acceptOp' \in OpStates /\ retryOp' \in OpStates
      /\ drainOp' \in OpStates /\ backgroundOp' \in OpStates
  BY <1>2, <1>3, ForceStopResult
<1>5. TypeOK'
  BY <1>1, <1>3, <1>4 DEF TypeOK, Phases
<1>6. OnlyFaultsAreFatal' /\ TimerErrorsAreFaults'
  BY <1>1 DEF OnlyFaultsAreFatal, TimerErrorsAreFaults
<1> QED
  BY <1>1, <1>4, <1>5, <1>6, CompletedStateInv

\* on_accept throws, with or without the new session in the set.
LEMMA OnAcceptThrowsInv ==
    ASSUME IInv, NEW s \in Session, NEW inserted \in BOOLEAN, OnAcceptThrows(s, inserted)
    PROVE  IInv'
<1> DEFINE open == sessions \cup (IF inserted THEN {s} ELSE {})
           n == IF inserted THEN 1 ELSE 0
<1>1. /\ FailRuntime(open, active_connections + n, active_sessions + n, "none", retryOp, drainOp)
      /\ inserted => session_phase[s] = "free"
      /\ accept_pending' \in BOOLEAN /\ paused' = paused /\ fault' = TRUE
  BY DEF OnAcceptThrows
<1>2. retry_pending' \in BOOLEAN
  BY Zenon DEF OnAcceptThrows, IInv, TypeOK
<1>3. /\ paused' \in BOOLEAN /\ retryOp \in OpStates /\ drainOp \in OpStates
      /\ "none" \in OpStates /\ sessions \in SUBSET Session
  BY <1>1 DEF IInv, TypeOK, OpStates
<1>4. open \in SUBSET Session /\ sessions \subseteq open
  BY <1>3
<1>5. /\ Cardinality(open) = active_connections + n
      /\ Cardinality(open) = active_sessions + n
  <2>1. CASE inserted
    <3>1. s \notin sessions
      BY <1>1, <2>1 DEF IInv, ConnectionAccounting, LivePhases
    <3> QED
      BY <1>3, <2>1, <3>1, SessionCounts DEF IInv, ConnectionAccounting
  <2>2. CASE ~inserted
    BY <1>3, <2>2, SessionCounts DEF IInv, ConnectionAccounting
  <2> QED
    BY <2>1, <2>2
<1>6. FailRuntime(open, Cardinality(open), Cardinality(open), "none", retryOp, drainOp)
  BY <1>1, <1>5
<1> HIDE DEF open, n
<1> QED
  BY <1>1, <1>2, <1>3, <1>4, <1>6, FailRuntimeInv

\* Every handler of the server.
LEMMA ServerHandlerInv == IInv /\ ServerHandler => IInv'
<1> SUFFICES ASSUME IInv, ServerHandler PROVE IInv'
  OBVIOUS
<1> USE DEF drainVars, capacityVars, claimVars, sessionVars
<1>0. /\ acceptOp \in OpStates /\ retryOp \in OpStates /\ drainOp \in OpStates
      /\ "none" \in OpStates /\ "armed" \in OpStates
      /\ accept_pending \in BOOLEAN /\ retry_pending \in BOOLEAN /\ paused \in BOOLEAN
  BY DEF IInv, TypeOK, OpStates
<1>1. CASE OnAcceptStopped
  <2>1. TypeOK'
    BY <1>0, <1>1 DEF IInv, TypeOK, OnAcceptStopped
  <2>2. ConnectionAccounting' /\ ConnectionLimit' /\ AcceptorNeverStalls'
    BY <1>1 DEF IInv, OnAcceptStopped, ConnectionAccounting, ConnectionLimit, AcceptorNeverStalls
  <2>3. /\ DrainIsBounded' /\ DrainCompletion' /\ OnlyFaultsAreFatal' /\ QuietBeforeStart'
        /\ RunningIsUntouched' /\ DrainOwesCallback' /\ TimerErrorsAreFaults'
    BY <1>1 DEF IInv, OnAcceptStopped, DrainIsBounded, DrainCompletion, OnlyFaultsAreFatal,
       QuietBeforeStart, RunningIsUntouched, DrainOwesCallback, TimerErrorsAreFaults
  <2> QED
    BY <2>1, <2>2, <2>3 DEF IInv
<1>2. CASE OnAcceptError
  <2>1. TypeOK'
    BY <1>0, <1>2 DEF IInv, TypeOK, OnAcceptError
  <2>2. ConnectionAccounting' /\ ConnectionLimit' /\ AcceptorNeverStalls'
    BY <1>2 DEF IInv, OnAcceptError, ConnectionAccounting, ConnectionLimit, AcceptorNeverStalls
  <2>3. /\ DrainIsBounded' /\ DrainCompletion' /\ OnlyFaultsAreFatal' /\ QuietBeforeStart'
        /\ RunningIsUntouched' /\ DrainOwesCallback' /\ TimerErrorsAreFaults'
    BY <1>2 DEF IInv, OnAcceptError, DrainIsBounded, DrainCompletion, OnlyFaultsAreFatal,
       QuietBeforeStart, RunningIsUntouched, DrainOwesCallback, TimerErrorsAreFaults
  <2> QED
    BY <2>1, <2>2, <2>3 DEF IInv
<1>3. ASSUME NEW s \in Session, OnAcceptSession(s) PROVE IInv'
  BY <1>3, OnAcceptSessionInv
<1>4. ASSUME NEW s \in Session, NEW inserted \in BOOLEAN, OnAcceptThrows(s, inserted) PROVE IInv'
  BY <1>4, OnAcceptThrowsInv
<1>5. CASE OnAcceptRetryTimer
  BY <1>5, OnAcceptRetryTimerInv
<1>6. CASE OnAcceptRetryTimerFails
  <2>1. /\ FailRuntime(sessions, active_connections, active_sessions, acceptOp, "none", drainOp)
        /\ retry_pending' = FALSE /\ phase = "running"
    BY <1>6 DEF OnAcceptRetryTimerFails
  <2>2. accept_pending' \in BOOLEAN /\ paused' \in BOOLEAN
    BY <1>0, <1>6 DEF OnAcceptRetryTimerFails
  <2>3. fault' = TRUE
    <3>1. retryOp # "fired" => retryOp = "failed"
      BY <1>6, <2>1 DEF OnAcceptRetryTimerFails, Queued, IInv, RunningIsUntouched
    <3>2. retryOp = "failed" => fault = TRUE
      BY DEF IInv, TypeOK, TimerErrorsAreFaults
    <3> QED
      BY <1>6, <3>1, <3>2 DEF OnAcceptRetryTimerFails
  <2> QED
    BY <1>0, <2>1, <2>2, <2>3, FailRuntimeHereInv
<1>7. CASE OnDrainTimerIgnored
  <2>1. TypeOK'
    BY <1>0, <1>7 DEF IInv, TypeOK, OnDrainTimerIgnored
  <2>2. ConnectionAccounting' /\ ConnectionLimit' /\ AcceptorNeverStalls'
    BY <1>7 DEF IInv, OnDrainTimerIgnored, ConnectionAccounting, ConnectionLimit,
                AcceptorNeverStalls
  <2>3. /\ DrainIsBounded' /\ DrainCompletion' /\ OnlyFaultsAreFatal' /\ QuietBeforeStart'
        /\ RunningIsUntouched' /\ DrainOwesCallback' /\ TimerErrorsAreFaults'
    BY <1>7 DEF IInv, OnDrainTimerIgnored, DrainIsBounded, DrainCompletion, OnlyFaultsAreFatal,
       QuietBeforeStart, RunningIsUntouched, DrainOwesCallback, TimerErrorsAreFaults
  <2> QED
    BY <2>1, <2>2, <2>3 DEF IInv
<1>8. CASE OnDrainTimeout
  <2>1. /\ phase = "draining"
        /\ ForceStop(sessions, active_connections, active_sessions, acceptOp, retryOp, "none")
        /\ UNCHANGED <<accept_pending, retry_pending, paused, session_draining, started,
                       runtime_failed, fault>>
    BY <1>8 DEF OnDrainTimeout
  <2>2. phase' = "completed" =>
            drain_callback_claimed' = TRUE /\ drain_completion_enabled' \in BOOLEAN
    BY <1>8, <2>1 DEF OnDrainTimeout, FinishDrain, IInv, DrainOwesCallback
  <2> QED
    BY <1>0, <2>1, <2>2, ForceStopInv
<1>9. CASE OnDrainTimerFails
  <2>1. /\ FailRuntime(sessions, active_connections, active_sessions, acceptOp, retryOp, "none")
        /\ UNCHANGED <<accept_pending, retry_pending, paused, fault>>
    BY <1>9 DEF OnDrainTimerFails
  <2>2. fault = TRUE
    BY <1>9 DEF OnDrainTimerFails, IInv, TypeOK, DrainIsBounded, TimerErrorsAreFaults
  <2> QED
    BY <1>0, <2>1, <2>2, FailRuntimeHereInv
<1>10. CASE HealthCheckSchedulerFails
  <2>1. /\ FailRuntime(sessions, active_connections, active_sessions, acceptOp, retryOp, drainOp)
        /\ UNCHANGED <<accept_pending, retry_pending, paused>> /\ fault' = TRUE
    BY <1>10 DEF HealthCheckSchedulerFails
  <2> QED
    BY <1>0, <2>1, FailRuntimeHereInv
<1>11. CASE OnBackgroundCancelled
  <2>1. TypeOK'
    BY <1>0, <1>11 DEF IInv, TypeOK, OnBackgroundCancelled
  <2>2. ConnectionAccounting' /\ ConnectionLimit' /\ AcceptorNeverStalls'
    BY <1>11 DEF IInv, OnBackgroundCancelled, ConnectionAccounting, ConnectionLimit,
                 AcceptorNeverStalls
  <2>3. /\ DrainIsBounded' /\ DrainCompletion' /\ OnlyFaultsAreFatal' /\ QuietBeforeStart'
        /\ RunningIsUntouched' /\ DrainOwesCallback' /\ TimerErrorsAreFaults'
    BY <1>11 DEF IInv, OnBackgroundCancelled, DrainIsBounded, DrainCompletion,
       OnlyFaultsAreFatal, QuietBeforeStart, RunningIsUntouched, DrainOwesCallback,
       TimerErrorsAreFaults
  <2> QED
    BY <2>1, <2>2, <2>3 DEF IInv
<1> QED
  BY <1>1, <1>2, <1>3, <1>4, <1>5, <1>6, <1>7, <1>8, <1>9, <1>10, <1>11 DEF ServerHandler

\* The kernel completes an operation.
LEMMA KernelInv == IInv /\ Kernel => IInv'
<1> SUFFICES ASSUME IInv, Kernel PROVE IInv'
  OBVIOUS
<1> USE DEF drainVars, capacityVars, claimVars, sessionVars
<1>1. /\ UNCHANGED <<drainVars, capacityVars, claimVars, sessionVars, backgroundOp, started>>
      /\ acceptOp' \in OpStates /\ retryOp' \in OpStates /\ drainOp' \in OpStates
      /\ fault' \in BOOLEAN
  BY DEF Kernel, AcceptCompletes, RetryTimerExpires, DrainTimerExpires, IInv, TypeOK, OpStates
<1>2. /\ acceptOp' # acceptOp => acceptOp = "armed" /\ acceptOp' \in {"fired", "failed"}
      /\ retryOp' # retryOp => retryOp = "armed" /\ retryOp' \in {"fired", "failed"}
      /\ drainOp' # drainOp => drainOp = "armed" /\ drainOp' \in {"fired", "failed"}
      /\ fault => fault'
      /\ retryOp' = "failed" => fault' \/ retryOp = "failed"
      /\ drainOp' = "failed" => fault' \/ drainOp = "failed"
  <2>1. CASE AcceptCompletes
    BY <2>1 DEF AcceptCompletes
  <2>2. CASE RetryTimerExpires
    <3>1. fault => fault'
      BY <2>2, Zenon DEF RetryTimerExpires
    <3>2. retryOp' = "failed" => fault'
      BY <2>2, Zenon DEF RetryTimerExpires
    <3> QED
      BY <2>2, <3>1, <3>2 DEF RetryTimerExpires
  <2>3. CASE DrainTimerExpires
    <3>1. fault => fault'
      BY <2>3, Zenon DEF DrainTimerExpires
    <3>2. drainOp' = "failed" => fault'
      BY <2>3, Zenon DEF DrainTimerExpires
    <3> QED
      BY <2>3, <3>1, <3>2 DEF DrainTimerExpires
  <2> QED
    BY <2>1, <2>2, <2>3 DEF Kernel
<1>3. TypeOK'
  BY <1>1 DEF IInv, TypeOK
<1>4. ConnectionAccounting' /\ ConnectionLimit' /\ AcceptorNeverStalls'
  BY <1>1, <1>2 DEF IInv, ConnectionAccounting, ConnectionLimit, AcceptorNeverStalls
<1>5. /\ DrainIsBounded' /\ DrainCompletion' /\ OnlyFaultsAreFatal' /\ QuietBeforeStart'
      /\ RunningIsUntouched' /\ DrainOwesCallback' /\ TimerErrorsAreFaults'
  BY <1>1, <1>2 DEF IInv, DrainIsBounded, DrainCompletion, OnlyFaultsAreFatal,
     QuietBeforeStart, RunningIsUntouched, DrainOwesCallback, TimerErrorsAreFaults
<1> QED
  BY <1>3, <1>4, <1>5 DEF IInv

----------------------------------------------------------------------------
(* The invariant holds at first and every step keeps it.                   *)

\* A new server satisfies the invariant.
LEMMA InitInv == Init => IInv
<1> SUFFICES ASSUME Init PROVE IInv
  OBVIOUS
<1> USE DEF Init
<1>1. TypeOK
  BY DEF TypeOK, Phases, SessionPhases, OpStates
<1>2. ConnectionAccounting /\ ConnectionLimit
  BY FS_EmptySet, MaxConnectionsAssumption DEF ConnectionAccounting, ConnectionLimit, LivePhases
<1>3. /\ AcceptorNeverStalls /\ DrainIsBounded /\ DrainCompletion /\ OnlyFaultsAreFatal
      /\ QuietBeforeStart /\ RunningIsUntouched /\ DrainOwesCallback /\ TimerErrorsAreFaults
  BY DEF AcceptorNeverStalls, DrainIsBounded, DrainCompletion, OnlyFaultsAreFatal,
         QuietBeforeStart, RunningIsUntouched, DrainOwesCallback, TimerErrorsAreFaults
<1> QED
  BY <1>1, <1>2, <1>3 DEF IInv

\* Every call, handler and kernel step preserves the invariant.
LEMMA StepInv == IInv /\ [Next]_serverVars => IInv'
<1> SUFFICES ASSUME IInv, [Next]_serverVars PROVE IInv'
  OBVIOUS
<1>0. /\ acceptOp \in OpStates /\ retryOp \in OpStates /\ drainOp \in OpStates
      /\ accept_pending \in BOOLEAN /\ retry_pending \in BOOLEAN /\ paused \in BOOLEAN
  BY DEF IInv, TypeOK
<1>1. CASE Start
  BY <1>1, StartInv
<1>2. CASE StartThrows
  BY <1>2, StartThrowsInv
<1>3. CASE BeginDrain
  BY <1>3, BeginDrainInv
<1>4. CASE BeginDrainThrows
  <2>1. /\ FailRuntime(sessions, active_connections, active_sessions, acceptOp, retryOp, drainOp)
        /\ UNCHANGED <<accept_pending, retry_pending, paused>> /\ fault' = TRUE
    BY <1>4 DEF BeginDrainThrows
  <2> QED
    BY <1>0, <2>1, FailRuntimeHereInv
<1>5. CASE ForceStopDrain
  <2>1. /\ phase = "draining"
        /\ ForceStop(sessions, active_connections, active_sessions, acceptOp, retryOp, drainOp)
        /\ UNCHANGED <<accept_pending, retry_pending, paused, session_draining, started,
                       runtime_failed, fault>>
    BY <1>5 DEF ForceStopDrain
  <2>2. drain_callback_claimed = FALSE /\ drain_completion_enabled = TRUE /\ fault \in BOOLEAN
    BY <2>1 DEF IInv, TypeOK, DrainOwesCallback
  <2>3. phase' = "completed" =>
            drain_callback_claimed' = TRUE /\ drain_completion_enabled' \in BOOLEAN
    BY <1>5, <2>2 DEF ForceStopDrain, FinishDrain
  <2> QED
    BY <1>0, <2>1, <2>3, ForceStopInv DEF IInv, TimerErrorsAreFaults
<1>6. CASE Stop /\ UNCHANGED fault
  BY <1>6, StopInv
<1>7. CASE ServerHandler
  BY <1>7, ServerHandlerInv
<1>8. ASSUME NEW s \in Session, SessionHandler(s) PROVE IInv'
  BY <1>8, SessionHandlerInv
<1>9. CASE Kernel
  BY <1>9, KernelInv
<1>10. CASE UNCHANGED serverVars
  <2> USE <1>10 DEF serverVars, drainVars, capacityVars, claimVars, sessionVars, opVars
  <2>1. TypeOK'
    BY DEF IInv, TypeOK
  <2>2. ConnectionAccounting' /\ ConnectionLimit' /\ AcceptorNeverStalls'
    BY DEF IInv, ConnectionAccounting, ConnectionLimit, AcceptorNeverStalls
  <2>3. /\ DrainIsBounded' /\ DrainCompletion' /\ OnlyFaultsAreFatal' /\ QuietBeforeStart'
        /\ RunningIsUntouched' /\ DrainOwesCallback' /\ TimerErrorsAreFaults'
    BY DEF IInv, DrainIsBounded, DrainCompletion, OnlyFaultsAreFatal, QuietBeforeStart,
           RunningIsUntouched, DrainOwesCallback, TimerErrorsAreFaults
  <2> QED
    BY <2>1, <2>2, <2>3 DEF IInv
<1> QED
  BY <1>1, <1>2, <1>3, <1>4, <1>5, <1>6, <1>7, <1>8, <1>9, <1>10 DEF Next

\* The inductive invariant holds in every reachable state of the server.
THEOREM Invariance == Spec => []IInv
<1> QED
  BY InitInv, StepInv, PTL DEF Spec

\* TypeOK holds for every set of sessions and every connection limit.
THEOREM TypeCorrect == Spec => []TypeOK
<1>1. IInv => TypeOK
  BY DEF IInv
<1> QED
  BY <1>1, Invariance, PTL

\* The session set and both counters agree, whatever the interleaving of
\* accepts, closes, drains, forced stops and failures.
THEOREM AccountingTheorem == Spec => []ConnectionAccounting
<1>1. IInv => ConnectionAccounting
  BY DEF IInv
<1> QED
  BY <1>1, Invariance, PTL

\* max_connections is never exceeded, for every limit.
THEOREM LimitTheorem == Spec => []ConnectionLimit
<1>1. IInv => ConnectionLimit
  BY DEF IInv
<1> QED
  BY <1>1, Invariance, PTL

\* A running server always has an accept or a retry pending, or is full.
THEOREM AcceptorTheorem == Spec => []AcceptorNeverStalls
<1>1. IInv => AcceptorNeverStalls
  BY DEF IInv
<1> QED
  BY <1>1, Invariance, PTL

\* A drain always has its deadline and waits for dispatched work only.
THEOREM DrainBoundTheorem == Spec => []DrainIsBounded
<1>1. IInv => DrainIsBounded
  BY DEF IInv
<1> QED
  BY <1>1, Invariance, PTL

\* The drain callback is neither early nor lost.
THEOREM DrainCompletionTheorem == Spec => []DrainCompletion
<1>1. IInv => DrainCompletion
  BY DEF IInv
<1> QED
  BY <1>1, Invariance, PTL

\* Shutdown's own cancellations never reach fail_runtime.
THEOREM FaultTheorem == Spec => []OnlyFaultsAreFatal
<1>1. IInv => OnlyFaultsAreFatal
  BY DEF IInv
<1> QED
  BY <1>1, Invariance, PTL

----------------------------------------------------------------------------
(* What a step after the start of a drain may not do.                      *)

NothingNew ==
    /\ phase' # "running"
    /\ sessions' \subseteq sessions
    /\ \A s \in sessions' : session_phase'[s] \in {"handshaking", "reading"}
                                => session_phase'[s] = session_phase[s]

\* No single step adds a session or resumes reading once the drain began.
LEMMA NothingNewStep ==
    ASSUME IInv, Next, phase # "running"
    PROVE  NothingNew
<1> USE DEF drainVars, capacityVars, claimVars, sessionVars, opVars
<1>0. /\ phase \in {"draining", "completed"} /\ drainOp \in OpStates
      /\ "none" \in OpStates
  BY DEF IInv, TypeOK, Phases, DrainCompletion, OpStates
<1>1. ASSUME NEW op \in OpStates,
             ForceStop(sessions, active_connections, active_sessions, acceptOp, retryOp, op)
      PROVE  NothingNew
  BY <1>1, ForceStopHere DEF NothingNew
<1>2. ASSUME UNCHANGED <<phase, sessions, session_phase>> PROVE NothingNew
  BY <1>2 DEF NothingNew
<1>3. CASE ForceStopDrain
  BY <1>0, <1>1, <1>3 DEF ForceStopDrain
<1>4. CASE Stop /\ UNCHANGED fault
  BY <1>0, <1>1, <1>2, <1>4 DEF Stop
<1>5. CASE Start \/ StartThrows \/ BeginDrain \/ BeginDrainThrows
  BY <1>5 DEF Start, StartThrows, BeginDrain, BeginDrainThrows
<1>6. CASE Kernel
  BY <1>2, <1>6 DEF Kernel, AcceptCompletes, RetryTimerExpires, DrainTimerExpires
<1>7. CASE ServerHandler
  <2>1. CASE OnDrainTimeout
    BY <1>0, <1>1, <2>1 DEF OnDrainTimeout
  <2>2. CASE OnDrainTimerFails
    BY <1>0, <1>1, <2>2 DEF OnDrainTimerFails, FailRuntime
  <2>3. CASE OnAcceptStopped \/ OnDrainTimerIgnored \/ OnBackgroundCancelled
             \/ OnAcceptRetryTimer
    BY <1>2, <2>3 DEF OnAcceptStopped, OnDrainTimerIgnored, OnBackgroundCancelled,
                      OnAcceptRetryTimer
  <2> QED
    BY <1>7, <2>1, <2>2, <2>3 DEF ServerHandler, OnAcceptError, OnAcceptSession, OnAcceptThrows,
       OnAcceptRetryTimerFails, HealthCheckSchedulerFails
<1>8. ASSUME NEW s \in Session, SessionHandler(s) PROVE NothingNew
  <2>1. session_phase[s] \in LivePhases =>
          /\ s \in sessions /\ phase = "draining" /\ s \in session_draining
          /\ session_phase[s] \in {"proxying", "writing", "closing"}
    BY <1>0 DEF IInv, ConnectionAccounting, DrainIsBounded, DrainCompletion
  <2>2. ASSUME SessionCloses(s) PROVE NothingNew
    <3>1. /\ sessions' = sessions \ {s} /\ phase' \in {"completed", phase}
          /\ session_phase' = [t \in Session |-> IF t \in {s} THEN "finished"
                                                               ELSE session_phase[t]]
      BY <2>2 DEF SessionCloses, Finish
    <3>2. sessions \in SUBSET Session
      BY DEF IInv, TypeOK
    <3> QED
      BY <3>1, <3>2 DEF NothingNew
  <2>3. ASSUME NEW to \in {"proxying", "writing", "closing", "free"}, SessionMoves(s, to)
        PROVE  NothingNew
    BY <2>3 DEF NothingNew, SessionMoves, IInv, TypeOK
  <2>4. GracefulClose(s) => NothingNew
    BY <2>2, <2>3 DEF GracefulClose
  <2>5. CASE OnHandshake(s) \/ OnRead(s)
    BY <2>1, <2>5 DEF OnHandshake, OnRead, LivePhases
  <2>6. CASE OnProxy(s)
    BY <2>2, <2>3, <2>6 DEF OnProxy
  <2>7. CASE OnWrite(s)
    BY <2>1, <2>2, <2>4, <2>7 DEF OnWrite, LivePhases
  <2>8. CASE OnTlsShutdown(s) \/ SessionReleased(s) \/ SessionClosesAcceptThrows(s)
    BY <2>2, <2>3, <2>8 DEF OnTlsShutdown, SessionReleased, SessionClosesAcceptThrows
  <2> QED
    BY <1>8, <2>5, <2>6, <2>7, <2>8 DEF SessionHandler
<1> QED
  BY <1>3, <1>4, <1>5, <1>6, <1>7, <1>8 DEF Next

\* From the start of a drain no session is added, none reads another request
\* and the server never runs again.
THEOREM NothingNewTheorem == Spec => NothingNewAfterDrain
<1>1. IInv /\ [Next]_serverVars => [phase # "running" => NothingNew]_serverVars
  BY NothingNewStep
<1> QED
  BY <1>1, Invariance, PTL DEF Spec, NothingNewAfterDrain, NothingNew
=============================================================================
