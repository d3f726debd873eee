------------------------- MODULE ApplicationProofs -------------------------
(***************************************************************************)
(* The process around the server: whatever Application::Impl does is a     *)
(* step of the server's specification or leaves the server alone, so that  *)
(* everything HttpServerProofs shows holds in the process, too; and the    *)
(* process fails only because something failed.                            *)
(***************************************************************************)
EXTENDS Application, HttpServerProofs

\* Every step of the process is a step of the server or none: the owner calls
\* only the interface, and the loop dispatches only the server's handlers.
LEMMA AppStepIsServerStep == [AppNext]_allVars => [Next]_serverVars
<1> USE DEF Next
<1>1. CASE AppStart
  BY <1>1 DEF AppStart
<1>2. CASE AppStartThrows
  BY <1>2 DEF AppStartThrows
<1>4. CASE AppRun
  BY <1>4 DEF AppRun
<1>5. CASE AppRunArmThrows
  BY <1>5 DEF AppRunArmThrows, FailSignalWait
<1>6. CASE RunReturns
  BY <1>6 DEF RunReturns
<1>7. CASE OnSignalBeginDrain
  BY <1>7 DEF OnSignalBeginDrain
<1>8. CASE OnSignalArmThrows
  BY <1>8 DEF OnSignalArmThrows, FailSignalWait
<1>9. CASE OnSignalForceStop
  BY <1>9 DEF OnSignalForceStop
<1>10. CASE OnSignalIgnored
  BY <1>10 DEF OnSignalIgnored
<1>11. CASE OnSignalFatal
  BY <1>11 DEF OnSignalFatal, FailSignalWait
<1>12. CASE LoopHandler(ServerHandler)
  BY <1>12 DEF LoopHandler
<1>13. CASE LoopHandler(\E s \in Session : SessionHandler(s))
  BY <1>13 DEF LoopHandler
<1>14. CASE KernelStep
  BY <1>14 DEF KernelStep
<1>15. CASE RaiseSignal
  BY <1>15 DEF RaiseSignal
<1>16. CASE SignalWaitFails
  BY <1>16 DEF SignalWaitFails
<1>17. CASE Exited
  BY <1>17 DEF Exited, allVars
<1>18. CASE UNCHANGED allVars
  BY <1>18 DEF allVars
<1> QED
  BY <1>1, <1>2, <1>4, <1>5, <1>6, <1>7, <1>8, <1>9, <1>10, <1>11, <1>12, <1>13,
     <1>14, <1>15, <1>16, <1>17, <1>18 DEF AppNext

\* So what is proved of the server carries over to the process.
LEMMA AppImplementsServer == AppSpec => Spec
<1>1. AppInit => Init
  BY DEF AppInit
<1> QED
  BY <1>1, AppStepIsServerStep, PTL DEF AppSpec, Spec

----------------------------------------------------------------------------
\* A recorded fault is never forgotten by the server.
LEMMA FaultStays == [Next]_serverVars /\ fault => fault'
<1> SUFFICES ASSUME [Next]_serverVars, fault PROVE fault'
  OBVIOUS
<1>1. CASE Start
  BY <1>1 DEF Start
<1>2. CASE StartThrows
  BY <1>2 DEF StartThrows
<1>3. CASE BeginDrain
  BY <1>3 DEF BeginDrain
<1>4. CASE BeginDrainThrows
  BY <1>4 DEF BeginDrainThrows
<1>5. CASE ForceStopDrain
  BY <1>5 DEF ForceStopDrain
<1>6. CASE Stop /\ UNCHANGED fault
  BY <1>6
<1>7. CASE ServerHandler
  <2>1. CASE OnAcceptStopped
    BY <2>1 DEF OnAcceptStopped
  <2>2. CASE OnAcceptError
    BY <2>2 DEF OnAcceptError
  <2>3. CASE \E s \in Session : OnAcceptSession(s)
    BY <2>3 DEF OnAcceptSession
  <2>4. CASE \E s \in Session, inserted \in BOOLEAN : OnAcceptThrows(s, inserted)
    BY <2>4 DEF OnAcceptThrows
  <2>5. CASE OnAcceptRetryTimer
    BY <2>5 DEF OnAcceptRetryTimer
  <2>6. CASE OnAcceptRetryTimerFails
    BY <2>6 DEF OnAcceptRetryTimerFails
  <2>7. CASE OnDrainTimerIgnored
    BY <2>7 DEF OnDrainTimerIgnored
  <2>8. CASE OnDrainTimeout
    BY <2>8 DEF OnDrainTimeout
  <2>9. CASE OnDrainTimerFails
    BY <2>9 DEF OnDrainTimerFails
  <2>10. CASE HealthCheckSchedulerFails
    BY <2>10 DEF HealthCheckSchedulerFails
  <2>11. CASE OnBackgroundCancelled
    BY <2>11 DEF OnBackgroundCancelled
  <2> QED
    BY <1>7, <2>1, <2>2, <2>3, <2>4, <2>5, <2>6, <2>7, <2>8, <2>9, <2>10, <2>11
       DEF ServerHandler
<1>8. CASE \E s \in Session : SessionHandler(s)
  <2>1. PICK s \in Session : SessionHandler(s)
    BY <1>8
  <2>2. ASSUME NEW to, SessionMoves(s, to) PROVE fault'
    BY <2>2 DEF SessionMoves
  <2>3. SessionCloses(s) => fault'
    BY DEF SessionCloses
  <2>4. GracefulClose(s) => fault'
    BY <2>2, <2>3 DEF GracefulClose
  <2>5. SessionClosesAcceptThrows(s) => fault'
    BY DEF SessionClosesAcceptThrows
  <2> QED
    BY <2>1, <2>2, <2>3, <2>4, <2>5 DEF SessionHandler, OnHandshake, OnRead, OnProxy, OnWrite,
       OnTlsShutdown, SessionReleased
<1>9. CASE Kernel
  BY <1>9 DEF Kernel, AcceptCompletes, RetryTimerExpires, DrainTimerExpires
<1>10. CASE UNCHANGED serverVars
  BY <1>10 DEF serverVars
<1> QED
  BY <1>1, <1>2, <1>3, <1>4, <1>5, <1>6, <1>7, <1>8, <1>9, <1>10 DEF Next

\* FailureNeedsFault with what it rests on: a signal wait fails only for a
\* reason that was recorded, and is cancelled only when shutdown is complete.
AppInv ==
    /\ FailureNeedsFault
    /\ signalOp = "failed" => signal_fault
    /\ signalOp = "aborted" => sig_completed

\* The server's callbacks into the owner keep it: a run-time failure has a
\* cause in the server, and a throwing cancel is one of its own.
LEMMA CallbacksInv ==
    ASSUME AppInv, NEW op \in {"none", "armed", "fired", signalOp}, Callbacks(op),
           fault => fault', runtime_failed' => fault'
    PROVE  AppInv'
<1>1. FailureNeedsFault'
  BY DEF AppInv, FailureNeedsFault, Callbacks
<1>2. (signalOp = "failed" => signal_fault)'
  BY DEF AppInv, Callbacks, Cancel
<1>3. (signalOp = "aborted" => sig_completed)'
  BY DEF AppInv, Callbacks, Cancel
<1> QED
  BY <1>1, <1>2, <1>3 DEF AppInv

\* Every step of the process keeps it.
LEMMA AppStepInv == AppInv /\ IInv' /\ [AppNext]_allVars => AppInv'
<1> SUFFICES ASSUME AppInv, IInv', [AppNext]_allVars PROVE AppInv'
  OBVIOUS
<1>0. /\ fault => fault'
      /\ runtime_failed' => fault'
  BY AppStepIsServerStep, FaultStays DEF IInv, OnlyFaultsAreFatal
<1>1. CASE AppStart
  BY <1>0, <1>1 DEF AppStart, AppInv, FailureNeedsFault, signalStateVars, signalVars
<1>2. CASE AppStartThrows
  BY <1>0, <1>2 DEF AppStartThrows, StartThrows, AppInv, FailureNeedsFault, signalStateVars,
     signalVars
<1>4. CASE AppRun
  BY <1>0, <1>4 DEF AppRun, ArmSignalWait, AppInv, FailureNeedsFault, signalStateVars
<1>5. CASE AppRunArmThrows
  BY <1>0, <1>5 DEF AppRunArmThrows, FailSignalWait, AppInv, FailureNeedsFault
<1>6. CASE RunReturns
  BY <1>0, <1>6 DEF RunReturns, AppInv, FailureNeedsFault, signalStateVars, signalVars
<1>7. CASE OnSignalBeginDrain
  BY <1>0, <1>7, CallbacksInv DEF OnSignalBeginDrain, ArmSignalWait
<1>8. CASE OnSignalArmThrows
  BY <1>0, <1>8 DEF OnSignalArmThrows, FailSignalWait, AppInv, FailureNeedsFault
<1>9. CASE OnSignalForceStop
  BY <1>0, <1>9, CallbacksInv DEF OnSignalForceStop
<1>10. CASE OnSignalIgnored
  BY <1>0, <1>10 DEF OnSignalIgnored, AppInv, FailureNeedsFault, signalStateVars
<1>11. CASE OnSignalFatal
  <2>1. signal_fault
    BY <1>11 DEF OnSignalFatal, Queued, Disposition, AppInv
  <2> QED
    BY <2>1, <1>0, <1>11 DEF OnSignalFatal, FailSignalWait, AppInv, FailureNeedsFault
<1>12. CASE LoopHandler(ServerHandler)
  BY <1>0, <1>12, CallbacksInv DEF LoopHandler
<1>13. CASE LoopHandler(\E s \in Session : SessionHandler(s))
  BY <1>0, <1>13, CallbacksInv DEF LoopHandler
<1>14. CASE KernelStep
  BY <1>0, <1>14 DEF KernelStep, AppInv, FailureNeedsFault, appVars, signalStateVars, signalVars
<1>15. CASE RaiseSignal
  BY <1>0, <1>15 DEF RaiseSignal, AppInv, FailureNeedsFault, signalStateVars
<1>16. CASE SignalWaitFails
  BY <1>0, <1>16 DEF SignalWaitFails, AppInv, FailureNeedsFault, signalStateVars
<1>17. CASE Exited
  BY <1>0, <1>17 DEF Exited, AppInv, FailureNeedsFault, allVars, appVars, signalStateVars,
     signalVars
<1>18. CASE UNCHANGED allVars
  BY <1>0, <1>18 DEF AppInv, FailureNeedsFault, allVars, appVars, signalStateVars, signalVars
<1> QED
  BY <1>1, <1>2, <1>4, <1>5, <1>6, <1>7, <1>8, <1>9, <1>10, <1>11, <1>12, <1>13,
     <1>14, <1>15, <1>16, <1>17, <1>18 DEF AppNext

\* Application::run returns EXIT_FAILURE only after a real fault: a drain that
\* ends by itself, at its deadline or by a second signal never turns into one.
THEOREM FailureTheorem == AppSpec => []FailureNeedsFault
<1>1. AppInit => AppInv
  BY DEF AppInit, AppInv, FailureNeedsFault
<1>2. AppSpec => []IInv
  BY AppImplementsServer, Invariance, PTL
<1>3. AppInv => FailureNeedsFault
  BY DEF AppInv
<1> QED
  BY <1>1, <1>2, <1>3, AppStepInv, PTL DEF AppSpec

\* The connection limit holds in the process: the server's theorem carried
\* over by the refinement.
THEOREM ProcessLimitTheorem == AppSpec => []ConnectionLimit
  BY AppImplementsServer, LimitTheorem, PTL

----------------------------------------------------------------------------
(* The signals, the phase of the server and the exit code.                 *)

\* ShutdownSignalState and DrainState are two state machines that are never
\* compared by the code: they agree until the shutdown is complete.
SignalsFollowPhase ==
    /\ sig_completed => phase = "completed"
    /\ sig_force_requested => sig_completed
    /\ proc \in {"started", "running"} /\ ~sig_completed =>
          phase = IF sig_draining THEN "draining" ELSE "running"

\* The life of the process and of the server.
ProcessStages ==
    /\ proc = "created" => ~started /\ ~sig_completed /\ ~sig_draining
    /\ proc \in {"started", "running"} => started
    /\ proc = "stopping" => exit_code = "failure"

\* A server that is completed in a process that still runs was drained after a
\* signal, or the exit code already says that it failed.
CompletedIsExplained ==
    proc \in {"started", "running"} /\ phase = "completed" /\ exit_code = "success" =>
        sig_draining /\ drain_callback_claimed

\* fail_runtime leaves nothing running.
RuntimeFailureIsFinal == runtime_failed => phase = "completed"

ProcessInv ==
    /\ AppTypeOK
    /\ RuntimeFailureIsFinal
    /\ SignalsFollowPhase
    /\ ProcessStages
    /\ CompletedIsExplained
    /\ AlwaysListening
    /\ SuccessMeansDrained

\* What one handler of the server can do to the phase: nothing, or complete it,
\* and then it calls back, if it was draining, or fails.
HandlerOutcome ==
    /\ started' = started
    /\ \/ phase' = phase
       \/ /\ phase' = "completed"
          /\ \/ drain_callback_claimed' /\ ~drain_callback_claimed
             \/ runtime_failed' /\ ~runtime_failed
    /\ drain_callback_claimed' /\ ~drain_callback_claimed => phase = "draining"

\* What no step of the server takes back, and how a run-time failure ends.
ClaimsAreKept ==
    /\ drain_callback_claimed => drain_callback_claimed'
    /\ runtime_failed => runtime_failed'
    /\ runtime_failed' => runtime_failed \/ phase' = "completed"

\* fail_runtime completes the phase in its own handler.
LEMMA FailRuntimeOutcome ==
    ASSUME IInv, IInv', RuntimeFailureIsFinal, phase # "completed",
           NEW open, NEW connections, NEW counted, NEW accept_op, NEW retry_op, NEW drain_op,
           FailRuntime(open, connections, counted, accept_op, retry_op, drain_op)
    PROVE  HandlerOutcome /\ ClaimsAreKept
<1>1. phase' \in {"completed", "force_stopping"} /\ phase' # "force_stopping"
  BY DEF FailRuntime, ForceStop, Finish, IInv, DrainCompletion
<1>2. runtime_failed' /\ ~runtime_failed
  BY DEF FailRuntime, RuntimeFailureIsFinal
<1>3. drain_callback_claimed' = drain_callback_claimed /\ started' = started
  BY DEF FailRuntime
<1> QED
  BY <1>1, <1>2, <1>3 DEF HandlerOutcome, ClaimsAreKept

\* A step that leaves these four alone.
LEMMA SamePhaseOutcome ==
    ASSUME UNCHANGED <<started, phase, drain_callback_claimed, runtime_failed>>
    PROVE  HandlerOutcome /\ ClaimsAreKept
BY DEF HandlerOutcome, ClaimsAreKept

\* finish_drain calls back when it is reached, and only once.
LEMMA FinishDrainOutcome ==
    ASSUME IInv, IInv', NEW in_phase \in {"draining", "force_stopping"}, phase = "draining",
           phase' \in {"completed", in_phase},
           FinishDrain(phase' = "completed", drain_completion_enabled),
           started' = started, runtime_failed' = runtime_failed
    PROVE  HandlerOutcome /\ ClaimsAreKept
<1>1. drain_completion_enabled /\ ~drain_callback_claimed
  BY DEF IInv, DrainOwesCallback
<1>2. phase' # "force_stopping"
  BY DEF IInv, DrainCompletion
<1>3. phase' = "completed" => drain_callback_claimed'
  BY <1>1 DEF FinishDrain
<1> QED
  BY <1>1, <1>2, <1>3 DEF HandlerOutcome, ClaimsAreKept

\* The server's handlers.
LEMMA ServerHandlerOutcome ==
    ASSUME IInv, IInv', RuntimeFailureIsFinal, ServerHandler
    PROVE  HandlerOutcome /\ ClaimsAreKept
<1> USE DEF drainVars, claimVars
<1>1. CASE OnAcceptStopped \/ OnAcceptError \/ OnAcceptRetryTimer \/ OnDrainTimerIgnored
           \/ OnBackgroundCancelled
  BY <1>1, SamePhaseOutcome DEF OnAcceptStopped, OnAcceptError, OnAcceptRetryTimer,
     OnDrainTimerIgnored, OnBackgroundCancelled
<1>2. ASSUME NEW s \in Session, OnAcceptSession(s)
      PROVE  HandlerOutcome /\ ClaimsAreKept
  BY <1>2, SamePhaseOutcome DEF OnAcceptSession
<1>3. ASSUME NEW s \in Session, NEW inserted \in BOOLEAN, OnAcceptThrows(s, inserted)
      PROVE  HandlerOutcome /\ ClaimsAreKept
  BY <1>3, FailRuntimeOutcome DEF OnAcceptThrows
<1>4. CASE OnAcceptRetryTimerFails
  BY <1>4, FailRuntimeOutcome DEF OnAcceptRetryTimerFails
<1>5. CASE OnDrainTimeout
  <2>1. phase' \in {"completed", "force_stopping"}
    BY <1>5 DEF OnDrainTimeout, ForceStop, Finish
  <2> QED
    BY <1>5, <2>1, FinishDrainOutcome DEF OnDrainTimeout
<1>6. CASE OnDrainTimerFails
  BY <1>6, FailRuntimeOutcome DEF OnDrainTimerFails
<1>7. CASE HealthCheckSchedulerFails
  BY <1>7, FailRuntimeOutcome DEF HealthCheckSchedulerFails
<1> QED
  BY <1>1, <1>2, <1>3, <1>4, <1>5, <1>6, <1>7 DEF ServerHandler

\* The sessions' handlers.
LEMMA SessionHandlerOutcome ==
    ASSUME IInv, IInv', RuntimeFailureIsFinal, NEW s \in Session, SessionHandler(s)
    PROVE  HandlerOutcome /\ ClaimsAreKept
<1> USE DEF drainVars, claimVars
<1>1. ASSUME NEW to, SessionMoves(s, to)
      PROVE  HandlerOutcome /\ ClaimsAreKept
  BY <1>1, SamePhaseOutcome DEF SessionMoves
<1>2. ASSUME session_phase[s] \in LivePhases, SessionCloses(s)
      PROVE  HandlerOutcome /\ ClaimsAreKept
  <2>1. s \in sessions /\ phase \in {"running", "draining"}
    BY <1>2 DEF IInv, ConnectionAccounting, DrainCompletion, TypeOK, Phases
  <2>2. started' = started /\ runtime_failed' = runtime_failed
    BY <1>2 DEF SessionCloses
  <2>3. CASE phase = "running"
    <3>1. phase' = phase /\ drain_callback_claimed' = drain_callback_claimed
      BY <1>2, <2>3 DEF SessionCloses, Finish
    <3> QED
      BY <2>2, <3>1, SamePhaseOutcome
  <2>4. CASE phase = "draining"
    <3>1. phase' \in {"completed", "draining"} /\ FinishDrain(phase' = "completed", drain_completion_enabled)
      BY <1>2, <2>4 DEF SessionCloses, Finish
    <3> QED
      BY <2>2, <2>4, <3>1, FinishDrainOutcome
  <2> QED
    BY <2>1, <2>3, <2>4
<1>3. ASSUME session_phase[s] \in LivePhases, GracefulClose(s)
      PROVE  HandlerOutcome /\ ClaimsAreKept
  BY <1>1, <1>2, <1>3 DEF GracefulClose
<1>4. CASE SessionClosesAcceptThrows(s)
  BY <1>4, FailRuntimeOutcome DEF SessionClosesAcceptThrows
<1> QED
  BY <1>1, <1>2, <1>3, <1>4 DEF SessionHandler, OnHandshake, OnRead, OnProxy, OnWrite, OnTlsShutdown,
     SessionReleased, LivePhases

\* What the phase, the claims and `started' become in every step of the server.
LEMMA ServerStepOutcome ==
    ASSUME IInv, IInv', RuntimeFailureIsFinal, [Next]_serverVars
    PROVE  /\ ClaimsAreKept
           /\ phase = "completed" => phase' = "completed"
           /\ RuntimeFailureIsFinal'
<1> USE DEF drainVars, claimVars
<1>1. ClaimsAreKept
  <2>1. CASE Start \/ Kernel \/ UNCHANGED serverVars
    BY <2>1, SamePhaseOutcome DEF Start, Kernel, AcceptCompletes, RetryTimerExpires,
       DrainTimerExpires, serverVars, ClaimsAreKept
  <2>2. CASE StartThrows \/ Stop
    <3>1. UNCHANGED <<drain_callback_claimed, runtime_failed>>
      BY <2>2 DEF StartThrows, Stop
    <3> QED
      BY <3>1 DEF ClaimsAreKept
  <2>3. CASE BeginDrain
    BY <2>3 DEF BeginDrain, FinishDrain, ClaimsAreKept
  <2>4. CASE BeginDrainThrows
    BY <2>4, FailRuntimeOutcome DEF BeginDrainThrows
  <2>5. CASE ForceStopDrain
    BY <2>5 DEF ForceStopDrain, FinishDrain, ClaimsAreKept
  <2> QED
    BY <2>1, <2>2, <2>3, <2>4, <2>5, ServerHandlerOutcome, SessionHandlerOutcome DEF Next
<1>2. phase = "completed" => phase' = "completed"
  <2>1. SUFFICES ASSUME phase = "completed" PROVE phase' = "completed"
    OBVIOUS
  <2>2. CASE UNCHANGED serverVars
    BY <2>1, <2>2 DEF serverVars
  <2>3. CASE Next
    <3>1. phase' # "running" /\ sessions' \subseteq sessions /\ sessions = {}
      BY <2>1, <2>3, NothingNewStep DEF NothingNew, IInv, DrainCompletion
    <3> QED
      BY <3>1 DEF IInv, TypeOK, Phases, DrainCompletion, DrainIsBounded
  <2> QED
    BY <2>2, <2>3
<1>3. RuntimeFailureIsFinal'
  BY <1>1, <1>2 DEF RuntimeFailureIsFinal, ClaimsAreKept
<1> QED
  BY <1>1, <1>2, <1>3

\* The server's callbacks, in a handler that is not on_signal's: the owner's
\* state follows the phase.
LEMMA CallbacksProcess ==
    ASSUME IInv, IInv', ProcessInv, RuntimeFailureIsFinal', HandlerOutcome, ClaimsAreKept,
           proc \in {"started", "running"}, Callbacks(signalOp),
           phase = "completed" => phase' = "completed",
           UNCHANGED <<sig_draining, sig_force_requested, signal_queue, signals_sent>>
    PROVE  ProcessInv'
<1> DEFINE drained == drain_callback_claimed' /\ ~drain_callback_claimed
           failed == runtime_failed' /\ ~runtime_failed
           thrown == drained /\ ~drain_completion_enabled'
<1>1. /\ sig_completed' <=> sig_completed \/ drained \/ failed
      /\ sig_completed' \in BOOLEAN /\ signal_fault' \in BOOLEAN
  BY DEF Callbacks, ProcessInv, AppTypeOK
<1>2. /\ signalOp' = IF drained /\ ~thrown THEN Cancel(signalOp) ELSE signalOp
      /\ exit_code' = IF failed \/ thrown THEN "failure" ELSE exit_code
      /\ proc' = IF failed \/ thrown THEN "stopping" ELSE proc
  BY DEF Callbacks
<1>3. /\ drained => phase' = "completed" /\ phase = "draining"
      /\ failed => phase' = "completed"
      /\ drain_callback_claimed => phase = "completed"
  BY DEF IInv, DrainCompletion, RuntimeFailureIsFinal, RunningIsUntouched, HandlerOutcome
<1>4. phase' = phase \/ (phase' = "completed" /\ (drained \/ failed))
  BY DEF HandlerOutcome
<1>5. drain_callback_claimed' <=> drain_callback_claimed \/ drained
  BY DEF ClaimsAreKept
<1>6. started' = started
  BY DEF HandlerOutcome
<1> HIDE DEF drained, failed, thrown
<1>7. thrown => drained
  BY DEF thrown
<1>8. AppTypeOK'
  BY <1>1, <1>2 DEF ProcessInv, AppTypeOK, Cancel, OpStates
<1>9. SignalsFollowPhase'
  BY <1>1, <1>2, <1>3, <1>4 DEF ProcessInv, SignalsFollowPhase
<1>10. ProcessStages'
  BY <1>2, <1>6 DEF ProcessInv, ProcessStages
<1>11. CompletedIsExplained'
  <2>1. drained => sig_draining
    BY <1>3 DEF ProcessInv, SignalsFollowPhase
  <2> QED
    BY <1>2, <1>3, <1>4, <1>5, <2>1 DEF ProcessInv, CompletedIsExplained
<1>12. AlwaysListening'
  BY <1>2, <1>4 DEF ProcessInv, AlwaysListening, Cancel
<1>13. SuccessMeansDrained'
  BY <1>2 DEF SuccessMeansDrained
<1> QED
  BY <1>8, <1>9, <1>10, <1>11, <1>12, <1>13 DEF ProcessInv

\* stop() completes the phase.
LEMMA StopOutcome ==
    ASSUME IInv, IInv', Stop
    PROVE  phase' = "completed" /\ UNCHANGED <<started, drain_callback_claimed, runtime_failed>>
<1>1. phase' \in {"completed", "force_stopping"}
  BY DEF Stop, ForceStop, Finish, drainVars
<1>2. phase' # "force_stopping"
  BY DEF IInv, DrainCompletion
<1> QED
  BY <1>1, <1>2 DEF Stop

\* fail_signal_wait stops the process with a failure.
LEMMA FailSignalWaitProcess ==
    ASSUME IInv, IInv', ProcessInv, RuntimeFailureIsFinal', NEW op \in OpStates, FailSignalWait(op),
           sig_draining' \in BOOLEAN, sig_force_requested' = sig_force_requested,
           UNCHANGED <<signal_queue, signals_sent>>, signal_fault' \in BOOLEAN
    PROVE  ProcessInv'
<1>1. /\ phase' = "completed" /\ sig_completed' = TRUE /\ exit_code' = "failure"
      /\ proc' = "stopping" /\ signalOp' = op
  BY StopOutcome DEF FailSignalWait
<1>2. AppTypeOK'
  BY <1>1 DEF ProcessInv, AppTypeOK
<1>3. SignalsFollowPhase' /\ ProcessStages' /\ CompletedIsExplained' /\ AlwaysListening'
      /\ SuccessMeansDrained'
  BY <1>1 DEF SignalsFollowPhase, ProcessStages, CompletedIsExplained, AlwaysListening,
              SuccessMeansDrained
<1> QED
  BY <1>2, <1>3 DEF ProcessInv

\* The first signal: the drain begins, and may complete or fail at once.
LEMMA BeginDrainProcess ==
    ASSUME IInv, IInv', ProcessInv, RuntimeFailureIsFinal', OnSignalBeginDrain
    PROVE  ProcessInv'
<1> DEFINE drained == drain_callback_claimed' /\ ~drain_callback_claimed
           failed == runtime_failed' /\ ~runtime_failed
           thrown == drained /\ ~drain_completion_enabled'
<1>1. ~sig_completed /\ ~sig_force_requested /\ ~sig_draining /\ proc = "running"
  BY DEF OnSignalBeginDrain, Queued, Disposition
<1>2. phase = "running" /\ ~drain_callback_claimed /\ ~runtime_failed /\ started
  BY <1>1 DEF ProcessInv, SignalsFollowPhase, ProcessStages, IInv, RunningIsUntouched,
              RuntimeFailureIsFinal
<1>3. /\ started' = started
      /\ \/ phase' = "draining"
         \/ phase' = "completed" /\ (drained \/ failed)
      /\ drained \/ failed => phase' = "completed"
  <2>1. CASE BeginDrain
    <3>1. phase' \in {"draining", "completed"} /\ started' = started /\ runtime_failed' = runtime_failed
      BY <2>1 DEF BeginDrain, Finish
    <3>2. phase' = "completed" => drain_callback_claimed'
      BY <1>2, <2>1 DEF BeginDrain, FinishDrain
    <3>3. drain_callback_claimed' => phase' = "completed"
      BY DEF IInv, DrainCompletion
    <3> QED
      BY <1>2, <3>1, <3>2, <3>3
  <2>2. CASE BeginDrainThrows
    <3>1. FailRuntime(sessions, active_connections, active_sessions, acceptOp, retryOp, drainOp)
      BY <2>2 DEF BeginDrainThrows
    <3>2. runtime_failed' /\ started' = started /\ drain_callback_claimed' = drain_callback_claimed
      BY <3>1 DEF FailRuntime
    <3>3. phase' = "completed"
      BY <3>2 DEF RuntimeFailureIsFinal
    <3> QED
      BY <1>2, <3>2, <3>3
  <2> QED
    BY <2>1, <2>2 DEF OnSignalBeginDrain
<1>4. /\ sig_draining' = TRUE /\ sig_force_requested' = sig_force_requested
      /\ signals_sent' = signals_sent /\ signal_queue' = QueueAfterArm
      /\ Callbacks(ArmSignalWait)
  BY DEF OnSignalBeginDrain
<1>5. /\ sig_completed' <=> drained \/ failed
      /\ sig_completed' \in BOOLEAN /\ signal_fault' \in BOOLEAN
  BY <1>1, <1>4 DEF Callbacks, ProcessInv, AppTypeOK
<1>6. /\ signalOp' = IF drained /\ ~thrown THEN Cancel(ArmSignalWait) ELSE ArmSignalWait
      /\ exit_code' = IF failed \/ thrown THEN "failure" ELSE exit_code
      /\ proc' = IF failed \/ thrown THEN "stopping" ELSE proc
  BY <1>4 DEF Callbacks
<1>7. drained => drain_callback_claimed'
  OBVIOUS
<1> HIDE DEF drained, failed, thrown
<1>8. AppTypeOK'
  BY <1>4, <1>5, <1>6 DEF ProcessInv, AppTypeOK, Cancel, OpStates, ArmSignalWait, QueueAfterArm
<1>9. SignalsFollowPhase' /\ ProcessStages'
  BY <1>1, <1>2, <1>3, <1>4, <1>5, <1>6 DEF SignalsFollowPhase, ProcessStages
<1>10. CompletedIsExplained'
  BY <1>1, <1>3, <1>4, <1>6, <1>7 DEF CompletedIsExplained
<1>11. AlwaysListening'
  BY <1>6 DEF AlwaysListening, Cancel, ArmSignalWait
<1>12. SuccessMeansDrained'
  BY <1>1, <1>6 DEF SuccessMeansDrained
<1> QED
  BY <1>8, <1>9, <1>10, <1>11, <1>12 DEF ProcessInv

\* The second signal: the sessions are stopped and the drain completes.
LEMMA ForceStopProcess ==
    ASSUME IInv, IInv', ProcessInv, RuntimeFailureIsFinal', OnSignalForceStop
    PROVE  ProcessInv'
<1> DEFINE thrown == ~drain_completion_enabled'
<1>1. ~sig_completed /\ ~sig_force_requested /\ sig_draining /\ proc = "running"
  BY DEF OnSignalForceStop, Queued, Disposition
<1>2. phase = "draining" /\ drain_completion_enabled /\ ~drain_callback_claimed
  BY <1>1 DEF ProcessInv, SignalsFollowPhase, IInv, DrainOwesCallback
<1>3. ForceStopDrain /\ Callbacks("none") /\ sig_force_requested' = TRUE
      /\ UNCHANGED <<sig_draining, signal_queue, signals_sent>>
  BY DEF OnSignalForceStop
<1>4. phase' = "completed"
  BY <1>3 DEF ForceStopDrain, ForceStop, Finish, IInv, DrainCompletion
<1>5. drain_callback_claimed' /\ started' = started /\ runtime_failed' = runtime_failed
  BY <1>2, <1>3, <1>4 DEF ForceStopDrain, FinishDrain
<1>6. sig_completed' = TRUE /\ signal_fault' \in BOOLEAN
  BY <1>2, <1>3, <1>5 DEF Callbacks, ProcessInv, AppTypeOK
<1>7. /\ signalOp' = "none"
      /\ exit_code' = IF thrown THEN "failure" ELSE exit_code
      /\ proc' = IF thrown THEN "stopping" ELSE proc
  BY <1>2, <1>3, <1>5 DEF Callbacks, Cancel
<1> HIDE DEF thrown
<1>8. AppTypeOK'
  BY <1>3, <1>6, <1>7 DEF ProcessInv, AppTypeOK, OpStates
<1>9. SignalsFollowPhase' /\ ProcessStages' /\ CompletedIsExplained' /\ AlwaysListening'
  BY <1>1, <1>3, <1>4, <1>5, <1>6, <1>7 DEF ProcessInv, SignalsFollowPhase, ProcessStages,
     CompletedIsExplained, AlwaysListening
<1>10. SuccessMeansDrained'
  BY <1>1, <1>7 DEF SuccessMeansDrained
<1> QED
  BY <1>8, <1>9, <1>10 DEF ProcessInv

\* run() returns: with success only when the drain ended by itself.
LEMMA RunReturnsProcess ==
    ASSUME IInv, IInv', ProcessInv, RuntimeFailureIsFinal', RunReturns
    PROVE  ProcessInv'
<1>1. /\ proc \in {"stopping", "running"} /\ (proc = "running" => NoWorkLeft)
      /\ Stop /\ proc' = "exited" /\ UNCHANGED <<exit_code, signalStateVars, signalVars>>
  BY DEF RunReturns
<1>2. phase' = "completed" /\ drain_callback_claimed' = drain_callback_claimed
  BY <1>1, StopOutcome
<1>3. AppTypeOK'
  BY <1>1 DEF ProcessInv, AppTypeOK, signalStateVars, signalVars
<1>4. SignalsFollowPhase' /\ ProcessStages' /\ CompletedIsExplained' /\ AlwaysListening'
  BY <1>1, <1>2 DEF ProcessInv, SignalsFollowPhase, ProcessStages, CompletedIsExplained,
     AlwaysListening, signalStateVars, signalVars
<1>5. ASSUME exit_code = "success"
      PROVE  sig_draining /\ drain_callback_claimed /\ phase = "completed" /\ sessions = {} /\ NoWorkLeft
  <2>1. proc = "running" /\ NoWorkLeft
    BY <1>1, <1>5 DEF ProcessInv, ProcessStages
  <2>2. sessions = {}
    BY <2>1 DEF NoWorkLeft, IInv, ConnectionAccounting, LivePhases
  <2>3. phase # "draining"
    BY <2>2 DEF IInv, DrainIsBounded
  <2>4. phase # "running"
    <3>1. acceptOp = "none" /\ retryOp = "none"
      BY <2>1 DEF NoWorkLeft
    <3>2. Cardinality(sessions) = 0
      BY <2>2, SessionCounts
    <3> QED
      BY <2>1, <3>1, <3>2, MaxConnectionsAssumption DEF IInv, TypeOK, AcceptorNeverStalls,
         ProcessInv, ProcessStages
  <2>5. phase = "completed"
    BY <2>3, <2>4 DEF IInv, TypeOK, Phases, DrainCompletion
  <2> QED
    BY <1>5, <2>1, <2>2, <2>5 DEF ProcessInv, CompletedIsExplained
<1>6. ASSUME exit_code = "success"
      PROVE  UNCHANGED <<sessions, session_phase, opVars>>
  BY <1>1, <1>5, <1>6 DEF Stop
<1>7. SuccessMeansDrained'
  BY <1>1, <1>2, <1>5, <1>6 DEF SuccessMeansDrained, NoWorkLeft, opVars, signalStateVars, signalVars
<1> QED
  BY <1>3, <1>4, <1>7 DEF ProcessInv

\* Steps that leave the server alone, and the owner's decisions to do nothing.
LEMMA QuietProcess ==
    ASSUME IInv, IInv', ProcessInv, RuntimeFailureIsFinal',
           AppRun \/ OnSignalIgnored \/ KernelStep \/ RaiseSignal \/ SignalWaitFails \/ Exited
             \/ UNCHANGED allVars
    PROVE  ProcessInv'
<1> USE DEF drainVars, claimVars, sessionVars, opVars, serverVars, appVars, signalStateVars,
            signalVars, allVars
<1>1. UNCHANGED <<phase, started, drain_callback_claimed, exit_code, sig_draining,
                  sig_force_requested, sig_completed>>
  BY DEF AppRun, OnSignalIgnored, KernelStep, Kernel, AcceptCompletes, RetryTimerExpires,
         DrainTimerExpires, RaiseSignal, SignalWaitFails, Exited
<1>2. AppTypeOK'
  <2>1. /\ signal_queue' \in Nat /\ signals_sent' \in Nat
        /\ signalOp' \in OpStates
        /\ proc' \in {"created", "started", "running", "stopping", "exited"}
    BY DEF ProcessInv, AppTypeOK, OpStates, AppRun, ArmSignalWait, QueueAfterArm, OnSignalIgnored,
           KernelStep, RaiseSignal, SignalWaitFails, Exited
  <2>2. signal_fault' = signal_fault \/ signal_fault' = TRUE
    BY DEF AppRun, OnSignalIgnored, KernelStep, RaiseSignal, SignalWaitFails, Exited
  <2>3. signal_fault' \in BOOLEAN
    BY <2>2 DEF ProcessInv, AppTypeOK
  <2> QED
    BY <1>1, <2>1, <2>3 DEF ProcessInv, AppTypeOK
<1>3. /\ proc' = proc \/ (proc = "started" /\ proc' = "running")
      /\ proc = "exited" => UNCHANGED <<sessions, session_phase, opVars, signalOp>>
  BY DEF AppRun, OnSignalIgnored, KernelStep, RaiseSignal, SignalWaitFails, Exited
<1>4. SignalsFollowPhase' /\ ProcessStages' /\ CompletedIsExplained'
  BY <1>1, <1>3 DEF ProcessInv, SignalsFollowPhase, ProcessStages, CompletedIsExplained
<1>5. AlwaysListening'
  <2>1. CASE OnSignalIgnored
    <3>1. sig_completed \/ sig_force_requested
      BY <2>1 DEF OnSignalIgnored, Queued, Disposition
    <3> QED
      BY <1>1, <3>1 DEF ProcessInv, SignalsFollowPhase, AlwaysListening
  <2>2. CASE ~OnSignalIgnored
    <3>1. proc' = "running" /\ proc = "running" /\ signalOp # "none" => signalOp' # "none"
      BY <2>2 DEF AppRun, KernelStep, RaiseSignal, SignalWaitFails, Exited
    <3>2. proc' = "running" /\ proc # "running" => signalOp' # "none"
      BY <1>3 DEF AppRun, ArmSignalWait, OnSignalIgnored, KernelStep, RaiseSignal, SignalWaitFails,
                  Exited
    <3> QED
      BY <1>1, <3>1, <3>2 DEF ProcessInv, AlwaysListening
  <2> QED
    BY <2>1, <2>2
<1>6. SuccessMeansDrained'
  BY <1>1, <1>3 DEF ProcessInv, SuccessMeansDrained, NoWorkLeft
<1> QED
  BY <1>2, <1>4, <1>5, <1>6 DEF ProcessInv

\* Every step of the process keeps it.
LEMMA ProcessStepInv ==
    ASSUME IInv, IInv', ProcessInv, [AppNext]_allVars
    PROVE  ProcessInv'
<1>0. /\ ClaimsAreKept /\ RuntimeFailureIsFinal'
      /\ phase = "completed" => phase' = "completed"
  BY AppStepIsServerStep, ServerStepOutcome DEF ProcessInv
<1>1. CASE AppStart
  <2>1. UNCHANGED <<phase, drain_callback_claimed>> /\ started'
    BY <1>1 DEF AppStart, Start, drainVars, claimVars
  <2>2. phase = "running" /\ ~sig_draining /\ ~sig_completed
    BY <1>1 DEF AppStart, Start, ProcessInv, ProcessStages
  <2> QED
    BY <1>0, <1>1, <2>1, <2>2 DEF AppStart, ProcessInv, AppTypeOK, SignalsFollowPhase, ProcessStages,
       CompletedIsExplained, AlwaysListening, SuccessMeansDrained, signalStateVars, signalVars
<1>2. CASE AppStartThrows
  <2>1. phase' = "completed"
    BY <1>2 DEF AppStartThrows, StartThrows, ForceStop, Finish, IInv, DrainCompletion
  <2> QED
    BY <1>0, <1>2, <2>1 DEF AppStartThrows, ProcessInv, AppTypeOK, SignalsFollowPhase, ProcessStages,
       CompletedIsExplained, AlwaysListening, SuccessMeansDrained, signalStateVars, signalVars
<1>4. CASE AppRunArmThrows
  BY <1>0, <1>4, FailSignalWaitProcess DEF AppRunArmThrows, ProcessInv, AppTypeOK
<1>5. CASE RunReturns
  BY <1>0, <1>5, RunReturnsProcess
<1>6. CASE OnSignalBeginDrain
  BY <1>0, <1>6, BeginDrainProcess
<1>7. CASE OnSignalArmThrows
  <2>1. "none" \in OpStates
    BY DEF OpStates
  <2> QED
    BY <1>0, <1>7, <2>1, FailSignalWaitProcess DEF OnSignalArmThrows
<1>8. CASE OnSignalForceStop
  BY <1>0, <1>8, ForceStopProcess
<1>9. CASE OnSignalFatal
  <2>1. "none" \in OpStates
    BY DEF OpStates
  <2> QED
    BY <1>0, <1>9, <2>1, FailSignalWaitProcess DEF OnSignalFatal, ProcessInv, AppTypeOK
<1>10. CASE LoopHandler(ServerHandler)
  <2>1. HandlerOutcome
    BY <1>10, ServerHandlerOutcome DEF LoopHandler, ProcessInv
  <2> QED
    BY <1>0, <1>10, <2>1, CallbacksProcess DEF LoopHandler
<1>11. CASE LoopHandler(\E s \in Session : SessionHandler(s))
  <2>1. HandlerOutcome
    BY <1>11, SessionHandlerOutcome DEF LoopHandler, ProcessInv
  <2> QED
    BY <1>0, <1>11, <2>1, CallbacksProcess DEF LoopHandler
<1>12. CASE AppRun \/ OnSignalIgnored \/ KernelStep \/ RaiseSignal \/ SignalWaitFails \/ Exited
            \/ UNCHANGED allVars
  BY <1>0, <1>12, QuietProcess
<1> QED
  BY <1>1, <1>2, <1>4, <1>5, <1>6, <1>7, <1>8, <1>9, <1>10, <1>11, <1>12 DEF AppNext

\* The two state machines of the shutdown stay together.
THEOREM ProcessInvariance == AppSpec => []ProcessInv
<1>1. ASSUME AppInit
      PROVE  ProcessInv
  <2>1. AppTypeOK
    BY <1>1 DEF AppInit, AppTypeOK, OpStates
  <2>2. RuntimeFailureIsFinal /\ SignalsFollowPhase /\ ProcessStages
    BY <1>1 DEF AppInit, Init, RuntimeFailureIsFinal, SignalsFollowPhase, ProcessStages
  <2>3. CompletedIsExplained /\ AlwaysListening /\ SuccessMeansDrained
    BY <1>1 DEF AppInit, CompletedIsExplained, AlwaysListening, SuccessMeansDrained
  <2> QED
    BY <2>1, <2>2, <2>3 DEF ProcessInv
<1>2. AppSpec => []IInv
  BY AppImplementsServer, Invariance, PTL
<1>3. IInv /\ IInv' /\ ProcessInv /\ [AppNext]_allVars => ProcessInv'
  BY ProcessStepInv
<1> QED
  BY <1>1, <1>2, <1>3, PTL DEF AppSpec

\* Every signal that on_signal acts on finds the server in the phase in which
\* begin_drain or force_stop_drain does something.
THEOREM SignalsTheorem == AppSpec => []SignalsReachTheServer
<1>1. ProcessInv => SignalsReachTheServer
  BY DEF ProcessInv, SignalsFollowPhase, ProcessStages, SignalsReachTheServer, Disposition
<1> QED
  BY <1>1, ProcessInvariance, PTL

\* The signal wait is armed, or its handler queued, until the shutdown is
\* complete or was forced: a second signal is always heard.
THEOREM ListeningTheorem == AppSpec => []AlwaysListening
<1>1. ProcessInv => AlwaysListening
  BY DEF ProcessInv
<1> QED
  BY <1>1, ProcessInvariance, PTL

\* EXIT_SUCCESS means a drain that a signal began and that waited for every
\* session and every handler.
THEOREM SuccessTheorem == AppSpec => []SuccessMeansDrained
<1>1. ProcessInv => SuccessMeansDrained
  BY DEF ProcessInv
<1> QED
  BY <1>1, ProcessInvariance, PTL

----------------------------------------------------------------------------
(* What is left to wait for once the shutdown is complete.                 *)

\* Beginning a drain cancels the listener's waits and the background ones,
\* completing it the drain timer.
ServerWaitsEnd ==
    /\ phase \in {"draining", "completed"} =>
          acceptOp # "armed" /\ retryOp # "armed" /\ backgroundOp # "armed"
    /\ phase = "completed" => drainOp # "armed"

\* The signal wait is cancelled with the drain's completion and not armed again.
SignalWaitEnds ==
    /\ proc \in {"created", "started"} => ~sig_completed
    /\ proc = "running" /\ sig_completed => signalOp # "armed"

\* A forced stop cancels all four of the server's waits.
LEMMA ForceStopEndsWaits ==
    ASSUME NEW open, NEW connections, NEW counted, NEW accept_op, NEW retry_op, NEW drain_op,
           ForceStop(open, connections, counted, accept_op, retry_op, drain_op)
    PROVE  ServerWaitsEnd'
BY DEF ForceStop, StopAccepting, Cancel, ServerWaitsEnd

\* So does every step of the server that leaves the phase draining or completed.
LEMMA ServerWaitsStep ==
    ASSUME IInv, ServerWaitsEnd, [Next]_serverVars
    PROVE  ServerWaitsEnd'
<1> USE DEF drainVars, capacityVars, claimVars, sessionVars, opVars
<1>1. CASE Start
  BY <1>1 DEF Start, ServerWaitsEnd
<1>2. CASE StartThrows
  BY <1>2, ForceStopEndsWaits DEF StartThrows
<1>3. CASE BeginDrain
  <2>1. drainOp = "none"
    BY <1>3 DEF BeginDrain, IInv, RunningIsUntouched
  <2>2. acceptOp' # "armed" /\ retryOp' # "armed" /\ backgroundOp' # "armed"
    BY <1>3 DEF BeginDrain, StopAccepting, Cancel
  <2>3. phase' = "completed" => drainOp' # "armed"
    BY <1>3, <2>1 DEF BeginDrain
  <2> QED
    BY <2>2, <2>3 DEF ServerWaitsEnd
<1>4. CASE BeginDrainThrows
  BY <1>4, ForceStopEndsWaits DEF BeginDrainThrows, FailRuntime
<1>5. CASE ForceStopDrain
  BY <1>5, ForceStopEndsWaits DEF ForceStopDrain
<1>6. CASE Stop
  BY <1>6, ForceStopEndsWaits DEF Stop, ServerWaitsEnd
<1>7. CASE ServerHandler
  <2>1. CASE OnAcceptStopped \/ OnDrainTimerIgnored \/ OnBackgroundCancelled
    BY <2>1 DEF OnAcceptStopped, OnDrainTimerIgnored, OnBackgroundCancelled, ServerWaitsEnd
  <2>2. CASE OnAcceptError
    BY <2>2 DEF OnAcceptError, ServerWaitsEnd
  <2>3. ASSUME NEW s \in Session, OnAcceptSession(s) PROVE ServerWaitsEnd'
    BY <2>3 DEF OnAcceptSession, ServerWaitsEnd
  <2>4. CASE OnAcceptRetryTimer
    BY <2>4 DEF OnAcceptRetryTimer, ServerWaitsEnd
  <2>5. CASE OnDrainTimeout
    BY <2>5, ForceStopEndsWaits DEF OnDrainTimeout
  <2>6. ASSUME NEW s \in Session, NEW inserted \in BOOLEAN, OnAcceptThrows(s, inserted)
        PROVE  ServerWaitsEnd'
    BY <2>6, ForceStopEndsWaits DEF OnAcceptThrows, FailRuntime
  <2>7. CASE OnAcceptRetryTimerFails \/ OnDrainTimerFails \/ HealthCheckSchedulerFails
    BY <2>7, ForceStopEndsWaits DEF OnAcceptRetryTimerFails, OnDrainTimerFails,
       HealthCheckSchedulerFails, FailRuntime
  <2> QED
    BY <1>7, <2>1, <2>2, <2>3, <2>4, <2>5, <2>6, <2>7 DEF ServerHandler
<1>8. ASSUME NEW s \in Session, SessionHandler(s) PROVE ServerWaitsEnd'
  <2>1. ASSUME NEW to, SessionMoves(s, to) PROVE ServerWaitsEnd'
    BY <2>1 DEF SessionMoves, ServerWaitsEnd
  <2>2. ASSUME session_phase[s] \in LivePhases, SessionCloses(s) PROVE ServerWaitsEnd'
    <3>1. phase \in {"running", "draining"}
      BY <2>2 DEF IInv, ConnectionAccounting, DrainCompletion, TypeOK, Phases
    <3>2. CASE phase = "running"
      BY <2>2, <3>2 DEF SessionCloses, Finish, ServerWaitsEnd
    <3>3. CASE phase = "draining"
      <4>1. drain_completion_enabled
        BY <3>3 DEF IInv, DrainOwesCallback
      <4>2. /\ acceptOp' = acceptOp /\ retryOp' = retryOp /\ backgroundOp' = backgroundOp
            /\ phase' = "completed" => drainOp' = Cancel(drainOp)
        BY <2>2, <3>3, <4>1 DEF SessionCloses
      <4> QED
        BY <3>3, <4>2 DEF ServerWaitsEnd, Cancel
    <3> QED
      BY <3>1, <3>2, <3>3
  <2>3. ASSUME session_phase[s] \in LivePhases, GracefulClose(s) PROVE ServerWaitsEnd'
    BY <2>1, <2>2, <2>3 DEF GracefulClose
  <2>4. CASE SessionClosesAcceptThrows(s)
    BY <2>4, ForceStopEndsWaits DEF SessionClosesAcceptThrows, FailRuntime
  <2> QED
    BY <1>8, <2>1, <2>2, <2>3, <2>4 DEF SessionHandler, OnHandshake, OnRead, OnProxy, OnWrite,
       OnTlsShutdown, SessionReleased, LivePhases
<1>9. CASE Kernel
  BY <1>9 DEF Kernel, AcceptCompletes, RetryTimerExpires, DrainTimerExpires, ServerWaitsEnd
<1>10. CASE UNCHANGED serverVars
  BY <1>10 DEF serverVars, ServerWaitsEnd
<1> QED
  BY <1>1, <1>2, <1>3, <1>4, <1>5, <1>6, <1>7, <1>8, <1>9, <1>10 DEF Next

\* The owner's part: on_drain_complete cancels the signal wait, and on_signal arms
\* it only before the drain it begins.
LEMMA SignalWaitStep ==
    ASSUME SignalWaitEnds, [AppNext]_allVars
    PROVE  SignalWaitEnds'
<1> USE DEF SignalWaitEnds, appVars, signalStateVars, signalVars, allVars
<1>1. ASSUME NEW op, Callbacks(op), proc = "running", sig_completed => op # "armed"
      PROVE  SignalWaitEnds'
  BY <1>1 DEF Callbacks, Cancel
<1>2. CASE AppStart \/ AppStartThrows
  BY <1>2 DEF AppStart, AppStartThrows
<1>3. CASE AppRun
  BY <1>3 DEF AppRun
<1>4. CASE AppRunArmThrows \/ OnSignalArmThrows \/ OnSignalFatal
  BY <1>4 DEF AppRunArmThrows, OnSignalArmThrows, OnSignalFatal, FailSignalWait
<1>5. CASE RunReturns
  BY <1>5 DEF RunReturns
<1>6. CASE OnSignalBeginDrain
  <2>1. ~sig_completed
    BY <1>6 DEF OnSignalBeginDrain, Queued, Disposition
  <2> QED
    BY <1>1, <1>6, <2>1 DEF OnSignalBeginDrain
<1>7. CASE OnSignalForceStop
  BY <1>1, <1>7 DEF OnSignalForceStop
<1>8. CASE OnSignalIgnored
  BY <1>8 DEF OnSignalIgnored
<1>9. CASE LoopHandler(ServerHandler) \/ LoopHandler(\E s \in Session : SessionHandler(s))
  BY <1>1, <1>9 DEF LoopHandler
<1>10. CASE KernelStep \/ RaiseSignal \/ SignalWaitFails \/ Exited \/ UNCHANGED allVars
  BY <1>10 DEF KernelStep, RaiseSignal, SignalWaitFails, Exited
<1> QED
  BY <1>2, <1>3, <1>4, <1>5, <1>6, <1>7, <1>8, <1>9, <1>10 DEF AppNext

\* After a completed shutdown the loop has only queued handlers left to run: the
\* process ends at once and does not wait for the drain deadline or a signal.
THEOREM LoopRunsOutTheorem == AppSpec => []LoopRunsOut
<1>1. AppInit => ServerWaitsEnd /\ SignalWaitEnds
  BY DEF AppInit, Init, ServerWaitsEnd, SignalWaitEnds
<1>2. AppSpec => []IInv
  BY AppImplementsServer, Invariance, PTL
<1>3. IInv /\ ServerWaitsEnd /\ SignalWaitEnds /\ [AppNext]_allVars
        => ServerWaitsEnd' /\ SignalWaitEnds'
  BY AppStepIsServerStep, ServerWaitsStep, SignalWaitStep
<1>4. IInv /\ ProcessInv /\ ServerWaitsEnd /\ SignalWaitEnds => LoopRunsOut
  BY DEF IInv, DrainCompletion, ProcessInv, SignalsFollowPhase, ServerWaitsEnd, SignalWaitEnds,
         LoopRunsOut
<1> QED
  BY <1>1, <1>2, <1>3, <1>4, ProcessInvariance, PTL DEF AppSpec
=============================================================================
