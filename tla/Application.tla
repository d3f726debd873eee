---------------------------- MODULE Application ----------------------------
(***************************************************************************)
(* Application::Impl: the owner of the io_context, of the signal wait and  *)
(* of the server.  It calls the server's interface (start, begin_drain,    *)
(* force_stop_drain, stop) and is called back by it, in the same handler,  *)
(* when a drain is complete or the server failed at run time.  The module  *)
(* composes HttpServer with ShutdownSignalState and the event loop's own   *)
(* life: run() returns when it was stopped or when no work is left.        *)
(***************************************************************************)
EXTENDS HttpServer

CONSTANT MaxSignals    \* bound: SIGTERM and SIGINT deliveries to the process
ASSUME MaxSignalsAssumption == MaxSignals \in Nat

VARIABLES
    proc,              \* created, started, running, stopping (io_context stopped), exited
    exit_code,
    sig_draining, sig_force_requested, sig_completed,     \* ShutdownSignalState
    signalOp,          \* the async_wait on the signal set
    signal_queue,      \* signals delivered while no wait was armed
    signals_sent,
    signal_fault       \* history: the signal set itself failed or threw

signalStateVars == <<sig_draining, sig_force_requested, sig_completed>>
signalVars      == <<signalOp, signal_queue, signals_sent, signal_fault>>
appVars         == <<proc, exit_code, signalStateVars, signalVars>>
allVars         == <<serverVars, appVars>>

AppInit ==
    /\ Init
    /\ proc = "created" /\ exit_code = "success"
    /\ sig_draining = FALSE /\ sig_force_requested = FALSE /\ sig_completed = FALSE
    /\ signalOp = "none" /\ signal_queue = 0 /\ signals_sent = 0 /\ signal_fault = FALSE

\* The signal set holds on to signals that arrive while nobody waits.
ArmSignalWait == IF signal_queue > 0 THEN "fired" ELSE "armed"
QueueAfterArm == IF signal_queue > 0 THEN signal_queue - 1 ELSE 0

\* Mutant: the cancellation after a completed drain is taken for an error.
DispositionAllErrorsFatal(op) ==
    CASE op # "fired" -> "fatal"
      [] op = "fired" /\ (sig_completed \/ sig_force_requested) -> "ignored"
      [] op = "fired" /\ ~(sig_completed \/ sig_force_requested) ->
             IF sig_draining THEN "force_stop" ELSE "begin_drain"

\* ShutdownSignalState::on_wait_completion
Disposition(op) ==
    CASE op # "fired" -> IF sig_completed /\ op = "aborted" THEN "ignored" ELSE "fatal"
      [] op = "fired" /\ (sig_completed \/ sig_force_requested) -> "ignored"
      [] op = "fired" /\ ~(sig_completed \/ sig_force_requested) ->
             IF sig_draining THEN "force_stop" ELSE "begin_drain"

\* fail_signal_wait
FailSignalWait(op) ==
    /\ Stop /\ UNCHANGED fault
    /\ sig_completed' = TRUE
    /\ exit_code' = "failure"
    /\ proc' = "stopping"
    /\ signalOp' = op

\* Mutant: on_drain_complete stops the loop instead of letting it run out.
CallbacksStopLoop(op) ==
    LET drained == drain_callback_claimed' /\ ~drain_callback_claimed
        failed  == runtime_failed' /\ ~runtime_failed
        thrown  == drained /\ ~drain_completion_enabled'
    IN  /\ sig_completed' = (sig_completed \/ drained \/ failed)
        /\ signalOp' = op
        /\ exit_code' = IF failed \/ thrown THEN "failure" ELSE exit_code
        /\ proc' = IF failed \/ drained THEN "stopping" ELSE proc
        /\ signal_fault' = (signal_fault \/ thrown)

\* Mutant: ShutdownSignalState is not told that the drain completed.
CallbacksForgetCompleted(op) ==
    LET drained == drain_callback_claimed' /\ ~drain_callback_claimed
        failed  == runtime_failed' /\ ~runtime_failed
        thrown  == drained /\ ~drain_completion_enabled'
    IN  /\ sig_completed' = (sig_completed \/ failed)
        /\ signalOp' = IF drained /\ ~thrown THEN Cancel(op) ELSE op
        /\ exit_code' = IF failed \/ thrown THEN "failure" ELSE exit_code
        /\ proc' = IF failed \/ thrown THEN "stopping" ELSE proc
        /\ signal_fault' = (signal_fault \/ thrown)

\* Mutant: the signal wait is not cancelled when the drain completes.
CallbacksKeepSignalWait(op) ==
    LET drained == drain_callback_claimed' /\ ~drain_callback_claimed
        failed  == runtime_failed' /\ ~runtime_failed
        thrown  == drained /\ ~drain_completion_enabled'
    IN  /\ sig_completed' = (sig_completed \/ drained \/ failed)
        /\ signalOp' = op
        /\ exit_code' = IF failed \/ thrown THEN "failure" ELSE exit_code
        /\ proc' = IF failed \/ thrown THEN "stopping" ELSE proc
        /\ signal_fault' = (signal_fault \/ thrown)

(***************************************************************************)
(* on_drain_complete and on_runtime_failure, run inside the server step    *)
(* that calls them; op is the signal wait at that moment.  signals_.cancel *)
(* may throw, and then the callback calls stop() on the drained server.    *)
(***************************************************************************)
Callbacks(op) ==
    LET drained == drain_callback_claimed' /\ ~drain_callback_claimed
        failed  == runtime_failed' /\ ~runtime_failed
        thrown  == drained /\ ~drain_completion_enabled'
    IN  /\ sig_completed' = (sig_completed \/ drained \/ failed)
        /\ signalOp' = IF drained /\ ~thrown THEN Cancel(op) ELSE op
        /\ exit_code' = IF failed \/ thrown THEN "failure" ELSE exit_code
        /\ proc' = IF failed \/ thrown THEN "stopping" ELSE proc
        /\ signal_fault' = (signal_fault \/ thrown)

----------------------------------------------------------------------------
(* Application::run                                                        *)

AppStart ==
    /\ proc = "created"
    /\ Start
    /\ proc' = "started"
    /\ UNCHANGED <<exit_code, signalStateVars, signalVars>>

AppStartThrows ==
    /\ proc = "created"
    /\ StartThrows
    /\ proc' = "exited"
    /\ exit_code' = "failure"
    /\ UNCHANGED <<signalStateVars, signalVars>>

AppRun ==
    /\ proc = "started"
    /\ signalOp' = ArmSignalWait
    /\ signal_queue' = QueueAfterArm
    /\ proc' = "running"
    /\ UNCHANGED <<serverVars, exit_code, signalStateVars, signals_sent, signal_fault>>

AppRunArmThrows ==
    /\ proc = "started"
    /\ FailSignalWait(signalOp)
    /\ signal_fault' = TRUE
    /\ UNCHANGED <<sig_draining, sig_force_requested, signal_queue, signals_sent>>

NoWorkLeft ==
    /\ {acceptOp, retryOp, drainOp, backgroundOp, signalOp} = {"none"}
    /\ \A s \in Session : session_phase[s] = "free"

\* io_context.run returns, the server is destroyed, the process exits.
RunReturns ==
    /\ proc = "stopping" \/ (proc = "running" /\ NoWorkLeft)
    /\ Stop /\ UNCHANGED fault
    /\ proc' = "exited"
    /\ UNCHANGED <<exit_code, signalStateVars, signalVars>>

----------------------------------------------------------------------------
(* on_signal                                                               *)

\* Mutant: the signal wait is not armed again while the server drains.
OnSignalBeginDrainOnce ==
    /\ proc = "running" /\ signalOp \in Queued
    /\ Disposition(signalOp) = "begin_drain"
    /\ sig_draining' = TRUE
    /\ BeginDrain \/ BeginDrainThrows
    /\ Callbacks("none")
    /\ UNCHANGED <<sig_force_requested, signal_queue, signals_sent>>

OnSignalBeginDrain ==
    /\ proc = "running" /\ signalOp \in Queued
    /\ Disposition(signalOp) = "begin_drain"
    /\ sig_draining' = TRUE
    /\ signal_queue' = QueueAfterArm
    /\ BeginDrain \/ BeginDrainThrows
    /\ Callbacks(ArmSignalWait)
    /\ UNCHANGED <<sig_force_requested, signals_sent>>

OnSignalArmThrows ==
    /\ proc = "running" /\ signalOp \in Queued
    /\ Disposition(signalOp) = "begin_drain"
    /\ sig_draining' = TRUE
    /\ FailSignalWait("none")
    /\ signal_fault' = TRUE
    /\ UNCHANGED <<sig_force_requested, signal_queue, signals_sent>>

OnSignalForceStop ==
    /\ proc = "running" /\ signalOp \in Queued
    /\ Disposition(signalOp) = "force_stop"
    /\ sig_force_requested' = TRUE
    /\ ForceStopDrain
    /\ Callbacks("none")
    /\ UNCHANGED <<sig_draining, signal_queue, signals_sent>>

OnSignalIgnored ==
    /\ proc = "running" /\ signalOp \in Queued
    /\ Disposition(signalOp) = "ignored"
    /\ signalOp' = "none"
    /\ UNCHANGED <<serverVars, proc, exit_code, signalStateVars, signal_queue, signals_sent,
                   signal_fault>>

OnSignalFatal ==
    /\ proc = "running" /\ signalOp \in Queued
    /\ Disposition(signalOp) = "fatal"
    /\ FailSignalWait("none")
    /\ UNCHANGED <<sig_draining, sig_force_requested, signal_queue, signals_sent, signal_fault>>

----------------------------------------------------------------------------
(* The rest of the event loop, and what the kernel does meanwhile.         *)

LoopHandler(handler) ==
    /\ proc = "running"
    /\ handler
    /\ Callbacks(signalOp)
    /\ UNCHANGED <<sig_draining, sig_force_requested, signal_queue, signals_sent>>

RaiseSignal ==
    /\ proc # "exited" /\ signals_sent < MaxSignals
    /\ signals_sent' = signals_sent + 1
    /\ IF signalOp = "armed"
       THEN signalOp' = "fired" /\ UNCHANGED signal_queue
       ELSE signal_queue' = signal_queue + 1 /\ UNCHANGED signalOp
    /\ UNCHANGED <<serverVars, proc, exit_code, signalStateVars, signal_fault>>

SignalWaitFails ==
    /\ proc = "running" /\ signalOp = "armed"
    /\ signalOp' = "failed"
    /\ signal_fault' = TRUE
    /\ UNCHANGED <<serverVars, proc, exit_code, signalStateVars, signal_queue, signals_sent>>

KernelStep ==
    /\ proc # "exited"
    /\ Kernel
    /\ UNCHANGED appVars

Exited == proc = "exited" /\ UNCHANGED allVars

AppNext ==
    \/ AppStart \/ AppStartThrows \/ AppRun \/ AppRunArmThrows \/ RunReturns
    \/ OnSignalBeginDrain \/ OnSignalArmThrows \/ OnSignalForceStop
    \/ OnSignalIgnored \/ OnSignalFatal
    \/ LoopHandler(ServerHandler)
    \/ LoopHandler(\E s \in Session : SessionHandler(s))
    \/ KernelStep \/ RaiseSignal \/ SignalWaitFails
    \/ Exited

(***************************************************************************)
(* Fairness.  The loop dispatches a queued handler some time, a timer that *)
(* is armed expires, a cancelled operation's handler is dispatched, and    *)
(* the process starts.  Nothing is assumed of clients or upstreams: a      *)
(* session may stay in any phase for ever unless it is stopped.            *)
(***************************************************************************)
AppFairness ==
    /\ WF_allVars(AppStart \/ AppStartThrows)
    /\ WF_allVars(AppRun \/ AppRunArmThrows)
    /\ WF_allVars(RunReturns)
    /\ WF_allVars(OnSignalBeginDrain \/ OnSignalArmThrows \/ OnSignalForceStop
                    \/ OnSignalIgnored \/ OnSignalFatal)
    /\ WF_allVars(LoopHandler(OnAcceptStopped))
    /\ WF_allVars(LoopHandler(OnAcceptRetryTimer))
    /\ WF_allVars(LoopHandler(OnDrainTimerIgnored \/ OnDrainTimeout \/ OnDrainTimerFails))
    /\ WF_allVars(LoopHandler(OnBackgroundCancelled))
    /\ WF_allVars(KernelStep /\ DrainTimerExpires)
    /\ \A s \in Session : WF_allVars(LoopHandler(SessionReleased(s)))

AppSpec == AppInit /\ [][AppNext]_allVars /\ AppFairness

----------------------------------------------------------------------------
(* Properties.                                                             *)

\* The owner's variables keep their types.
AppTypeOK ==
    /\ proc \in {"created", "started", "running", "stopping", "exited"}
    /\ exit_code \in {"success", "failure"}
    /\ sig_draining \in BOOLEAN
    /\ sig_force_requested \in BOOLEAN
    /\ sig_completed \in BOOLEAN
    /\ signalOp \in OpStates
    /\ signal_queue \in Nat
    /\ signals_sent \in Nat
    /\ signal_fault \in BOOLEAN

\* A drain that ends by itself, at its deadline or by a second signal exits
\* with success: only a real fault makes Application::run return EXIT_FAILURE.
FailureNeedsFault == exit_code = "failure" => fault \/ signal_fault

\* A process that reports success was asked to stop, has drained every
\* session, and has let every cancelled operation's handler run.
SuccessMeansDrained ==
    proc = "exited" /\ exit_code = "success" =>
        sig_draining /\ drain_callback_claimed /\ sessions = {} /\ NoWorkLeft

\* A signal is never swallowed: whenever on_signal decides to begin or to
\* force the drain, the server is in the phase in which that call acts.
SignalsReachTheServer ==
    proc = "running" /\ signalOp = "fired" =>
        /\ Disposition(signalOp) = "begin_drain" => started /\ phase = "running"
        /\ Disposition(signalOp) = "force_stop" => phase = "draining"

\* Until a drain completes or something fails, the process can be signalled:
\* a wait is armed or its handler is queued, through the whole drain.
AlwaysListening ==
    proc = "running" /\ phase \in {"running", "draining"} /\ ~sig_force_requested
        => signalOp # "none"

\* Once the shutdown is complete nothing is left to wait for: no session, and no
\* wait of the listener, a timer, the pool, the health checks or the signal set that
\* was not cancelled.  io_context.run returns as soon as the handlers queued by then
\* have run, as on_drain_complete relies on, and not when the drain timer expires.
LoopRunsOut ==
    proc = "running" /\ sig_completed =>
        /\ sessions = {}
        /\ \A op \in {acceptOp, retryOp, drainOp, backgroundOp, signalOp} : op # "armed"

\* A signal to the process ends it: whatever clients and upstreams do, the
\* drain deadline and the cancellations let io_context.run return.
SignalEndsProcess == signals_sent > 0 ~> proc = "exited"
=============================================================================
