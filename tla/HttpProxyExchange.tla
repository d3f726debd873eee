------------------------- MODULE HttpProxyExchange -------------------------
(***************************************************************************)
(* HttpProxyExchange::Impl: one request to an upstream and its response,   *)
(* buffered or streamed, composed with the leases the pool gives it (see   *)
(* ConnectionLeases, which UpstreamPool implements).  Several exchanges    *)
(* run at once on the one io_context thread; an action is one completion   *)
(* handler, one call by the session (construct and start, cancel), or one  *)
(* thing the network does.                                                 *)
(*                                                                         *)
(* Parsing, header rewriting and the byte budget are choices here: what a  *)
(* handler may decide about the message is a nondeterministic input, and a *)
(* response is the set of what keeps its connection from being reused.     *)
(* The session's callbacks are noexcept: they do not throw into complete().*)
(***************************************************************************)
EXTENDS ConnectionLeases, Naturals, Sequences

CONSTANTS
    Exchange,
    TlsBackend,        \* the https backends
    StreamModes,       \* the values of stream_response in the configured routes
    Replies,           \* what upstreams answer: each reply is the set of its flaws
    upstream_keep_alive
ASSUME TlsBackendAssumption == TlsBackend \subseteq Backend
ASSUME StreamModesAssumption == StreamModes \subseteq BOOLEAN

\* What a response may leave on its connection: the final response is still to
\* come (a 1xx), the body ends with the connection, the upstream will close, the
\* message has an Upgrade field or names upgrade in Connection, or there are
\* bytes behind it in buffer_.
Flaws == {"interim", "until_eof", "close", "upgrade_field", "upgrade_token", "surplus"}
ASSUME RepliesAssumption == Replies \subseteq SUBSET Flaws
ASSUME KeepAliveAssumption == upstream_keep_alive \in BOOLEAN

VARIABLES
    stage,                 \* which asynchronous operation was started last
    op,                    \* the state of that operation
    deadline_generation,
    waits,                 \* deadline waits whose handler has not run
    claimed,               \* completion_state_.completed_
    completion_observed,
    streaming,             \* stream_parser_ is set
    stream_started, stream_final,
    reply,                 \* the flaws of the response, once its header is read
    connection,
    told,                  \* the callbacks the session received
    cancelled,             \* exchanges the session cancelled
    unsettled              \* connections that are in the middle of a request or response

controlVars  == <<claimed, completion_observed, told, cancelled>>
streamVars   == <<streaming, stream_started, stream_final, reply>>
exchangeVars == <<stage, op, deadline_generation, waits, controlVars, streamVars, connection,
                  unsettled>>
proxyVars    == <<leaseVars, exchangeVars>>

Stages == {"none", "resolving", "connecting", "handshaking", "writing", "reading_header",
           "reading_body", "stream_header", "stream_read", "stream_body"}
Downstream == {"stream_header", "stream_body"}
OpStates   == {"none", "armed", "fired", "failed", "aborted"}
Notices    == {"response", "rejected", "failed", "timeout", "finished", "stream_failed",
               "stream_timeout", "downstream_failed", "abort"}

\* The deadline a stage runs under: from the header on there is only one.
Deadline(s) == IF s \in {"resolving", "connecting", "handshaking", "writing"}
               THEN s ELSE "reading"

ExchangeInit ==
    /\ LeaseInit
    /\ stage = [e \in Exchange |-> "none"]
    /\ op = [e \in Exchange |-> "none"]
    /\ deadline_generation = [e \in Exchange |-> 0]
    /\ waits = [e \in Exchange |-> {}]
    /\ claimed = {} /\ completion_observed = {} /\ cancelled = {}
    /\ streaming = {} /\ stream_started = {} /\ stream_final = {}
    /\ reply = [e \in Exchange |-> {}]
    /\ connection = [e \in Exchange |-> None]
    /\ told = [e \in Exchange |-> <<>>]
    /\ unsettled = {}

----------------------------------------------------------------------------
(* Deadlines.  A wait that is cancelled leaves `waits' at once: its        *)
(* handler sees the error and does nothing.  One that already fired stays. *)

Fired(ws) == {w \in ws : w.fired}

\* begin_deadline, `steps' generations on: expires_after cancels the old wait.
BeginDeadline(e, steps, s) ==
    LET generation == deadline_generation[e] + steps IN
    /\ deadline_generation' = [deadline_generation EXCEPT ![e] = generation]
    /\ waits' = [waits EXCEPT ![e] =
                    Fired(@) \cup {[generation |-> generation, for |-> Deadline(s), fired |-> FALSE]}]

FinishDeadline(e) ==
    /\ deadline_generation' = [deadline_generation EXCEPT ![e] = @ + 1]
    /\ waits' = [waits EXCEPT ![e] = Fired(@)]

\* The next operation of the exchange starts.
Starts(e, s) ==
    /\ stage' = [stage EXCEPT ![e] = s]
    /\ op' = [op EXCEPT ![e] = "armed"]

----------------------------------------------------------------------------
(* The end of an exchange.                                                 *)

\* close_upstream: only a connection this exchange still owns.
CloseUpstream(e) ==
    /\ socket' = [c \in Conn |-> IF c = connection[e] /\ socket[c] \in {"open", "dirty"}
                                 THEN "closed" ELSE socket[c]]
    /\ UNCHANGED <<idle, leased, backend, pool_stopped, connection, unsettled>>

\* claim(), then the callback; a claim that fails tells the session nothing.
Notify(e, notice) ==
    /\ claimed' = claimed \cup {e}
    /\ told' = IF e \in claimed THEN told ELSE [told EXCEPT ![e] = Append(@, notice)]

\* cancel_operations, in a handler that leaves the exchange's operation in state
\* `pending' and its deadline waits `left'.  The session closes its own socket
\* in the same handler, so that a downstream write is cancelled, too.
CancelOperations(e, pending, left) ==
    /\ completion_observed' = completion_observed \cup {e}
    /\ waits' = [waits EXCEPT ![e] = Fired(left)]
    /\ op' = [op EXCEPT ![e] = IF pending = "armed" THEN "aborted" ELSE pending]
    /\ CloseUpstream(e)
    /\ UNCHANGED <<stage, streamVars>>

\* fail
Fail(e, timeout, pending, left) ==
    /\ deadline_generation' = [deadline_generation EXCEPT ![e] = @ + 1]
    /\ CancelOperations(e, pending, left)
    /\ \E notice \in {IF e \in stream_started
                      THEN IF timeout THEN "stream_timeout" ELSE "stream_failed"
                      ELSE IF timeout THEN "timeout" ELSE "failed",
                      "abort"} :       \* building the error response may throw
          Notify(e, notice)
    /\ UNCHANGED cancelled

\* on_read_header and start_stream turn the message away before it is used.
Refused(e, m) ==
    IF e \in streaming THEN m \cap {"interim", "upgrade_field"} # {} ELSE "interim" \in m

\* Mutant: what is left in the read buffer does not prevent reuse.
ReusableIgnoresBuffer(e, m) ==
    /\ m \cap {"until_eof", "close", "upgrade_token"} = {}
    /\ e \notin streaming => m \cap {"interim", "upgrade_field"} = {}

\* What finish_response and finish_stream ask of the original message and of
\* buffer_; the message is done when they are reached.  A stream's status and
\* its Upgrade field were looked at in start_stream.
Reusable(e, m) ==
    /\ m \cap {"until_eof", "close", "upgrade_token", "surplus"} = {}
    /\ e \notin streaming => m \cap {"interim", "upgrade_field"} = {}

\* pool_->put: the pool may keep the connection, be full, or be stopped.
Put(c) == (\E D \in SUBSET idle : Cache(c, D)) \/ Drop(c) \/ Halt({c})

\* Mutant: the exchange keeps a pointer to the connection it returned.
FinishKeepsPointer(e, notice, m) ==
    LET c == connection[e] IN
    /\ FinishDeadline(e)
    /\ op' = [op EXCEPT ![e] = "none"]
    /\ completion_observed' = completion_observed \cup {e}
    /\ Notify(e, notice) \/ Notify(e, "abort")
    /\ IF upstream_keep_alive /\ Reusable(e, m) /\ Clean(c)
       THEN /\ Put(c)
            /\ UNCHANGED connection
            /\ unsettled' = IF m = {} THEN unsettled \ {c} ELSE unsettled
       ELSE CloseUpstream(e)
    /\ UNCHANGED <<stage, streamVars, cancelled>>

\* Mutant: closes the connection although the pool has taken it.
FinishClosesReturned(e, notice, m) ==
    LET c == connection[e] IN
    /\ FinishDeadline(e)
    /\ op' = [op EXCEPT ![e] = "none"]
    /\ completion_observed' = completion_observed \cup {e}
    /\ Notify(e, notice) \/ Notify(e, "abort")
    /\ IF upstream_keep_alive /\ Reusable(e, m) /\ Clean(c)
       THEN /\ idle' = idle \cup {c} /\ leased' = leased \ {c}
            /\ socket' = [socket EXCEPT ![c] = "closed"]
            /\ UNCHANGED <<backend, pool_stopped>>
            /\ connection' = [connection EXCEPT ![e] = None]
            /\ unsettled' = IF m = {} THEN unsettled \ {c} ELSE unsettled
       ELSE CloseUpstream(e)
    /\ UNCHANGED <<stage, streamVars, cancelled>>

\* finish_response and finish_stream.  Without upstream_keep_alive there is no
\* pool_.  Rebuilding the response may throw after the connection has moved away.
\* Only a response without a flaw leaves its connection ready for a request.
Finish(e, notice, m) ==
    LET c == connection[e] IN
    /\ FinishDeadline(e)
    /\ op' = [op EXCEPT ![e] = "none"]
    /\ completion_observed' = completion_observed \cup {e}
    /\ Notify(e, notice) \/ Notify(e, "abort")
    /\ IF upstream_keep_alive /\ Reusable(e, m) /\ Clean(c)
       THEN /\ Put(c)
            /\ connection' = [connection EXCEPT ![e] = None]
            /\ unsettled' = IF m = {} THEN unsettled \ {c} ELSE unsettled
       ELSE CloseUpstream(e)
    /\ UNCHANGED <<stage, streamVars, cancelled>>

----------------------------------------------------------------------------
(* The session's calls.                                                    *)

\* The constructor and start(): a reused connection goes on with the write.
Begin(e, b, stream) ==
    /\ stage[e] = "none"
    /\ \E c \in Conn :
          /\ \E D \in SUBSET idle : Lend(b, c, D) \/ Create(b, c, D)
          /\ connection' = [connection EXCEPT ![e] = c]
          /\ LET s == IF socket[c] = "open" THEN "writing" ELSE "resolving" IN
             /\ Starts(e, s)
             /\ BeginDeadline(e, 1, s)
             /\ unsettled' = IF s = "writing" THEN unsettled \cup {c} ELSE unsettled \ {c}
    /\ streaming' = IF stream THEN streaming \cup {e} ELSE streaming
    /\ UNCHANGED <<controlVars, stream_started, stream_final, reply>>

\* Mutant: cancel() stops the operations without claiming the completion.
CancelUnclaimed(e) ==
    /\ stage[e] # "none"
    /\ e \notin claimed
    /\ cancelled' = cancelled \cup {e}
    /\ CancelOperations(e, op[e], waits[e])
    /\ UNCHANGED <<claimed, told, deadline_generation>>

\* cancel, from the session's stop() or close_socket(), or because start() threw.
CancelExchange(e) ==
    /\ stage[e] # "none"
    /\ e \notin claimed
    /\ claimed' = claimed \cup {e}
    /\ cancelled' = cancelled \cup {e}
    /\ CancelOperations(e, op[e], waits[e])
    /\ UNCHANGED <<told, deadline_generation>>

----------------------------------------------------------------------------
(* The exchange's completion handlers.                                     *)

Queued == {"fired", "failed", "aborted"}

\* Every handler first asks completion_claimed().
Live(e)      == e \notin completion_observed
Done(e, s)   == stage[e] = s /\ op[e] = "fired" /\ Live(e)
SameMessage  == UNCHANGED <<controlVars, streamVars, connection>>
SamePool     == UNCHANGED <<idle, leased, backend, pool_stopped>>

\* ... and does nothing when the exchange is over.
LateHandler(e) ==
    /\ op[e] \in Queued
    /\ ~Live(e)
    /\ op' = [op EXCEPT ![e] = "none"]
    /\ UNCHANGED <<leaseVars, stage, deadline_generation, waits, controlVars, streamVars,
                   connection, unsettled>>

\* An upstream operation failed, whichever it was.
OnUpstreamError(e) ==
    /\ op[e] \in {"failed", "aborted"} /\ stage[e] \notin Downstream
    /\ Live(e)
    /\ Fail(e, FALSE, "none", waits[e])

\* A handler throws before anything else was decided.
HandlerThrows(e) ==
    /\ op[e] \in Queued
    /\ Live(e)
    /\ CancelOperations(e, "none", waits[e])
    /\ Notify(e, "abort")
    /\ UNCHANGED <<cancelled, deadline_generation>>

OnResolve(e) ==
    /\ Done(e, "resolving")
    /\ Starts(e, "connecting")
    /\ BeginDeadline(e, 2, "connecting")
    /\ socket' = [socket EXCEPT ![connection[e]] = "open"]
    /\ SameMessage /\ SamePool /\ UNCHANGED unsettled

\* Mutant: the request is written without a deadline of its own.
WriteRequestUnbounded(e) ==
    /\ Starts(e, "writing")
    /\ FinishDeadline(e)
    /\ unsettled' = unsettled \cup {connection[e]}
    /\ SameMessage /\ SamePool /\ UNCHANGED socket

WriteRequest(e) ==
    /\ Starts(e, "writing")
    /\ BeginDeadline(e, 2, "writing")
    /\ unsettled' = unsettled \cup {connection[e]}
    /\ SameMessage /\ SamePool /\ UNCHANGED socket

OnConnect(e) ==
    /\ Done(e, "connecting")
    /\ IF backend[connection[e]] \in TlsBackend
       THEN \/ /\ Starts(e, "handshaking")
               /\ BeginDeadline(e, 2, "handshaking")
               /\ SameMessage /\ SamePool /\ UNCHANGED <<socket, unsettled>>
            \/ Fail(e, FALSE, "none", waits[e])     \* configure_upstream_tls_identity
       ELSE WriteRequest(e)

OnHandshake(e) ==
    /\ Done(e, "handshaking")
    /\ WriteRequest(e)

\* Mutant: the write's deadline goes on for the response.
OnWriteSameDeadline(e) ==
    /\ Done(e, "writing")
    /\ Starts(e, "reading_header")
    /\ SameMessage /\ UNCHANGED <<leaseVars, unsettled, deadline_generation, waits>>

OnWrite(e) ==
    /\ Done(e, "writing")
    /\ Starts(e, "reading_header")
    /\ BeginDeadline(e, 2, "reading_header")
    /\ SameMessage /\ UNCHANGED <<leaseVars, unsettled>>

\* reject_buffer_budget; only the buffered path ends the deadline first.
RejectBufferBudget(e) ==
    /\ CancelOperations(e, "none", waits[e])
    /\ Notify(e, "rejected")
    /\ deadline_generation' = [deadline_generation EXCEPT ![e] =
                                  IF e \in streaming THEN @ ELSE @ + 1]
    /\ UNCHANGED cancelled

\* The parts of a message that are read under the deadline already running.
Continues(e, s) ==
    /\ Starts(e, s)
    /\ UNCHANGED <<leaseVars, deadline_generation, waits, controlVars, streaming, connection,
                   unsettled>>

\* on_read_header, without and with stream_parser_ (start_stream)
OnReadHeader(e, m) ==
    /\ Done(e, "reading_header")
    /\ \/ Fail(e, FALSE, "none", waits[e])          \* refused, invalid, or too large
       \/ /\ ~Refused(e, m)
          /\ \/ RejectBufferBudget(e)
             \/ e \notin streaming /\ Finish(e, "response", m)
             \/ /\ e \notin streaming
                /\ Continues(e, "reading_body")
                /\ reply' = [reply EXCEPT ![e] = m]
                /\ UNCHANGED <<stream_started, stream_final>>
             \/ /\ e \in streaming
                /\ Continues(e, "stream_header")
                /\ reply' = [reply EXCEPT ![e] = m]
                /\ stream_started' = stream_started \cup {e}
                /\ stream_final' \in {stream_final, stream_final \cup {e}}

OnReadBody(e) ==
    /\ Done(e, "reading_body")
    /\ \/ Finish(e, "response", reply[e])
       \/ Fail(e, FALSE, "none", waits[e])          \* the permit does not shrink

\* resume_stream: the downstream write of the header or of a block ended.
OnStreamWritten(e) ==
    /\ stage[e] \in Downstream
    /\ Done(e, stage[e])
    /\ IF e \in stream_final
       THEN Finish(e, "finished", reply[e])
       ELSE Continues(e, "stream_read") /\ UNCHANGED <<stream_started, stream_final, reply>>

OnStreamWriteError(e) ==
    /\ stage[e] \in Downstream
    /\ op[e] \in {"failed", "aborted"}
    /\ Live(e)
    /\ CancelOperations(e, "none", waits[e])
    /\ Notify(e, "downstream_failed")
    /\ UNCHANGED <<cancelled, deadline_generation>>

\* read_stream_block's handler: another read if nothing came, else a block.
OnStreamRead(e) ==
    /\ Done(e, "stream_read")
    /\ \/ Continues(e, "stream_read") /\ UNCHANGED <<stream_started, stream_final, reply>>
       \/ Continues(e, "stream_body") /\ UNCHANGED <<stream_started, reply>>
                                      /\ stream_final' \in {stream_final, stream_final \cup {e}}

\* Mutant: the generation of the wait is not compared.
OnDeadlineAnyGeneration(e, w) ==
    /\ w \in Fired(waits[e])
    /\ IF Live(e)
       THEN Fail(e, TRUE, op[e], waits[e] \ {w})
       ELSE /\ waits' = [waits EXCEPT ![e] = @ \ {w}]
            /\ UNCHANGED <<leaseVars, stage, op, deadline_generation, controlVars, streamVars,
                           connection, unsettled>>

\* The handler of a deadline wait that was not cancelled in time.
OnDeadline(e, w) ==
    /\ w \in Fired(waits[e])
    /\ IF w.generation = deadline_generation[e] /\ Live(e)
       THEN Fail(e, TRUE, op[e], waits[e] \ {w})
       ELSE /\ waits' = [waits EXCEPT ![e] = @ \ {w}]
            /\ UNCHANGED <<leaseVars, stage, op, deadline_generation, controlVars, streamVars,
                           connection, unsettled>>

\* The last handler that holds the exchange returned: it is destroyed, and
\* with it a connection it still owns.
Release(e) ==
    /\ stage[e] # "none" /\ e \in claimed
    /\ op[e] = "none" /\ waits[e] = {}
    /\ stage' = [stage EXCEPT ![e] = "none"]
    /\ deadline_generation' = [deadline_generation EXCEPT ![e] = 0]
    /\ claimed' = claimed \ {e} /\ completion_observed' = completion_observed \ {e}
    /\ cancelled' = cancelled \ {e}
    /\ told' = [told EXCEPT ![e] = <<>>]
    /\ streaming' = streaming \ {e}
    /\ stream_started' = stream_started \ {e} /\ stream_final' = stream_final \ {e}
    /\ reply' = [reply EXCEPT ![e] = {}]
    /\ connection' = [connection EXCEPT ![e] = None]
    /\ IF connection[e] = None THEN UNCHANGED <<leaseVars, unsettled>>
       ELSE Drop(connection[e]) /\ unsettled' = unsettled \ {connection[e]}
    /\ UNCHANGED <<op, waits>>

----------------------------------------------------------------------------
(* The network and the clock.                                              *)

OperationEnds(e) ==
    /\ op[e] = "armed"
    /\ \E result \in {"fired", "failed"} : op' = [op EXCEPT ![e] = result]
    /\ UNCHANGED <<leaseVars, stage, deadline_generation, waits, controlVars, streamVars,
                   connection, unsettled>>

DeadlineExpires(e) ==
    \E w \in waits[e] \ Fired(waits[e]) :
        /\ waits' = [waits EXCEPT ![e] = (@ \ {w}) \cup {[w EXCEPT !.fired = TRUE]}]
        /\ UNCHANGED <<leaseVars, stage, op, deadline_generation, controlVars, streamVars,
                       connection, unsettled>>

\* The pool loses or stops, and upstreams send what nobody asked for.
PoolStep ==
    /\ \/ \E c \in Conn : Soil(c)
       \/ \E D \in SUBSET idle : D # {} /\ Forget(D)
       \/ Halt({})
    /\ UNCHANGED exchangeVars

ExchangeHandler(e) ==
    \/ LateHandler(e)
    \/ OnUpstreamError(e)
    \/ HandlerThrows(e)
    \/ OnResolve(e)
    \/ OnConnect(e)
    \/ OnHandshake(e)
    \/ OnWrite(e)
    \/ \E m \in Replies : OnReadHeader(e, m)
    \/ OnReadBody(e)
    \/ OnStreamWritten(e)
    \/ OnStreamWriteError(e)
    \/ OnStreamRead(e)

DeadlineHandler(e) == \E w \in waits[e] : OnDeadline(e, w)

ExchangeNext ==
    \/ \E e \in Exchange :
          \/ \E b \in Backend, stream \in StreamModes : Begin(e, b, stream)
          \/ CancelExchange(e)
          \/ ExchangeHandler(e)
          \/ DeadlineHandler(e)
          \/ Release(e)
          \/ OperationEnds(e)
          \/ DeadlineExpires(e)
    \/ PoolStep

(***************************************************************************)
(* Fairness: the loop dispatches queued handlers and timers expire.  The   *)
(* upstream and the client owe the exchange nothing.                       *)
(***************************************************************************)
ExchangeFairness ==
    \A e \in Exchange :
        /\ WF_proxyVars(ExchangeHandler(e))
        /\ WF_proxyVars(DeadlineHandler(e))
        /\ WF_proxyVars(DeadlineExpires(e))
        /\ WF_proxyVars(Release(e))

ExchangeSafety == ExchangeInit /\ [][ExchangeNext]_proxyVars

ExchangeSpec == ExchangeSafety /\ ExchangeFairness

----------------------------------------------------------------------------
(* Properties.                                                             *)

\* The exchange's variables keep their types.
ExchangeTypeOK ==
    /\ stage \in [Exchange -> Stages]
    /\ op \in [Exchange -> OpStates]
    /\ deadline_generation \in [Exchange -> Nat]
    /\ \A e \in Exchange : \A w \in waits[e] :
          w \in [generation : Nat, for : {Deadline(s) : s \in Stages}, fired : BOOLEAN]
    /\ {claimed, completion_observed, cancelled, streaming, stream_started, stream_final}
          \subseteq SUBSET Exchange
    /\ connection \in [Exchange -> Conn \cup {None}]
    /\ reply \in [Exchange -> SUBSET Flaws]
    /\ told \in [Exchange -> Seq(Notices)]
    /\ unsettled \subseteq Conn

\* The session hears of an exchange at most once, whichever of completion,
\* failure, deadline, exception and cancel come together, and never after it
\* cancelled; an exchange that is over has either told it or been cancelled.
NotifiedOnce ==
    /\ claimed = completion_observed
    /\ \A e \in Exchange : Len(told[e]) = IF e \in claimed \ cancelled THEN 1 ELSE 0

\* No operation is awaited without a limit: a live exchange always has one
\* operation under way and a deadline wait of the current generation.
DeadlineCovers ==
    \A e \in Exchange : stage[e] # "none" /\ Live(e) =>
        /\ op[e] # "none"
        /\ \E w \in waits[e] : w.generation = deadline_generation[e]
                               /\ w.for = Deadline(stage[e])

\* No exchange shares its connection with another or with the cache, and one
\* that is over holds no open socket.
OwnsItsConnection ==
    /\ leased = {connection[e] : e \in Exchange} \ {None}
    /\ \A e, f \in Exchange : connection[e] = connection[f] /\ connection[e] # None => e = f
    /\ \A e \in Exchange : connection[e] # None /\ ~Live(e) => socket[connection[e]] # "open"

\* What is left of one request never reaches the next: a cached connection is
\* past the whole response of every request that was written to it, and that
\* response left nothing behind, neither a flaw of the message nor bytes in
\* the buffer, whichever of the header's and the end's tests had to see it.
NoLeftovers == idle \cap unsettled = {}

\* A 504 is always the doing of the deadline of the stage the exchange is in:
\* a wait that fired for an earlier stage and runs late fails nothing.
TimeoutIsOwn ==
    [][\A e \in Exchange :
         told'[e] # told[e] /\ told'[e] \in {<<"timeout">>, <<"stream_timeout">>} =>
             \E w \in Fired(waits[e]) : w.for = Deadline(stage[e])]_proxyVars

\* Every exchange ends and is destroyed, whatever upstream and client do.
ExchangeEnds == \A e \in Exchange : stage[e] # "none" ~> stage[e] = "none"
=============================================================================
