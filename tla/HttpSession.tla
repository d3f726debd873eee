---------------------------- MODULE HttpSession ----------------------------
(***************************************************************************)
(* HttpSession: the request cycle of a downstream connection, with what    *)
(* the sessions share: BufferBudgetState and ProxyAdmissionState.  Each    *)
(* session owns at most one exchange; HttpProxyExchange models what goes   *)
(* on inside one, here it is what it promises: it tells its session at     *)
(* most once how it ended, never after a cancel, and its object outlives   *)
(* its end until its last handler has run.                                 *)
(*                                                                         *)
(* An action is one completion handler, or one call by the server.  The    *)
(* outcome of an operation, the message it read and what the route         *)
(* decides are inputs.  A session is a record, changed by operators that   *)
(* take the record and give the new one, as the methods they stand for     *)
(* call each other inside one handler.  Destruction happens in the handler *)
(* that drops the last reference.  Logging is left out.                    *)
(***************************************************************************)
EXTENDS Naturals, FiniteSets, FiniteSetsExt

CONSTANTS
    Session,
    Exchange,                      \* bounds how many exchange objects may linger
    None,
    Tls,
    max_bytes,                     \* APIGATE_MAX_IN_FLIGHT_BYTES
    max_proxies,
    max_body_bytes,                \* what a body of unknown length reserves
    max_requests_per_connection

ASSUME SessionSetsAssumption == IsFiniteSet(Session) /\ IsFiniteSet(Exchange) /\ None \notin Exchange
ASSUME SessionLimitsAssumption ==
    /\ {max_bytes, max_proxies, max_body_bytes, max_requests_per_connection} \subseteq Nat \ {0}
    /\ Tls \in BOOLEAN

VARIABLES
    session,           \* the members of every HttpSession
    exchange,          \* the exchange objects that exist
    current_bytes,     \* BufferBudgetControl
    active_proxies     \* ProxyAdmissionState

sessionStateVars == <<session, exchange, current_bytes, active_proxies>>

SessionPhases == {"free", "handshaking", "reading", "proxying", "writing", "closing", "finished"}
StreamOps     == {"stream_header", "stream_body"}
SessionOps    == {"none", "handshake", "read_header", "read_body", "write", "shutdown"} \cup StreamOps
Running       == {"waiting", "stream_reading", "stream_writing"}

\* The members a new session starts with.  `op' is the operation under way;
\* `request' and `response' are the bytes its two budget permits reserve;
\* `responses' counts the responses begun for the current request, and
\* `silent' remembers that one was swallowed: both are history.
Fresh == [phase |-> "free", op |-> "none", draining |-> FALSE, completed |-> FALSE,
          requests_served |-> 0, close |-> FALSE, request |-> 0, response |-> 0,
          exchange |-> None, proxy_permit |-> FALSE, responses |-> 0, silent |-> FALSE]

\* `session' of an exchange is what its weak callbacks refer to, `shares' that
\* the session still holds the same request permit.
NoExchange == [state |-> "free", session |-> None, request |-> 0, body |-> 0, shares |-> FALSE]

SessionInit ==
    /\ session = [s \in Session |-> Fresh]
    /\ exchange = [x \in Exchange |-> NoExchange]
    /\ current_bytes = 0
    /\ active_proxies = 0

----------------------------------------------------------------------------
(* BufferBudgetState and ProxyAdmissionState.                              *)

\* try_acquire, without the sum that could overflow
Fits(bytes) == bytes <= max_bytes - current_bytes

\* BufferBudgetPermit::release and shrink_to
Returned(current, bytes) == IF bytes <= current THEN current - bytes ELSE current

\* plan_body_reservation of a message that is not complete: its length if it
\* is known and legal, else the limit.
Reservations == 1..max_body_bytes

\* ProxyAdmissionState::release
ProxyReleased(active) == IF active > 0 THEN active - 1 ELSE 0

----------------------------------------------------------------------------
(* The methods of a session, on its record r.                              *)

\* RequestObservation::finish of a request that is not completed
Observe(r) == [r EXCEPT !.completed = TRUE, !.responses = @ + 1]

\* Mutant: the observation is not asked whether the request is answered.
WriteResponseAgain(r, close) ==
    [Observe(r) EXCEPT !.phase = "writing", !.close = close \/ r.draining, !.op = "write"]

\* write_response: a second response for the same request is dropped.
WriteResponse(r, close) ==
    IF r.completed THEN [r EXCEPT !.silent = TRUE]
    ELSE [Observe(r) EXCEPT !.phase = "writing", !.close = close \/ r.draining, !.op = "write"]

\* write_stream_header, which goes on whatever finish() of the observation says
WriteStreamHeader(r, close) ==
    [Observe(r) EXCEPT !.phase = "writing", !.close = close \/ r.draining,
                       !.op = "stream_header"]

\* The response says close when the client did, or on the last request.
LastRequest(r) == r.requests_served >= max_requests_per_connection

\* read_request of a session that neither stops nor drains
ReadRequest(r) == [r EXCEPT !.phase = "reading", !.op = "read_header", !.completed = FALSE,
                            !.responses = 0]

\* The request permit an exchange of s may still share.
Shares(s) == {x \in Exchange : exchange[x].session = s /\ exchange[x].shares}

\* What the destruction of a session gives back.
Gives(s, r) == (IF Shares(s) = {} THEN r.request ELSE 0) + r.response

\* close_socket and stop, then finish: the exchange is cancelled, the proxy
\* permit returned; the object goes when no operation `still' holds it.
CloseSocket(s, r, still) ==
    /\ session' = [session EXCEPT ![s] =
          IF still = "none" THEN Fresh
          ELSE [r EXCEPT !.phase = "finished", !.op = still, !.exchange = None,
                         !.proxy_permit = FALSE]]
    /\ exchange' = [x \in Exchange |->
          IF x = r.exchange
          THEN [exchange[x] EXCEPT !.state = IF still \in StreamOps THEN "held" ELSE "over"]
          ELSE IF still = "none" /\ x \in Shares(s)
          THEN [exchange[x] EXCEPT !.shares = FALSE] ELSE exchange[x]]
    /\ active_proxies' = IF r.proxy_permit THEN ProxyReleased(active_proxies) ELSE active_proxies
    /\ current_bytes' = IF still = "none" THEN Returned(current_bytes, Gives(s, r))
                                          ELSE current_bytes

\* Only the session's record and the budget change.
Becomes(s, r, current) ==
    /\ session' = [session EXCEPT ![s] = r]
    /\ current_bytes' = current
    /\ UNCHANGED <<exchange, active_proxies>>

\* graceful_close of a TLS session; a plain one closes its socket at once.
Closing(r) == [r EXCEPT !.phase = "closing", !.op = "shutdown"]

----------------------------------------------------------------------------
(* Calls by the server.                                                    *)

\* The constructor and start()
StartSession(s) ==
    /\ session[s].phase = "free"
    /\ Becomes(s, IF Tls THEN [Fresh EXCEPT !.phase = "handshaking", !.op = "handshake"]
                         ELSE ReadRequest(Fresh), current_bytes)

Unfinished(s) == session[s].phase \notin {"free", "finished"}

\* begin_drain
BeginDrain(s) ==
    /\ Unfinished(s) /\ ~session[s].draining
    /\ LET r == [session[s] EXCEPT !.draining = TRUE] IN
       IF r.phase \in {"handshaking", "reading"}
       THEN CloseSocket(s, r, r.op)
       ELSE Becomes(s, r, current_bytes)

StopSession(s) ==
    /\ Unfinished(s)
    /\ CloseSocket(s, session[s], session[s].op)

----------------------------------------------------------------------------
(* Processing a request: r is the session's record and `current' the       *)
(* budget that the handler has arrived at.                                 *)

\* The exchange starts; it takes the request's permit along.
StartExchange(s, r, current) ==
    /\ active_proxies < max_proxies
    /\ active_proxies' = active_proxies + 1
    /\ current_bytes' = current
    /\ \E x \in Exchange :
          /\ exchange[x].state = "free"
          /\ exchange' = [exchange EXCEPT ![x] = [NoExchange EXCEPT
                            !.state = "waiting", !.session = s, !.request = r.request]]
          /\ session' = [session EXCEPT ![s] = [r EXCEPT !.phase = "proxying",
                            !.request = 0, !.exchange = x, !.proxy_permit = TRUE]]

\* Admission, the constructor or start() throws: the catch block gives the proxy
\* permit back, if it was `taken' by then, and answers 502, with keep-alive as
\* the client asked, or closes the session when it cannot.  The cancelled
\* exchange may linger, with a share in the request's permit.
StartExchangeThrows(s, r, current) ==
    \E outcome \in {WriteResponse(r, FALSE), WriteResponse(r, TRUE), Fresh},
       taken \in {FALSE, active_proxies < max_proxies} :
        /\ session' = [session EXCEPT ![s] = outcome]
        /\ current_bytes' = current
        /\ active_proxies' = IF taken THEN ProxyReleased(active_proxies + 1) ELSE active_proxies
        /\ \/ outcome # Fresh /\ UNCHANGED exchange
           \/ /\ taken
              /\ \E x \in Exchange :
                    /\ exchange[x].state = "free"
                    /\ exchange' = [exchange EXCEPT ![x] = [NoExchange EXCEPT
                                      !.state = "over", !.session = s, !.request = r.request,
                                      !.shares = outcome # Fresh]]

\* A local response, 401, 429 or 503: closing when the client asks for it and
\* on the last request.
Answer(s, r, current) ==
    \E close \in BOOLEAN : Becomes(s, WriteResponse(r, close \/ LastRequest(r)), current)

\* start_proxy_request refuses (429 or 503), and starting the write throws: the
\* catch block wants to answer 502, but the request counts as answered.
AnswerThrows(s, r, current) ==
    Becomes(s, WriteResponse([WriteResponse(r, FALSE) EXCEPT !.op = "none"], FALSE), current)

\* process_request and start_proxy_request
ProcessRequest(s, r, current) ==
    LET next == [r EXCEPT !.requests_served = @ + 1, !.op = "none"] IN
    /\ r.requests_served <= max_requests_per_connection      \* bounds the model
    /\ \/ StartExchange(s, next, current)
       \/ StartExchangeThrows(s, next, current)
       \/ Answer(s, next, current)
       \/ AnswerThrows(s, next, current)

----------------------------------------------------------------------------
(* The session's completion handlers.                                      *)

Done(s, op) == session[s].op = op /\ Unfinished(s)

\* Whatever a handler was doing, an exception closes the session; so does an
\* operation that was cancelled, timed out or lost its connection.  The handler
\* of a streamed write does it through on_stream_complete.
OnOperationFails(s) ==
    /\ session[s].op # "none" /\ Unfinished(s)
    /\ CloseSocket(s, session[s], "none")

OnHandshake(s) ==
    /\ Done(s, "handshake")
    /\ Becomes(s, ReadRequest(session[s]), current_bytes)

\* handle_read_error: end of stream, or a message that is answered with an
\* error; so are Expect and a length over the limit.
OnBadRequest(s) ==
    /\ Done(s, "read_header") \/ Done(s, "read_body")
    /\ \/ Becomes(s, WriteResponse(session[s], TRUE), current_bytes)
       \/ Tls /\ Becomes(s, Closing(session[s]), current_bytes)
       \/ ~Tls /\ CloseSocket(s, session[s], "none")

\* on_read_header of a legal header: no body, or one that needs a permit
OnReadHeader(s) ==
    /\ Done(s, "read_header")
    /\ \/ ProcessRequest(s, session[s], current_bytes)
       \/ \E bytes \in Reservations :
             IF Fits(bytes)
             THEN Becomes(s, [session[s] EXCEPT !.request = bytes, !.op = "read_body"],
                          current_bytes + bytes)
             ELSE Becomes(s, WriteResponse(session[s], TRUE), current_bytes)

\* on_read_body: the reservation shrinks to what was read.
OnReadBody(s) ==
    /\ Done(s, "read_body")
    /\ \E bytes \in 0..session[s].request :
          ProcessRequest(s, [session[s] EXCEPT !.request = bytes],
                         Returned(current_bytes, session[s].request - bytes))

\* on_write without an error: both permits are given back.
OnWrite(s) ==
    /\ Done(s, "write")
    /\ LET r == [session[s] EXCEPT !.request = 0, !.response = 0]
           more == ~r.close /\ ~r.draining IN
       IF ~more /\ ~Tls
       THEN CloseSocket(s, session[s], "none")
       ELSE /\ session' = [session EXCEPT ![s] = IF more THEN ReadRequest(r) ELSE Closing(r)]
            /\ exchange' = [x \in Exchange |-> [exchange[x] EXCEPT
                                !.shares = @ /\ x \notin Shares(s)]]
            /\ current_bytes' = Returned(current_bytes, Gives(s, session[s]))
            /\ UNCHANGED active_proxies

OnShutdown(s) ==
    /\ Done(s, "shutdown")
    /\ CloseSocket(s, session[s], "none")

\* The operation of a session that has finished: its handler does nothing, and
\* with it goes the session, and what a streamed write held of an exchange.
LateHandler(s) ==
    /\ session[s].phase = "finished"
    /\ session' = [session EXCEPT ![s] = Fresh]
    /\ exchange' = [x \in Exchange |->
          IF exchange[x].session = s
          THEN [exchange[x] EXCEPT !.shares = FALSE,
                                   !.state = IF @ = "held" THEN "over" ELSE @]
          ELSE exchange[x]]
    /\ current_bytes' = Returned(current_bytes, Gives(s, session[s]))
    /\ UNCHANGED active_proxies

----------------------------------------------------------------------------
(* The exchange, and what the session does when it hears of it.            *)

At(x, state) == exchange[x].state = state

\* on_read_header: the upstream's body needs a permit.
ExchangeReserves(x) ==
    /\ At(x, "waiting") /\ exchange[x].body = 0
    /\ \E bytes \in Reservations :
          /\ Fits(bytes)
          /\ exchange' = [exchange EXCEPT ![x].body = bytes]
          /\ current_bytes' = current_bytes + bytes
    /\ UNCHANGED <<session, active_proxies>>

\* complete, then on_proxy_complete: the response and its permit go to the
\* session.  A failure has no permit; the exchange keeps its own.
OnProxyComplete(x, failed) ==
    /\ At(x, "waiting")
    /\ LET s == exchange[x].session
           r == [session[s] EXCEPT !.exchange = None, !.proxy_permit = FALSE]
           kept == IF failed THEN exchange[x].body ELSE 0 IN
       /\ \E close \in BOOLEAN, bytes \in 0..(exchange[x].body - kept) :
             /\ session' = [session EXCEPT ![s] =
                   [WriteResponse(r, close \/ LastRequest(r)) EXCEPT !.response = bytes]]
             /\ current_bytes' = Returned(current_bytes, exchange[x].body - kept - bytes)
       /\ exchange' = [exchange EXCEPT ![x].state = "over", ![x].body = kept]
       /\ active_proxies' = ProxyReleased(active_proxies)

\* start_stream and write_stream_header: the block takes what is left of the
\* budget, up to its size; a message that is complete needs none.
OnStreamHeader(x) ==
    /\ At(x, "waiting") /\ exchange[x].body = 0
    /\ LET s == exchange[x].session IN
       /\ \E close \in BOOLEAN, bytes \in {0, Min({max_body_bytes, max_bytes - current_bytes})} :
             /\ session' = [session EXCEPT ![s] =
                                    WriteStreamHeader(@, close \/ LastRequest(@))]
             /\ exchange' = [exchange EXCEPT ![x].state = "stream_writing", ![x].body = bytes]
             /\ current_bytes' = current_bytes + bytes
       /\ UNCHANGED active_proxies

\* write_stream_body
OnStreamBody(x) ==
    /\ At(x, "stream_reading")
    /\ session' = [session EXCEPT ![exchange[x].session].op = "stream_body"]
    /\ exchange' = [exchange EXCEPT ![x].state = "stream_writing"]
    /\ UNCHANGED <<current_bytes, active_proxies>>

\* Mutant: on_stream_complete returns early while the session drains.
OnStreamWrittenDrains(s) ==
    /\ session[s].op \in StreamOps /\ Unfinished(s)
    /\ LET x == session[s].exchange
           r == [session[s] EXCEPT !.exchange = None, !.proxy_permit = FALSE] IN
       /\ session' = [session EXCEPT ![s] =
             IF r.draining THEN [r EXCEPT !.op = "none"]
             ELSE IF r.close THEN Closing(r) ELSE ReadRequest(r)]
       /\ exchange' = [exchange EXCEPT ![x].state = "over"]
       /\ active_proxies' = ProxyReleased(active_proxies)
       /\ UNCHANGED current_bytes

\* resume(): the exchange reads on, or it is done and on_stream_complete runs.
OnStreamWritten(s) ==
    /\ session[s].op \in StreamOps /\ Unfinished(s)
    /\ LET x == session[s].exchange
           r == [session[s] EXCEPT !.exchange = None, !.proxy_permit = FALSE]
           more == ~r.close /\ ~r.draining IN
       \/ /\ exchange[x].body > 0              \* else the header was all of it
          /\ session' = [session EXCEPT ![s].op = "none"]
          /\ exchange' = [exchange EXCEPT ![x].state = "stream_reading"]
          /\ UNCHANGED <<current_bytes, active_proxies>>
       \/ /\ more \/ Tls
          /\ session' = [session EXCEPT ![s] = IF more THEN ReadRequest(r) ELSE Closing(r)]
          /\ exchange' = [exchange EXCEPT ![x].state = "over"]
          /\ active_proxies' = ProxyReleased(active_proxies)
          /\ UNCHANGED current_bytes
       \/ ~more /\ ~Tls /\ CloseSocket(s, session[s], "none")

\* Mutant: on_proxy_aborted does not close the session.
OnExchangeAbortedQuietly(x) ==
    /\ exchange[x].state \in Running
    /\ session' = [session EXCEPT ![exchange[x].session].exchange = None,
                                  ![exchange[x].session].proxy_permit = FALSE]
    /\ exchange' = [exchange EXCEPT ![x].state = "over"]
    /\ active_proxies' = ProxyReleased(active_proxies)
    /\ UNCHANGED current_bytes

\* The exchange fails once its response has begun, or cannot tell its session
\* anything: on_stream_complete and on_proxy_aborted close the session.  A write
\* of the session that is under way is cancelled.
OnExchangeAborted(x) ==
    /\ exchange[x].state \in Running
    /\ LET s == exchange[x].session IN CloseSocket(s, session[s], session[s].op)

\* fail: until the response has begun it is a 502 or a 504.
OnExchangeFails(x) ==
    IF At(x, "waiting") THEN OnProxyComplete(x, TRUE) ELSE OnExchangeAborted(x)

\* Mutant: the exchange has a copy of the request's permit, not a share in it.
ExchangeReleasedTwice(x) ==
    /\ At(x, "over")
    /\ current_bytes' = Returned(current_bytes, exchange[x].body + exchange[x].request)
    /\ exchange' = [exchange EXCEPT ![x] = NoExchange]
    /\ UNCHANGED <<session, active_proxies>>

\* The last handler of an exchange returns and destroys it.
ExchangeReleased(x) ==
    /\ At(x, "over")
    /\ current_bytes' = Returned(current_bytes, exchange[x].body +
                            (IF exchange[x].shares THEN 0 ELSE exchange[x].request))
    /\ exchange' = [exchange EXCEPT ![x] = NoExchange]
    /\ UNCHANGED <<session, active_proxies>>

----------------------------------------------------------------------------
SessionHandler(s) ==
    \/ OnOperationFails(s)
    \/ OnHandshake(s)
    \/ OnBadRequest(s)
    \/ OnReadHeader(s)
    \/ OnReadBody(s)
    \/ OnWrite(s)
    \/ OnStreamWritten(s)
    \/ OnShutdown(s)
    \/ LateHandler(s)

ExchangeHandler(x) ==
    \/ ExchangeReserves(x)
    \/ OnProxyComplete(x, FALSE)
    \/ OnStreamHeader(x)
    \/ OnStreamBody(x)
    \/ OnExchangeAborted(x)
    \/ OnExchangeFails(x)
    \/ ExchangeReleased(x)

SessionNext ==
    \/ \E s \in Session :
          \/ StartSession(s)
          \/ BeginDrain(s)
          \/ StopSession(s)
          \/ SessionHandler(s)
    \/ \E x \in Exchange : ExchangeHandler(x)

(***************************************************************************)
(* Fairness: every operation of a session has a deadline (5 s, 10 s, 2 s), *)
(* so its handler runs; an exchange ends by its own deadlines, which is    *)
(* ExchangeEnds of HttpProxyExchange.  Clients and upstreams owe nothing.  *)
(***************************************************************************)
SessionFairness ==
    /\ \A s \in Session : WF_sessionStateVars(SessionHandler(s))
    /\ \A x \in Exchange : WF_sessionStateVars(OnExchangeFails(x))

SessionSafety == SessionInit /\ [][SessionNext]_sessionStateVars

SessionSpec == SessionSafety /\ SessionFairness

----------------------------------------------------------------------------
(* Properties.                                                             *)

\* Every member keeps its type.
SessionTypeOK ==
    /\ session \in [Session -> [phase : SessionPhases, op : SessionOps, draining : BOOLEAN,
                                completed : BOOLEAN, requests_served : Nat, close : BOOLEAN,
                                request : Nat, response : Nat, exchange : Exchange \cup {None},
                                proxy_permit : BOOLEAN, responses : Nat, silent : BOOLEAN]]
    /\ exchange \in [Exchange -> [state : Running \cup {"free", "held", "over"},
                                  session : Session \cup {None}, request : Nat, body : Nat,
                                  shares : BOOLEAN]]
    /\ current_bytes \in Nat
    /\ active_proxies \in Nat

\* The sum of what the holders in DOMAIN h hold, counted byte by byte.
Bytes(h) == Cardinality(UNION {{p} \X (1..h[p]) : p \in DOMAIN h})

\* Between two requests
Idle(s) == session[s].op \in {"handshake", "read_header"}

\* The two shared counters are exactly what the permits in existence hold, a
\* permit that a session and an exchange share counted once, and stay within
\* the configured limits; a proxy permit is held just as long as an exchange.
\* A connection between two requests holds none of them: an idle client costs
\* nothing but its connection.
PermitAccounting ==
    /\ current_bytes <= max_bytes
    /\ current_bytes =
          Bytes([s \in Session |-> Gives(s, session[s])])
          + Bytes([x \in Exchange |-> exchange[x].request + exchange[x].body])
    /\ active_proxies <= max_proxies
    /\ active_proxies = Cardinality({s \in Session : session[s].proxy_permit})
    /\ \A s \in Session : session[s].proxy_permit <=> session[s].exchange # None
    /\ \A s \in Session : Idle(s) => session[s].request = 0 /\ session[s].response = 0
                                     /\ ~session[s].proxy_permit

\* Every request is answered at most once, whichever of refusal, exception,
\* upstream failure and streaming come together, and whatever is written to
\* the client belongs to a request that counts as answered; the next one starts
\* unanswered.
OneResponse ==
    \A s \in Session :
        /\ session[s].responses <= 1
        /\ session[s].op \in {"write"} \cup StreamOps =>
              session[s].completed /\ session[s].responses = 1
        /\ Idle(s) => ~session[s].completed

Awaits(s) ==
    \/ session[s].op # "none"
    \/ \E x \in Exchange : /\ x = session[s].exchange
                            /\ exchange[x].session = s
                            /\ exchange[x].state \in {"waiting", "stream_reading"}

\* No connection is left without progress: a session that has not finished
\* awaits an operation, or a running exchange that refers back to it.
NoDeadConnection == \A s \in Session : Unfinished(s) => Awaits(s)

\* The same but for one path: a session whose second response write_response
\* dropped, called from the catch block of start_proxy_request.
Attended == \A s \in Session : Unfinished(s) /\ ~session[s].silent => Awaits(s)

\* A connection serves at most max_requests_per_connection requests.
RequestLimit == \A s \in Session : session[s].requests_served <= max_requests_per_connection

\* A session that is told to drain goes away, whatever client and upstream do.
DrainingEnds ==
    \A s \in Session : session[s].draining ~> session[s].phase = "free" \/ session[s].silent
=============================================================================
