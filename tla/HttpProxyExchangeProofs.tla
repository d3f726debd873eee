---------------------- MODULE HttpProxyExchangeProofs ----------------------
(***************************************************************************)
(* The safety properties of the proxy exchanges, for every number of       *)
(* exchanges, connections and backends and without a bound on the number   *)
(* of deadlines an exchange goes through, and that every step of an        *)
(* exchange uses the pool as ConnectionLeases allows.                      *)
(***************************************************************************)
EXTENDS HttpProxyExchange, SequenceTheorems, TLAPS

----------------------------------------------------------------------------
(* The inductive invariant.                                                *)

\* What ConnectionLeases keeps by itself: a connection is cached, lent or
\* destroyed, and a cached one still has its socket.
LeaseInv ==
    /\ idle \in SUBSET Conn /\ leased \in SUBSET Conn
    /\ backend \in [Conn -> Backend \cup {None}]
    /\ socket \in [Conn -> SocketState]
    /\ pool_stopped \in BOOLEAN
    /\ idle \cap leased = {}
    /\ \A c \in Conn : socket[c] = "none" <=> c \notin idle \cup leased
    /\ \A c \in idle : socket[c] \in {"open", "dirty"}

Wait == [generation : Nat, for : {Deadline(s) : s \in Stages}, fired : BOOLEAN]

\* An exchange that is not under way has left nothing behind.
ReleasedIsBlank ==
    \A e \in Exchange : stage[e] = "none" =>
        /\ op[e] = "none" /\ waits[e] = {}
        /\ e \notin claimed /\ connection[e] = None

\* Only the session's cancel() claims a completion without a callback.
CancelledIsClaimed == cancelled \subseteq claimed

\* A live exchange holds a connection, which has no socket yet while the
\* upstream's name is being resolved.
LiveHoldsConnection ==
    \A e \in Exchange : stage[e] # "none" /\ Live(e) =>
        /\ connection[e] # None
        /\ stage[e] = "resolving" => socket[connection[e]] = "unopened"

\* No wait is from the future, and a wait of the current generation is for the
\* stage that a live exchange is in.
WaitsAreOfTheirStage ==
    \A e \in Exchange : \A w \in waits[e] :
        /\ w.generation <= deadline_generation[e]
        /\ Live(e) /\ w.generation = deadline_generation[e] => w.for = Deadline(stage[e])

\* A streamed response got past start_stream: its end need not look at the
\* status and the Upgrade field again.
StreamsAreVetted ==
    \A e \in Exchange :
        /\ stage[e] = "none" => reply[e] = {}
        /\ e \in streaming => reply[e] \cap {"interim", "upgrade_field"} = {}

ExchangeInv ==
    /\ LeaseInv
    /\ ExchangeTypeOK
    /\ waits \in [Exchange -> SUBSET Wait]
    /\ NotifiedOnce
    /\ DeadlineCovers
    /\ OwnsItsConnection
    /\ NoLeftovers
    /\ ReleasedIsBlank
    /\ CancelledIsClaimed
    /\ LiveHoldsConnection
    /\ WaitsAreOfTheirStage
    /\ StreamsAreVetted

----------------------------------------------------------------------------
(* The leases by themselves.                                               *)

\* Every step that ConnectionLeases allows keeps a connection in one place.
LEMMA LeaseStepInv ==
    ASSUME LeaseInv, [LeaseNext]_leaseVars
    PROVE  LeaseInv'
<1> USE NoneAssumption DEF LeaseInv, Destroy, Clean, Free, SocketState
<1>1. ASSUME NEW D \in SUBSET idle, NEW c \in Conn, NEW b \in Backend, Lend(b, c, D)
      PROVE  LeaseInv'
  BY <1>1 DEF Lend
<1>2. ASSUME NEW D \in SUBSET idle, NEW c \in Conn, NEW b \in Backend, Create(b, c, D)
      PROVE  LeaseInv'
  BY <1>2 DEF Create
<1>3. ASSUME NEW D \in SUBSET idle, NEW c \in Conn, Cache(c, D)
      PROVE  LeaseInv'
  BY <1>3 DEF Cache
<1>4. ASSUME NEW c \in Conn, Drop(c)
      PROVE  LeaseInv'
  BY <1>4 DEF Drop
<1>5. ASSUME NEW c \in Conn, Soil(c)
      PROVE  LeaseInv'
  BY <1>5 DEF Soil
<1>6. ASSUME NEW c \in Conn, Use(c)
      PROVE  LeaseInv'
  BY <1>6 DEF Use
<1>7. ASSUME NEW D \in SUBSET idle, Forget(D)
      PROVE  LeaseInv'
  BY <1>7 DEF Forget
<1>8. ASSUME NEW D, Halt(D)
      PROVE  LeaseInv'
  BY <1>8 DEF Halt
<1>9. CASE UNCHANGED leaseVars
  BY <1>9 DEF leaseVars
<1> QED
  BY <1>1, <1>2, <1>3, <1>4, <1>5, <1>6, <1>7, <1>8, <1>9 DEF LeaseNext

\* ConnectionLeases keeps each connection with one owner.
THEOREM LeasesAreExclusive == LeaseSpec => []LeaseInv
<1>1. LeaseInit => LeaseInv
  BY DEF LeaseInit, LeaseInv, SocketState
<1>2. LeaseInv /\ [LeaseNext]_leaseVars => LeaseInv'
  BY LeaseStepInv
<1> QED
  BY <1>1, <1>2, PTL DEF LeaseSpec

----------------------------------------------------------------------------
(* What the exchange's own variables say about its connection.             *)

\* A live exchange under way holds a connection of its own.
LEMMA HoldsOwn ==
    ASSUME ExchangeInv, NEW e \in Exchange, stage[e] # "none", Live(e)
    PROVE  /\ connection[e] \in Conn /\ connection[e] # None
           /\ connection[e] \in leased /\ connection[e] \notin idle
           /\ \A f \in Exchange : f # e => connection[f] # connection[e]
           /\ e \notin claimed /\ e \notin cancelled /\ Len(told[e]) = 0
BY DEF ExchangeInv, LiveHoldsConnection, ExchangeTypeOK, OwnsItsConnection, LeaseInv,
       NotifiedOnce, CancelledIsClaimed, Live

\* A handler runs only for an exchange that is under way.
LEMMA QueuedIsUnderWay ==
    ASSUME ExchangeInv, NEW e \in Exchange, op[e] # "none" \/ waits[e] # {}
    PROVE  stage[e] # "none"
BY DEF ExchangeInv, ReleasedIsBlank

\* close_upstream touches at most the exchange's own connection.
LEMMA CloseUpstreamUses ==
    ASSUME ExchangeInv, NEW e \in Exchange, stage[e] # "none", Live(e), CloseUpstream(e)
    PROVE  [LeaseNext]_leaseVars
<1> DEFINE c == connection[e]
<1>1. c \in Conn /\ c \in leased /\ socket \in [Conn -> SocketState]
  BY HoldsOwn DEF ExchangeInv, LeaseInv
<1>2. CASE socket[c] \in {"open", "dirty"}
  <2>1. socket' = [socket EXCEPT ![c] = "closed"]
    BY <1>1, <1>2 DEF CloseUpstream
  <2>2. Use(c)
    BY <1>1, <1>2, <2>1 DEF CloseUpstream, Use
  <2> QED
    BY <1>1, <2>2 DEF LeaseNext
<1>3. CASE socket[c] \notin {"open", "dirty"}
  <2>1. socket' = socket
    BY <1>1, <1>3 DEF CloseUpstream
  <2> QED
    BY <2>1 DEF CloseUpstream, leaseVars
<1> QED
  BY <1>2, <1>3

\* A response that ends: the connection is cached, dropped or closed.
LEMMA FinishUses ==
    ASSUME ExchangeInv, NEW e \in Exchange, stage[e] # "none", Live(e),
           NEW notice, NEW m, Finish(e, notice, m)
    PROVE  [LeaseNext]_leaseVars
<1>1. connection[e] \in Conn /\ connection[e] \in leased
  BY HoldsOwn
<1> DEFINE reuse == upstream_keep_alive /\ Reusable(e, m) /\ Clean(connection[e])
<1>2. CASE reuse
  BY <1>1, <1>2 DEF Finish, Put, LeaseNext
<1>3. CASE ~reuse
  BY <1>3, CloseUpstreamUses DEF Finish
<1> QED
  BY <1>2, <1>3

\* Whatever ends an exchange early only closes its own connection.
LEMMA CancelUses ==
    ASSUME ExchangeInv, NEW e \in Exchange, stage[e] # "none", Live(e),
           NEW pending, NEW left, CancelOperations(e, pending, left)
    PROVE  [LeaseNext]_leaseVars
BY CloseUpstreamUses DEF CancelOperations

\* The resolved name gives the connection its socket.
LEMMA OnResolveUses ==
    ASSUME ExchangeInv, NEW e \in Exchange, OnResolve(e)
    PROVE  [LeaseNext]_leaseVars
<1> DEFINE c == connection[e]
<1>1. stage[e] = "resolving" /\ Live(e)
  BY DEF OnResolve, Done
<1>2. c \in Conn /\ c \in leased /\ socket[c] = "unopened"
  BY <1>1, HoldsOwn DEF ExchangeInv, LiveHoldsConnection
<1>3. Use(c)
  BY <1>2 DEF OnResolve, SamePool, Use
<1> QED
  BY <1>2, <1>3 DEF LeaseNext

\* A completion handler of an exchange.
LEMMA HandlerUses ==
    ASSUME ExchangeInv, NEW e \in Exchange, ExchangeHandler(e)
    PROVE  [LeaseNext]_leaseVars
<1>1. CASE LateHandler(e)
  BY <1>1 DEF LateHandler
<1>2. stage[e] # "none"
  <2>1. op[e] # "none"
    BY DEF ExchangeHandler, LateHandler, OnUpstreamError, HandlerThrows, OnResolve, OnConnect,
           OnHandshake, OnWrite, OnReadHeader, OnReadBody, OnStreamWritten, OnStreamWriteError,
           OnStreamRead, Done, Queued
  <2> QED
    BY <2>1, QueuedIsUnderWay
<1>3. CASE OnUpstreamError(e) \/ HandlerThrows(e) \/ OnStreamWriteError(e)
  BY <1>2, <1>3, CancelUses DEF OnUpstreamError, HandlerThrows, OnStreamWriteError, Fail
<1>4. CASE OnResolve(e)
  BY <1>4, OnResolveUses
<1>5. CASE OnConnect(e)
  <2>1. CASE Fail(e, FALSE, "none", waits[e])
    BY <1>2, <1>5, <2>1, CancelUses DEF Fail, OnConnect, Done
  <2>2. CASE ~ Fail(e, FALSE, "none", waits[e])
    BY <1>5, <2>2 DEF OnConnect, WriteRequest, SamePool, leaseVars
  <2> QED
    BY <2>1, <2>2
<1>6. CASE OnHandshake(e) \/ OnWrite(e)
  BY <1>6 DEF OnHandshake, OnWrite, WriteRequest, SamePool, leaseVars
<1>7. ASSUME NEW m \in Replies, OnReadHeader(e, m)
      PROVE  [LeaseNext]_leaseVars
  <2>1. Live(e)
    BY <1>7 DEF OnReadHeader, Done
  <2>2. CASE Fail(e, FALSE, "none", waits[e]) \/ RejectBufferBudget(e)
    BY <1>2, <2>1, <2>2, CancelUses DEF Fail, RejectBufferBudget
  <2>3. CASE Finish(e, "response", m)
    BY <1>2, <2>1, <2>3, FinishUses
  <2>4. CASE Continues(e, "reading_body") \/ Continues(e, "stream_header")
    BY <2>4 DEF Continues
  <2> QED
    BY <1>7, <2>2, <2>3, <2>4 DEF OnReadHeader
<1>8. CASE OnReadBody(e)
  BY <1>2, <1>8, CancelUses, FinishUses DEF OnReadBody, Done, Fail
<1>9. CASE OnStreamWritten(e)
  BY <1>2, <1>9, FinishUses DEF OnStreamWritten, Done, Continues
<1>10. CASE OnStreamRead(e)
  BY <1>10 DEF OnStreamRead, Continues
<1> QED
  BY <1>1, <1>3, <1>4, <1>5, <1>6, <1>7, <1>8, <1>9, <1>10 DEF ExchangeHandler

\* Every step of the exchanges uses the pool as ConnectionLeases allows, or
\* not at all.
LEMMA ExchangeStepIsLeaseStep ==
    ASSUME ExchangeInv, [ExchangeNext]_proxyVars
    PROVE  [LeaseNext]_leaseVars
<1>1. ASSUME NEW e \in Exchange, NEW b \in Backend, NEW stream \in StreamModes, Begin(e, b, stream)
      PROVE  [LeaseNext]_leaseVars
  BY <1>1 DEF Begin, LeaseNext
<1>2. ASSUME NEW e \in Exchange, CancelExchange(e)
      PROVE  [LeaseNext]_leaseVars
  <2>1. Live(e)
    BY <1>2 DEF CancelExchange, Live, ExchangeInv, NotifiedOnce
  <2> QED
    BY <1>2, <2>1, CancelUses DEF CancelExchange
<1>3. ASSUME NEW e \in Exchange, ExchangeHandler(e)
      PROVE  [LeaseNext]_leaseVars
  BY <1>3, HandlerUses
<1>4. ASSUME NEW e \in Exchange, NEW w \in waits[e], OnDeadline(e, w)
      PROVE  [LeaseNext]_leaseVars
  <2>1. CASE w.generation = deadline_generation[e] /\ Live(e)
    BY <1>4, <2>1, QueuedIsUnderWay, CancelUses DEF OnDeadline, Fail
  <2>2. CASE ~ (w.generation = deadline_generation[e] /\ Live(e))
    BY <1>4, <2>2 DEF OnDeadline
  <2> QED
    BY <2>1, <2>2
<1>5. ASSUME NEW e \in Exchange, Release(e)
      PROVE  [LeaseNext]_leaseVars
  <2>1. connection[e] \in Conn \cup {None}
    BY DEF ExchangeInv, ExchangeTypeOK
  <2> QED
    BY <1>5, <2>1 DEF Release, LeaseNext
<1>6. ASSUME NEW e \in Exchange, OperationEnds(e) \/ DeadlineExpires(e)
      PROVE  [LeaseNext]_leaseVars
  BY <1>6 DEF OperationEnds, DeadlineExpires
<1>7. CASE PoolStep
  BY <1>7 DEF PoolStep, LeaseNext
<1>8. CASE UNCHANGED proxyVars
  BY <1>8 DEF proxyVars
<1> QED
  BY <1>1, <1>2, <1>3, <1>4, <1>5, <1>6, <1>7, <1>8 DEF ExchangeNext, DeadlineHandler

----------------------------------------------------------------------------
(* The invariant, by the ways in which a handler can go on.                *)

\* An exchange that ends without giving its connection back: failure, timeout,
\* rejection, exception or cancel, with or without a callback.
LEMMA CancelInv ==
    ASSUME ExchangeInv, LeaseInv', NEW e \in Exchange, stage[e] # "none", Live(e),
           NEW pending \in OpStates, NEW left \in SUBSET waits[e],
           CancelOperations(e, pending, left),
           claimed' = claimed \cup {e},
           \/ cancelled' = cancelled \cup {e} /\ told' = told
           \/ /\ cancelled' = cancelled
              /\ \E notice \in Notices : told' = [told EXCEPT ![e] = Append(@, notice)],
           \/ deadline_generation' = deadline_generation
           \/ deadline_generation' = [deadline_generation EXCEPT ![e] = @ + 1]
    PROVE  ExchangeInv'
<1> USE DEF ExchangeInv
<1> DEFINE c == connection[e]
<1>1. /\ c \in Conn /\ c # None /\ c \in leased /\ c \notin idle
      /\ \A f \in Exchange : f # e => connection[f] # c
      /\ e \notin claimed /\ e \notin cancelled /\ Len(told[e]) = 0
  BY HoldsOwn
<1>2. /\ completion_observed' = completion_observed \cup {e}
      /\ waits' = [waits EXCEPT ![e] = Fired(left)]
      /\ op' = [op EXCEPT ![e] = IF pending = "armed" THEN "aborted" ELSE pending]
      /\ socket' = [k \in Conn |-> IF k = c /\ socket[k] \in {"open", "dirty"}
                                   THEN "closed" ELSE socket[k]]
      /\ UNCHANGED <<idle, leased, connection, unsettled, stage,
                     streaming, stream_started, stream_final, reply>>
  BY DEF CancelOperations, CloseUpstream, streamVars
<1>3. told' \in [Exchange -> Seq(Notices)]
      /\ \A f \in Exchange : Len(told'[f]) = IF f \in claimed' \ cancelled' THEN 1 ELSE 0
  <2>1. told \in [Exchange -> Seq(Notices)]
        /\ \A f \in Exchange : Len(told[f]) = IF f \in claimed \ cancelled THEN 1 ELSE 0
    BY DEF ExchangeTypeOK, NotifiedOnce
  <2>2. CASE cancelled' = cancelled \cup {e} /\ told' = told
    BY <1>1, <2>1, <2>2
  <2>3. ASSUME cancelled' = cancelled, NEW notice \in Notices,
               told' = [told EXCEPT ![e] = Append(@, notice)]
        PROVE  told' \in [Exchange -> Seq(Notices)]
               /\ \A f \in Exchange : Len(told'[f]) = IF f \in claimed' \ cancelled' THEN 1 ELSE 0
    <3>1. Append(told[e], notice) \in Seq(Notices) /\ Len(Append(told[e], notice)) = 1
      BY <1>1, <2>1
    <3> QED
      BY <1>1, <2>1, <2>3, <3>1
  <2> QED
    BY <2>2, <2>3
<1>4. waits' \in [Exchange -> SUBSET Wait] /\ waits'[e] \in SUBSET waits[e]
  BY <1>2 DEF Fired
<1>5. deadline_generation' \in [Exchange -> Nat]
      /\ \A f \in Exchange : deadline_generation'[f] >= deadline_generation[f]
  <2>1. deadline_generation \in [Exchange -> Nat]
    BY DEF ExchangeTypeOK
  <2>2. CASE deadline_generation' = deadline_generation
    BY <2>1, <2>2
  <2>3. CASE deadline_generation' = [deadline_generation EXCEPT ![e] = @ + 1]
    BY <2>1, <2>3
  <2> QED
    BY <2>2, <2>3
<1>6. ExchangeTypeOK'
  <2>1. op' \in [Exchange -> OpStates]
    BY <1>2 DEF ExchangeTypeOK, OpStates
  <2>2. \A f \in Exchange : \A w \in waits'[f] : w \in Wait
    BY <1>4
  <2>3. cancelled' \in SUBSET Exchange
    BY DEF ExchangeTypeOK
  <2> QED
    BY <1>2, <1>3, <1>5, <2>1, <2>2, <2>3 DEF ExchangeTypeOK, Wait
<1>7. NotifiedOnce' /\ CancelledIsClaimed'
  BY <1>2, <1>3 DEF NotifiedOnce, CancelledIsClaimed
<1>8. \A f \in Exchange : Live(f)' <=> f # e /\ Live(f)
  BY <1>2 DEF Live
<1>9. DeadlineCovers' /\ ReleasedIsBlank' /\ WaitsAreOfTheirStage'
  <2>1. \A f \in Exchange \ {e} : /\ op'[f] = op[f] /\ waits'[f] = waits[f] /\ stage'[f] = stage[f]
                                  /\ deadline_generation'[f] = deadline_generation[f]
                                  /\ connection'[f] = connection[f]
                                  /\ f \in claimed' <=> f \in claimed
    BY <1>2 DEF ExchangeTypeOK
  <2>2. DeadlineCovers'
    BY <1>8, <2>1 DEF DeadlineCovers
  <2>3. ReleasedIsBlank'
    BY <1>2, <2>1 DEF ReleasedIsBlank
  <2>4. \A w \in waits'[e] : w.generation <= deadline_generation'[e]
    BY <1>4, <1>5 DEF WaitsAreOfTheirStage, Wait, ExchangeTypeOK
  <2>5. WaitsAreOfTheirStage'
    BY <1>8, <2>1, <2>4 DEF WaitsAreOfTheirStage
  <2> QED
    BY <2>2, <2>3, <2>5
<1>10. OwnsItsConnection' /\ NoLeftovers' /\ LiveHoldsConnection'
  <2>1. \A f \in Exchange : connection[f] # None => connection[f] \in Conn
    BY DEF ExchangeTypeOK
  <2>2. OwnsItsConnection'
    BY <1>1, <1>2, <1>8, <2>1 DEF OwnsItsConnection
  <2>3. LiveHoldsConnection'
    BY <1>1, <1>2, <1>8, <2>1 DEF LiveHoldsConnection
  <2> QED
    BY <1>2, <2>2, <2>3 DEF NoLeftovers
<1>11. StreamsAreVetted'
  BY <1>2 DEF StreamsAreVetted
<1> QED
  BY <1>4, <1>6, <1>7, <1>9, <1>10, <1>11

\* begin_deadline() leaves exactly one wait of the new generation, for the
\* stage it is called for, beside handlers that already fired.
LEMMA NewDeadline ==
    ASSUME ExchangeInv, NEW e \in Exchange, NEW n \in {1, 2}, NEW s \in Stages,
           BeginDeadline(e, n, s)
    PROVE  /\ waits' \in [Exchange -> SUBSET Wait]
           /\ deadline_generation' \in [Exchange -> Nat]
           /\ \A f \in Exchange \ {e} : /\ waits'[f] = waits[f]
                                        /\ deadline_generation'[f] = deadline_generation[f]
           /\ \A w \in waits'[e] : /\ w.generation <= deadline_generation'[e]
                                   /\ w.generation = deadline_generation'[e] => w.for = Deadline(s)
           /\ \E w \in waits'[e] : w.generation = deadline_generation'[e] /\ w.for = Deadline(s)
<1> DEFINE g == deadline_generation[e] + n
           new == [generation |-> g, for |-> Deadline(s), fired |-> FALSE]
<1>1. deadline_generation[e] \in Nat /\ g \in Nat /\ g > deadline_generation[e]
  BY DEF ExchangeInv, ExchangeTypeOK
<1>2. new \in Wait /\ new.generation = g /\ new.for = Deadline(s)
  BY <1>1 DEF Wait
<1>3. /\ deadline_generation' = [deadline_generation EXCEPT ![e] = g]
      /\ waits' = [waits EXCEPT ![e] = Fired(@) \cup {new}]
  BY DEF BeginDeadline
<1> HIDE DEF new, g
<1>4. waits \in [Exchange -> SUBSET Wait] /\ deadline_generation \in [Exchange -> Nat]
  BY DEF ExchangeInv, ExchangeTypeOK
<1>5. Fired(waits[e]) \in SUBSET waits[e]
  BY DEF Fired
<1>6. \A w \in Fired(waits[e]) : w.generation \in Nat /\ w.generation < g
  BY <1>1, <1>4, <1>5 DEF ExchangeInv, WaitsAreOfTheirStage, Wait
<1>7. waits'[e] = Fired(waits[e]) \cup {new} /\ deadline_generation'[e] = g
  BY <1>3, <1>4
<1>8. waits' \in [Exchange -> SUBSET Wait] /\ deadline_generation' \in [Exchange -> Nat]
  BY <1>1, <1>2, <1>3, <1>4, <1>5
<1>9. \A w \in waits'[e] : /\ w.generation <= deadline_generation'[e]
                           /\ w.generation = deadline_generation'[e] => w.for = Deadline(s)
  BY <1>1, <1>2, <1>6, <1>7
<1> QED
  BY <1>2, <1>3, <1>4, <1>7, <1>8, <1>9

\* The next stage begins under a deadline of its own; the connection may get
\* its socket, or become part of a request.
LEMMA AdvanceInv ==
    ASSUME ExchangeInv, LeaseInv', NEW e \in Exchange, stage[e] # "none", Live(e),
           NEW s \in Stages \ {"none", "resolving"}, Starts(e, s), BeginDeadline(e, 2, s),
           SameMessage, SamePool,
           socket' = socket \/ socket' = [socket EXCEPT ![connection[e]] = "open"],
           unsettled' = unsettled \/ unsettled' = unsettled \cup {connection[e]}
    PROVE  ExchangeInv'
<1> USE DEF ExchangeInv
<1> DEFINE c == connection[e]
<1>1. /\ c \in Conn /\ c # None /\ c \in leased /\ c \notin idle
      /\ \A f \in Exchange : f # e => connection[f] # c
      /\ e \notin claimed /\ e \notin cancelled /\ Len(told[e]) = 0
  BY HoldsOwn
<1>2. /\ stage' = [stage EXCEPT ![e] = s] /\ op' = [op EXCEPT ![e] = "armed"]
      /\ UNCHANGED <<claimed, completion_observed, told, cancelled, streaming, stream_started,
                     stream_final, reply, connection, idle, leased>>
  BY DEF Starts, SameMessage, SamePool, controlVars, streamVars
<1>3. /\ waits' \in [Exchange -> SUBSET Wait]
      /\ deadline_generation' \in [Exchange -> Nat]
      /\ \A f \in Exchange \ {e} : /\ waits'[f] = waits[f]
                                   /\ deadline_generation'[f] = deadline_generation[f]
      /\ \A w \in waits'[e] : /\ w.generation <= deadline_generation'[e]
                              /\ w.generation = deadline_generation'[e] => w.for = Deadline(s)
      /\ \E w \in waits'[e] : w.generation = deadline_generation'[e] /\ w.for = Deadline(s)
  BY NewDeadline
<1>4. ExchangeTypeOK'
  <2>1. \A f \in Exchange : \A w \in waits'[f] : w \in Wait
    BY <1>3
  <2>2. stage' \in [Exchange -> Stages] /\ op' \in [Exchange -> OpStates]
    BY <1>2 DEF ExchangeTypeOK, OpStates
  <2>3. unsettled' \subseteq Conn
    BY <1>1 DEF ExchangeTypeOK
  <2> QED
    BY <1>2, <1>3, <2>1, <2>2, <2>3 DEF ExchangeTypeOK, Wait
<1>5. NotifiedOnce' /\ CancelledIsClaimed'
  BY <1>2 DEF NotifiedOnce, CancelledIsClaimed
<1>6. \A f \in Exchange : /\ Live(f)' <=> Live(f)
                          /\ f # e => stage'[f] = stage[f] /\ op'[f] = op[f]
  BY <1>2 DEF Live, ExchangeTypeOK
<1>7. stage'[e] = s /\ op'[e] = "armed"
  BY <1>2 DEF ExchangeTypeOK
<1>8. DeadlineCovers'
  BY <1>3, <1>6, <1>7 DEF DeadlineCovers
<1>9. ReleasedIsBlank'
  BY <1>2, <1>3, <1>6, <1>7 DEF ReleasedIsBlank
<1>10. WaitsAreOfTheirStage'
  BY <1>3, <1>6, <1>7 DEF WaitsAreOfTheirStage
<1>11. \A f \in Exchange : connection[f] # None /\ f # e => connection[f] \in Conn
                                                         /\ socket'[connection[f]] = socket[connection[f]]
  BY <1>1 DEF ExchangeTypeOK, LeaseInv
<1>12. OwnsItsConnection'
  BY <1>2, <1>6, <1>11 DEF OwnsItsConnection
<1>13. LiveHoldsConnection'
  BY <1>1, <1>2, <1>6, <1>7, <1>11 DEF LiveHoldsConnection
<1>14. NoLeftovers'
  BY <1>1, <1>2 DEF NoLeftovers
<1>15. StreamsAreVetted'
  BY <1>2, <1>6, <1>7 DEF StreamsAreVetted
<1> QED
  BY <1>3, <1>4, <1>5, <1>8, <1>9, <1>10, <1>12, <1>13, <1>14, <1>15

\* The next part of the response, under the deadline that is running.
LEMMA ContinueInv ==
    ASSUME ExchangeInv, LeaseInv', NEW e \in Exchange, stage[e] # "none", Live(e),
           NEW s \in Stages \ {"none", "resolving"}, Deadline(s) = Deadline(stage[e]),
           Continues(e, s),
           stream_started' \in SUBSET Exchange, stream_final' \in SUBSET Exchange,
           NEW m \in SUBSET Flaws, reply' = [reply EXCEPT ![e] = m],
           e \in streaming => m \cap {"interim", "upgrade_field"} = {}
    PROVE  ExchangeInv'
<1> USE DEF ExchangeInv
<1>1. /\ stage' = [stage EXCEPT ![e] = s] /\ op' = [op EXCEPT ![e] = "armed"]
      /\ UNCHANGED <<claimed, completion_observed, told, cancelled, streaming, connection, idle,
                     leased, socket, deadline_generation, waits, unsettled>>
  BY DEF Continues, Starts, controlVars, leaseVars
<1>2. \A f \in Exchange : /\ Live(f)' <=> Live(f)
                          /\ f # e => stage'[f] = stage[f] /\ op'[f] = op[f]
  BY <1>1 DEF Live, ExchangeTypeOK
<1>3. stage'[e] = s /\ op'[e] = "armed"
  BY <1>1 DEF ExchangeTypeOK
<1>4. ExchangeTypeOK'
  <2>1. stage' \in [Exchange -> Stages] /\ op' \in [Exchange -> OpStates]
    BY <1>1 DEF ExchangeTypeOK, OpStates
  <2>2. reply' \in [Exchange -> SUBSET Flaws]
    BY DEF ExchangeTypeOK
  <2> QED
    BY <1>1, <2>1, <2>2 DEF ExchangeTypeOK
<1>5. NotifiedOnce' /\ CancelledIsClaimed' /\ NoLeftovers'
  BY <1>1 DEF NotifiedOnce, CancelledIsClaimed, NoLeftovers
<1>6. DeadlineCovers'
  <2>1. \E w \in waits[e] : w.generation = deadline_generation[e] /\ w.for = Deadline(stage[e])
    BY DEF DeadlineCovers
  <2> QED
    BY <1>1, <1>2, <1>3, <2>1 DEF DeadlineCovers
<1>7. ReleasedIsBlank'
  BY <1>1, <1>2, <1>3 DEF ReleasedIsBlank
<1>8. WaitsAreOfTheirStage'
  BY <1>1, <1>2, <1>3 DEF WaitsAreOfTheirStage
<1>9. OwnsItsConnection'
  BY <1>1, <1>2 DEF OwnsItsConnection
<1>10. LiveHoldsConnection'
  BY <1>1, <1>2, <1>3 DEF LiveHoldsConnection
<1>11. StreamsAreVetted'
  <2>1. reply'[e] = m /\ \A f \in Exchange \ {e} : reply'[f] = reply[f]
    BY DEF ExchangeTypeOK
  <2> QED
    BY <1>1, <1>2, <1>3, <2>1 DEF StreamsAreVetted
<1> QED
  BY <1>1, <1>4, <1>5, <1>6, <1>7, <1>8, <1>9, <1>10, <1>11

\* A claim that succeeds tells the session once.
LEMMA NotifyTells ==
    ASSUME ExchangeInv, NEW e \in Exchange, Live(e), stage[e] # "none", NEW notice \in Notices,
           Notify(e, notice)
    PROVE  /\ claimed' = claimed \cup {e}
           /\ told' = [told EXCEPT ![e] = Append(@, notice)]
           /\ told[e] = <<>>
           /\ told' \in [Exchange -> Seq(Notices)]
           /\ \A f \in Exchange \ {e} : told'[f] = told[f]
           /\ told'[e] = <<notice>>
<1>1. e \notin claimed /\ Len(told[e]) = 0 /\ told \in [Exchange -> Seq(Notices)]
  BY HoldsOwn DEF ExchangeInv, ExchangeTypeOK
<1>2. told[e] = <<>>
  BY <1>1, EmptySeq
<1>3. claimed' = claimed \cup {e} /\ told' = [told EXCEPT ![e] = Append(@, notice)]
  BY <1>1 DEF Notify
<1>4. Append(told[e], notice) = <<notice>> /\ <<notice>> \in Seq(Notices)
  BY <1>2
<1> QED
  BY <1>1, <1>2, <1>3, <1>4

\* finish_response and finish_stream: the connection moves away before the
\* session is told, or it is closed.
LEMMA FinishInv ==
    ASSUME ExchangeInv, LeaseInv', NEW e \in Exchange, stage[e] # "none", Live(e),
           NEW notice \in Notices, NEW m \in SUBSET Flaws, Finish(e, notice, m),
           e \in streaming => m \cap {"interim", "upgrade_field"} = {}
    PROVE  ExchangeInv'
<1> USE DEF ExchangeInv
<1> DEFINE c == connection[e]
           reuse == upstream_keep_alive /\ Reusable(e, m) /\ Clean(c)
<1>1. /\ c \in Conn /\ c # None /\ c \in leased /\ c \notin idle
      /\ \A f \in Exchange : f # e => connection[f] # c
      /\ e \notin claimed /\ e \notin cancelled /\ Len(told[e]) = 0
  BY HoldsOwn
<1>2. PICK said \in Notices : Notify(e, said)
  BY DEF Finish, Notices
<1>3. /\ claimed' = claimed \cup {e}
      /\ told' = [told EXCEPT ![e] = Append(@, said)]
      /\ told' \in [Exchange -> Seq(Notices)]
      /\ \A f \in Exchange \ {e} : told'[f] = told[f]
      /\ told'[e] = <<said>>
  BY <1>2, NotifyTells
<1>4. /\ deadline_generation' = [deadline_generation EXCEPT ![e] = @ + 1]
      /\ waits' = [waits EXCEPT ![e] = Fired(@)]
      /\ op' = [op EXCEPT ![e] = "none"]
      /\ completion_observed' = completion_observed \cup {e}
      /\ UNCHANGED <<stage, streamVars, cancelled>>
  BY DEF Finish, FinishDeadline
<1>5. CASE ~reuse
  <2>1. CancelOperations(e, "none", waits[e])
    BY <1>4, <1>5 DEF Finish, CancelOperations
  <2>2. "none" \in OpStates /\ waits[e] \in SUBSET waits[e]
    BY DEF OpStates
  <2> QED
    BY <1>3, <1>4, <2>1, <2>2, CancelInv
<1>6. CASE reuse
  <2>0. m = {}
    BY <1>6 DEF Reusable, Flaws
  <2>1. /\ (\E D \in SUBSET idle : Cache(c, D)) \/ Drop(c) \/ Halt({c})
        /\ connection' = [connection EXCEPT ![e] = None]
        /\ unsettled' = unsettled \ {c}
    BY <1>6, <2>0 DEF Finish, Put
  <2>2. /\ leased' = leased \ {c} /\ idle' \in SUBSET (idle \cup {c})
        /\ \A k \in leased \ {c} : socket'[k] = socket[k]
    BY <2>1 DEF Cache, Drop, Halt, Destroy, LeaseInv
  <2>3. waits' \in [Exchange -> SUBSET Wait] /\ waits'[e] \in SUBSET waits[e]
    BY <1>4 DEF Fired
  <2>4. deadline_generation' \in [Exchange -> Nat] /\ deadline_generation'[e] >= deadline_generation[e]
    <3>1. deadline_generation \in [Exchange -> Nat]
      BY DEF ExchangeTypeOK
    <3> QED
      BY <1>4, <3>1
  <2>5. ExchangeTypeOK'
    <3>1. op' \in [Exchange -> OpStates] /\ connection' \in [Exchange -> Conn \cup {None}]
      BY <1>4, <2>1 DEF ExchangeTypeOK, OpStates
    <3>2. \A f \in Exchange : \A w \in waits'[f] : w \in Wait
      BY <2>3
    <3> QED
      BY <1>3, <1>4, <2>1, <2>4, <3>1, <3>2 DEF ExchangeTypeOK, Wait, streamVars
  <2>6. NotifiedOnce' /\ CancelledIsClaimed'
    BY <1>1, <1>3, <1>4 DEF NotifiedOnce, CancelledIsClaimed
  <2>7. \A f \in Exchange : Live(f)' <=> f # e /\ Live(f)
    BY <1>4 DEF Live
  <2>8. \A f \in Exchange \ {e} : /\ op'[f] = op[f] /\ waits'[f] = waits[f] /\ stage'[f] = stage[f]
                                  /\ deadline_generation'[f] = deadline_generation[f]
                                  /\ connection'[f] = connection[f]
                                  /\ f \in claimed' <=> f \in claimed
    BY <1>3, <1>4, <2>1 DEF ExchangeTypeOK
  <2>9. connection'[e] = None /\ stage'[e] = stage[e]
    BY <1>4, <2>1 DEF ExchangeTypeOK
  <2>10. DeadlineCovers' /\ ReleasedIsBlank'
    BY <2>7, <2>8, <2>9 DEF DeadlineCovers, ReleasedIsBlank
  <2>11. WaitsAreOfTheirStage'
    <3>1. \A w \in waits'[e] : w.generation <= deadline_generation'[e]
      BY <2>3, <2>4 DEF WaitsAreOfTheirStage, Wait, ExchangeTypeOK
    <3> QED
      BY <2>7, <2>8, <3>1 DEF WaitsAreOfTheirStage
  <2>12. \A f \in Exchange \ {e} : connection[f] # None => socket'[connection[f]] = socket[connection[f]]
    BY <1>1, <2>2 DEF OwnsItsConnection
  <2>13. OwnsItsConnection'
    <3>1. leased' = {connection'[f] : f \in Exchange} \ {None}
      BY <1>1, <2>2, <2>8, <2>9 DEF OwnsItsConnection
    <3>2. \A f, g \in Exchange : connection'[f] = connection'[g] /\ connection'[f] # None => f = g
      BY <2>8, <2>9 DEF OwnsItsConnection
    <3>3. \A f \in Exchange : connection'[f] # None /\ ~Live(f)' => socket'[connection'[f]] # "open"
      BY <2>7, <2>8, <2>9, <2>12 DEF OwnsItsConnection
    <3> QED
      BY <3>1, <3>2, <3>3 DEF OwnsItsConnection
  <2>14. LiveHoldsConnection'
    BY <2>7, <2>8, <2>12 DEF LiveHoldsConnection
  <2>15. NoLeftovers'
    BY <2>1, <2>2 DEF NoLeftovers
  <2>16. StreamsAreVetted'
    BY <1>4 DEF StreamsAreVetted, streamVars
  <2> QED
    BY <2>3, <2>5, <2>6, <2>10, <2>11, <2>13, <2>14, <2>15, <2>16
<1> QED
  BY <1>5, <1>6

\* A new exchange, with a lent or a new connection.
LEMMA BeginInv ==
    ASSUME ExchangeInv, LeaseInv', NEW e \in Exchange, NEW b \in Backend, NEW stream \in BOOLEAN,
           Begin(e, b, stream)
    PROVE  ExchangeInv'
<1> USE DEF ExchangeInv
<1>1. PICK c \in Conn :
          /\ \E D \in SUBSET idle : Lend(b, c, D) \/ Create(b, c, D)
          /\ connection' = [connection EXCEPT ![e] = c]
          /\ LET s == IF socket[c] = "open" THEN "writing" ELSE "resolving" IN
             /\ Starts(e, s)
             /\ BeginDeadline(e, 1, s)
             /\ unsettled' = IF s = "writing" THEN unsettled \cup {c} ELSE unsettled \ {c}
  BY DEF Begin
<1> DEFINE s == IF socket[c] = "open" THEN "writing" ELSE "resolving"
<1>2. /\ stage' = [stage EXCEPT ![e] = s] /\ op' = [op EXCEPT ![e] = "armed"]
      /\ BeginDeadline(e, 1, s)
      /\ unsettled' = IF s = "writing" THEN unsettled \cup {c} ELSE unsettled \ {c}
      /\ s \in Stages /\ s # "none"
  BY <1>1 DEF Starts, Stages
<1>3. /\ stage[e] = "none" /\ e \notin claimed /\ Live(e) /\ connection[e] = None
      /\ UNCHANGED <<claimed, completion_observed, told, cancelled, stream_started, stream_final,
                     reply>>
      /\ streaming' \in SUBSET Exchange /\ streaming' \subseteq streaming \cup {e}
  BY DEF Begin, ReleasedIsBlank, NotifiedOnce, Live, controlVars, ExchangeTypeOK
<1>4. /\ leased' = leased \cup {c} /\ c \notin leased /\ c # None
      /\ idle' \in SUBSET idle /\ c \notin idle'
      /\ \A k \in leased : socket'[k] = socket[k]
      /\ s = "resolving" => socket'[c] = "unopened"
  BY <1>1, NoneAssumption DEF Lend, Create, Destroy, Clean, Free, LeaseInv
<1>5. /\ waits' \in [Exchange -> SUBSET Wait]
      /\ deadline_generation' \in [Exchange -> Nat]
      /\ \A f \in Exchange \ {e} : /\ waits'[f] = waits[f]
                                   /\ deadline_generation'[f] = deadline_generation[f]
      /\ \A w \in waits'[e] : /\ w.generation <= deadline_generation'[e]
                              /\ w.generation = deadline_generation'[e] => w.for = Deadline(s)
      /\ \E w \in waits'[e] : w.generation = deadline_generation'[e] /\ w.for = Deadline(s)
  BY <1>2, NewDeadline
<1> HIDE DEF s
<1>6. ExchangeTypeOK'
  <2>1. stage' \in [Exchange -> Stages] /\ op' \in [Exchange -> OpStates]
        /\ connection' \in [Exchange -> Conn \cup {None}] /\ unsettled' \subseteq Conn
    BY <1>1, <1>2 DEF ExchangeTypeOK, OpStates
  <2>2. \A f \in Exchange : \A w \in waits'[f] : w \in Wait
    BY <1>5
  <2> QED
    BY <1>3, <1>5, <2>1, <2>2 DEF ExchangeTypeOK, Wait
<1>7. NotifiedOnce' /\ CancelledIsClaimed'
  BY <1>3 DEF NotifiedOnce, CancelledIsClaimed
<1>8. \A f \in Exchange : /\ Live(f)' <=> Live(f)
                          /\ f # e => /\ stage'[f] = stage[f] /\ op'[f] = op[f]
                                      /\ connection'[f] = connection[f]
  BY <1>1, <1>2, <1>3 DEF Live, ExchangeTypeOK
<1>9. stage'[e] = s /\ op'[e] = "armed" /\ connection'[e] = c
  BY <1>1, <1>2 DEF ExchangeTypeOK
<1>10. DeadlineCovers'
  BY <1>5, <1>8, <1>9 DEF DeadlineCovers
<1>11. ReleasedIsBlank'
  BY <1>2, <1>3, <1>5, <1>8, <1>9 DEF ReleasedIsBlank
<1>12. WaitsAreOfTheirStage'
  BY <1>5, <1>8, <1>9 DEF WaitsAreOfTheirStage
<1>13. \A f \in Exchange \ {e} : connection[f] # None => /\ connection[f] # c
                                                         /\ socket'[connection[f]] = socket[connection[f]]
  BY <1>4 DEF OwnsItsConnection
<1>14. OwnsItsConnection'
  <2>1. leased' = {connection'[f] : f \in Exchange} \ {None}
    BY <1>3, <1>4, <1>8, <1>9 DEF OwnsItsConnection
  <2>2. \A f, g \in Exchange : connection'[f] = connection'[g] /\ connection'[f] # None => f = g
    BY <1>8, <1>9, <1>13 DEF OwnsItsConnection
  <2>3. \A f \in Exchange : connection'[f] # None /\ ~Live(f)' => socket'[connection'[f]] # "open"
    BY <1>3, <1>8, <1>9, <1>13 DEF OwnsItsConnection
  <2> QED
    BY <2>1, <2>2, <2>3 DEF OwnsItsConnection
<1>15. LiveHoldsConnection'
  BY <1>4, <1>8, <1>9, <1>13 DEF LiveHoldsConnection
<1>16. NoLeftovers'
  BY <1>2, <1>4 DEF NoLeftovers
<1>17. StreamsAreVetted'
  BY <1>2, <1>3, <1>8, <1>9 DEF StreamsAreVetted
<1> QED
  BY <1>5, <1>6, <1>7, <1>10, <1>11, <1>12, <1>14, <1>15, <1>16, <1>17

\* The exchange is destroyed, with a connection it still owns.
LEMMA ReleaseInv ==
    ASSUME ExchangeInv, LeaseInv', NEW e \in Exchange, Release(e)
    PROVE  ExchangeInv'
<1> USE DEF ExchangeInv
<1> DEFINE c == connection[e]
<1>1. /\ op[e] = "none" /\ waits[e] = {}
      /\ stage' = [stage EXCEPT ![e] = "none"]
      /\ deadline_generation' = [deadline_generation EXCEPT ![e] = 0]
      /\ claimed' = claimed \ {e} /\ completion_observed' = completion_observed \ {e}
      /\ cancelled' = cancelled \ {e}
      /\ told' = [told EXCEPT ![e] = <<>>]
      /\ streaming' = streaming \ {e}
      /\ stream_started' = stream_started \ {e} /\ stream_final' = stream_final \ {e}
      /\ reply' = [reply EXCEPT ![e] = {}]
      /\ connection' = [connection EXCEPT ![e] = None]
      /\ op' = op /\ waits' = waits
  BY DEF Release
<1>2. /\ idle' = idle /\ leased' = leased \ {c} /\ unsettled' \in SUBSET unsettled
      /\ \A k \in Conn \ {c} : socket'[k] = socket[k]
  <2>1. CASE c = None
    BY <2>1, NoneAssumption DEF Release, leaseVars, LeaseInv
  <2>2. CASE c # None
    BY <2>2 DEF Release, Drop, Destroy
  <2> QED
    BY <2>1, <2>2
<1>3. \A f \in Exchange \ {e} : /\ stage'[f] = stage[f] /\ connection'[f] = connection[f]
                                /\ deadline_generation'[f] = deadline_generation[f]
                                /\ told'[f] = told[f] /\ (Live(f)' <=> Live(f))
                                /\ f \in claimed' <=> f \in claimed
  BY <1>1 DEF ExchangeTypeOK, Live
<1>4. stage'[e] = "none" /\ connection'[e] = None /\ told'[e] = <<>> /\ deadline_generation'[e] = 0
  BY <1>1 DEF ExchangeTypeOK
<1>5. ExchangeTypeOK'
  <2>1. stage' \in [Exchange -> Stages]
    BY <1>1 DEF ExchangeTypeOK, Stages
  <2>2. deadline_generation' \in [Exchange -> Nat]
    BY <1>1 DEF ExchangeTypeOK
  <2>3. told' \in [Exchange -> Seq(Notices)] /\ connection' \in [Exchange -> Conn \cup {None}]
    BY <1>1 DEF ExchangeTypeOK
  <2>4. reply' \in [Exchange -> SUBSET Flaws]
    BY <1>1 DEF ExchangeTypeOK
  <2> QED
    BY <1>1, <1>2, <2>1, <2>2, <2>3, <2>4 DEF ExchangeTypeOK
<1>6. NotifiedOnce'
  <2>1. Len(told'[e]) = 0
    BY <1>4
  <2> QED
    BY <1>1, <1>3, <2>1 DEF NotifiedOnce
<1>7. CancelledIsClaimed' /\ NoLeftovers'
  BY <1>1, <1>2 DEF CancelledIsClaimed, NoLeftovers
<1>8. DeadlineCovers' /\ ReleasedIsBlank' /\ WaitsAreOfTheirStage'
  <2>1. DeadlineCovers'
    BY <1>1, <1>3, <1>4 DEF DeadlineCovers
  <2>2. ReleasedIsBlank'
    BY <1>1, <1>3, <1>4 DEF ReleasedIsBlank
  <2>3. WaitsAreOfTheirStage'
    BY <1>1, <1>3 DEF WaitsAreOfTheirStage
  <2> QED
    BY <2>1, <2>2, <2>3
<1>9. \A f \in Exchange \ {e} : connection[f] # None => /\ connection[f] # c
                                                        /\ socket'[connection[f]] = socket[connection[f]]
  BY <1>2 DEF OwnsItsConnection, ExchangeTypeOK
<1>10. OwnsItsConnection'
  <2>1. leased' = {connection'[f] : f \in Exchange} \ {None}
    BY <1>2, <1>3, <1>4, <1>9 DEF OwnsItsConnection
  <2>2. \A f, g \in Exchange : connection'[f] = connection'[g] /\ connection'[f] # None => f = g
    BY <1>3, <1>4 DEF OwnsItsConnection
  <2>3. \A f \in Exchange : connection'[f] # None /\ ~Live(f)' => socket'[connection'[f]] # "open"
    BY <1>3, <1>4, <1>9 DEF OwnsItsConnection
  <2> QED
    BY <2>1, <2>2, <2>3 DEF OwnsItsConnection
<1>11. LiveHoldsConnection'
  BY <1>3, <1>4, <1>9 DEF LiveHoldsConnection
<1>12. StreamsAreVetted'
  <2>1. reply'[e] = {} /\ \A f \in Exchange \ {e} : reply'[f] = reply[f]
    BY <1>1 DEF ExchangeTypeOK
  <2> QED
    BY <1>1, <1>3, <2>1 DEF StreamsAreVetted
<1> QED
  BY <1>1, <1>5, <1>6, <1>7, <1>8, <1>10, <1>11, <1>12

\* Handlers that come late and events of the kernel change only the state of
\* an operation or of a wait.
LEMMA QuietStepInv ==
    ASSUME ExchangeInv, LeaseInv', NEW e \in Exchange,
           \/ LateHandler(e) \/ OperationEnds(e) \/ DeadlineExpires(e)
           \/ \E w \in waits[e] : /\ OnDeadline(e, w)
                                  /\ ~ (w.generation = deadline_generation[e] /\ Live(e))
    PROVE  ExchangeInv'
<1> USE DEF ExchangeInv
<1>1. /\ UNCHANGED <<stage, deadline_generation, claimed, completion_observed, told, cancelled,
                     streaming, stream_started, stream_final, reply, connection, unsettled,
                     idle, leased, socket>>
      /\ \A f \in Exchange : Live(f)' <=> Live(f)
  BY DEF LateHandler, OperationEnds, DeadlineExpires, OnDeadline, leaseVars, controlVars,
         streamVars, Live
<1>2. /\ op' \in [Exchange -> OpStates]
      /\ \A f \in Exchange \ {e} : op'[f] = op[f] /\ waits'[f] = waits[f]
      /\ stage[e] # "none"
      /\ Live(e) => op'[e] # "none"
  <2>1. stage[e] # "none"
    BY QueuedIsUnderWay DEF LateHandler, OperationEnds, DeadlineExpires, OnDeadline, Queued
  <2>2. op[e] # "none" \/ ~Live(e)
    BY <2>1 DEF DeadlineCovers
  <2> QED
    BY <2>1, <2>2 DEF LateHandler, OperationEnds, DeadlineExpires, OnDeadline, ExchangeTypeOK, OpStates
<1>3. /\ waits' \in [Exchange -> SUBSET Wait]
      /\ \A v \in waits'[e] : \E w \in waits[e] : v.generation = w.generation /\ v.for = w.for
      /\ Live(e) => \A w \in waits[e] : w.generation = deadline_generation[e] =>
                       \E v \in waits'[e] : v.generation = w.generation /\ v.for = w.for
  <2>1. waits \in [Exchange -> SUBSET Wait]
    OBVIOUS
  <2>2. CASE LateHandler(e) \/ OperationEnds(e)
    BY <2>1, <2>2 DEF LateHandler, OperationEnds
  <2>3. ASSUME NEW w \in waits[e], OnDeadline(e, w),
               ~ (w.generation = deadline_generation[e] /\ Live(e))
        PROVE  /\ waits' \in [Exchange -> SUBSET Wait]
               /\ \A v \in waits'[e] : \E u \in waits[e] : v.generation = u.generation /\ v.for = u.for
               /\ Live(e) => \A u \in waits[e] : u.generation = deadline_generation[e] =>
                                \E v \in waits'[e] : v.generation = u.generation /\ v.for = u.for
    <3>1. waits' = [waits EXCEPT ![e] = @ \ {w}]
      BY <2>3 DEF OnDeadline
    <3> QED
      BY <2>1, <2>3, <3>1
  <2>4. CASE DeadlineExpires(e)
    <3>1. PICK w \in waits[e] : waits' = [waits EXCEPT ![e] = (@ \ {w}) \cup {[w EXCEPT !.fired = TRUE]}]
      BY <2>4 DEF DeadlineExpires
    <3> DEFINE v == [w EXCEPT !.fired = TRUE]
    <3>2. v \in Wait /\ v.generation = w.generation /\ v.for = w.for
      <4> DEFINE F == {Deadline(s) : s \in Stages}
      <4>1. w \in [generation : Nat, for : F, fired : BOOLEAN]
        BY <2>1 DEF Wait
      <4> HIDE DEF F
      <4>2. v \in [generation : Nat, for : F, fired : BOOLEAN]
            /\ v.generation = w.generation /\ v.for = w.for
        BY <4>1
      <4> QED
        BY <4>2 DEF Wait, F
    <3>3. waits'[e] = (waits[e] \ {w}) \cup {v}
      BY <2>1, <3>1
    <3> HIDE DEF v
    <3>4. waits' \in [Exchange -> SUBSET Wait]
      BY <2>1, <3>1, <3>2 DEF v
    <3> QED
      BY <3>2, <3>3, <3>4
  <2> QED
    BY <2>2, <2>3, <2>4
<1>4. ExchangeTypeOK'
  <2>1. \A f \in Exchange : \A w \in waits'[f] : w \in Wait
    BY <1>3
  <2> QED
    BY <1>1, <1>2, <2>1 DEF ExchangeTypeOK, Wait
<1>5. NotifiedOnce' /\ CancelledIsClaimed' /\ NoLeftovers'
  BY <1>1 DEF NotifiedOnce, CancelledIsClaimed, NoLeftovers
<1>6. DeadlineCovers'
  BY <1>1, <1>2, <1>3 DEF DeadlineCovers
<1>7. ReleasedIsBlank'
  BY <1>1, <1>2 DEF ReleasedIsBlank
<1>8. WaitsAreOfTheirStage'
  BY <1>1, <1>2, <1>3 DEF WaitsAreOfTheirStage
<1>9. OwnsItsConnection' /\ LiveHoldsConnection' /\ StreamsAreVetted'
  BY <1>1 DEF OwnsItsConnection, LiveHoldsConnection, StreamsAreVetted
<1> QED
  BY <1>3, <1>4, <1>5, <1>6, <1>7, <1>8, <1>9

\* The pool and the upstreams leave the exchanges alone, and no connection
\* that is lent changes from unopened or from closed.
LEMMA PoolStepInv ==
    ASSUME ExchangeInv, LeaseInv', PoolStep \/ UNCHANGED proxyVars
    PROVE  ExchangeInv'
<1> USE DEF ExchangeInv
<1>1. UNCHANGED <<stage, op, deadline_generation, waits, claimed, completion_observed, told, cancelled,
                  streaming, stream_started, stream_final, reply, connection, unsettled>>
  BY DEF PoolStep, proxyVars, exchangeVars, controlVars, streamVars
<1>2. /\ leased' = leased /\ idle' \in SUBSET idle
      /\ \A k \in leased : /\ socket[k] # "open" => socket'[k] = socket[k]
                           /\ socket'[k] = "open" => socket[k] = "open"
  BY DEF PoolStep, Soil, Clean, Forget, Halt, Destroy, proxyVars, leaseVars, LeaseInv
<1>3. ExchangeTypeOK' /\ (waits \in [Exchange -> SUBSET Wait])'
  BY <1>1 DEF ExchangeTypeOK, Wait
<1>4. NotifiedOnce' /\ CancelledIsClaimed' /\ ReleasedIsBlank' /\ DeadlineCovers' /\ WaitsAreOfTheirStage'
  BY <1>1 DEF NotifiedOnce, CancelledIsClaimed, ReleasedIsBlank, DeadlineCovers, WaitsAreOfTheirStage, Live
<1>5. \A f \in Exchange : connection[f] # None => connection[f] \in leased
  BY DEF OwnsItsConnection
<1>6. OwnsItsConnection' /\ LiveHoldsConnection'
  BY <1>1, <1>2, <1>5 DEF OwnsItsConnection, LiveHoldsConnection, Live
<1>7. NoLeftovers' /\ StreamsAreVetted'
  BY <1>1, <1>2 DEF NoLeftovers, StreamsAreVetted
<1> QED
  BY <1>3, <1>4, <1>6, <1>7

\* Failure, a 502 or a 504, ends the exchange.
LEMMA FailInv ==
    ASSUME ExchangeInv, LeaseInv', NEW e \in Exchange, stage[e] # "none", Live(e),
           NEW timeout \in BOOLEAN, NEW pending \in OpStates, NEW left \in SUBSET waits[e],
           Fail(e, timeout, pending, left)
    PROVE  /\ ExchangeInv'
           /\ \A f \in Exchange \ {e} : told'[f] = told[f]
           /\ told'[e] \in {<<"timeout">>, <<"stream_timeout">>} => timeout
<1>1. PICK notice \in {IF e \in stream_started
                       THEN IF timeout THEN "stream_timeout" ELSE "stream_failed"
                       ELSE IF timeout THEN "timeout" ELSE "failed",
                       "abort"} : Notify(e, notice)
  BY DEF Fail
<1>2. notice \in Notices
  BY DEF Notices
<1>3. /\ claimed' = claimed \cup {e}
      /\ told' = [told EXCEPT ![e] = Append(@, notice)]
      /\ \A f \in Exchange \ {e} : told'[f] = told[f]
      /\ told'[e] = <<notice>>
  BY <1>1, <1>2, NotifyTells
<1>4. /\ CancelOperations(e, pending, left) /\ cancelled' = cancelled
      /\ deadline_generation' = [deadline_generation EXCEPT ![e] = @ + 1]
  BY DEF Fail
<1>5. ExchangeInv'
  BY <1>2, <1>3, <1>4, CancelInv
<1>6. ~timeout => notice \in {"stream_failed", "failed", "abort"}
  BY <1>1
<1> QED
  BY <1>3, <1>5, <1>6

\* An exchange that ends with a notice of its own: an exception, a failed
\* downstream write, no room in the buffer budget.
LEMMA AbortInv ==
    ASSUME ExchangeInv, LeaseInv', NEW e \in Exchange, stage[e] # "none", Live(e),
           NEW notice \in Notices \ {"timeout", "stream_timeout"}, Notify(e, notice),
           CancelOperations(e, "none", waits[e]), cancelled' = cancelled,
           \/ deadline_generation' = deadline_generation
           \/ deadline_generation' = [deadline_generation EXCEPT ![e] = @ + 1]
    PROVE  /\ ExchangeInv'
           /\ \A f \in Exchange \ {e} : told'[f] = told[f]
           /\ told'[e] \notin {<<"timeout">>, <<"stream_timeout">>}
<1>1. /\ claimed' = claimed \cup {e}
      /\ told' = [told EXCEPT ![e] = Append(@, notice)]
      /\ \A f \in Exchange \ {e} : told'[f] = told[f]
      /\ told'[e] = <<notice>>
  BY NotifyTells
<1>2. "none" \in OpStates /\ waits[e] \in SUBSET waits[e] /\ notice \in Notices
  BY DEF OpStates
<1>3. ExchangeInv'
  BY <1>1, <1>2, CancelInv
<1> QED
  BY <1>1, <1>3

Timeouts == {<<"timeout">>, <<"stream_timeout">>}

\* The step tells no session of a timeout.
NoTimeoutTold == \A f \in Exchange : told'[f] # told[f] => told'[f] \notin Timeouts

\* A response that ends tells the session so, or that it was aborted.
LEMMA FinishTells ==
    ASSUME ExchangeInv, NEW e \in Exchange, stage[e] # "none", Live(e),
           NEW notice \in {"response", "finished"}, NEW m, Finish(e, notice, m)
    PROVE  NoTimeoutTold
<1>1. PICK said \in {"response", "finished", "abort"} : Notify(e, said)
  BY DEF Finish
<1>2. said \in Notices
  BY DEF Notices
<1>3. told'[e] = <<said>> /\ \A f \in Exchange \ {e} : told'[f] = told[f]
  BY <1>1, <1>2, NotifyTells
<1>4. <<said>> # <<"timeout">> /\ <<said>> # <<"stream_timeout">>
  BY <1>1
<1> QED
  BY <1>3, <1>4 DEF NoTimeoutTold, Timeouts

\* A completion handler keeps the invariant and reports no timeout.
LEMMA HandlerInv ==
    ASSUME ExchangeInv, LeaseInv', NEW e \in Exchange, ExchangeHandler(e)
    PROVE  ExchangeInv' /\ NoTimeoutTold
<1> DEFINE Goal == ExchangeInv' /\ NoTimeoutTold
<1>0. /\ "none" \in OpStates /\ waits[e] \in SUBSET waits[e]
      /\ {"response", "finished", "abort", "rejected", "downstream_failed"}
            \subseteq Notices \ {"timeout", "stream_timeout"}
  BY DEF OpStates, Notices
<1>1. stage[e] # "none"
  <2>1. op[e] # "none"
    BY DEF ExchangeHandler, LateHandler, OnUpstreamError, HandlerThrows, OnResolve, OnConnect,
           OnHandshake, OnWrite, OnReadHeader, OnReadBody, OnStreamWritten, OnStreamWriteError,
           OnStreamRead, Done, Queued
  <2> QED
    BY <2>1, QueuedIsUnderWay
<1>2. CASE LateHandler(e)
  <2>1. told' = told
    BY <1>2 DEF LateHandler, controlVars
  <2> QED
    BY <1>2, <2>1, QuietStepInv DEF NoTimeoutTold
<1>3. ASSUME Live(e), Fail(e, FALSE, "none", waits[e])
      PROVE  Goal
  BY <1>0, <1>1, <1>3, FailInv DEF NoTimeoutTold, Timeouts
<1>4. ASSUME Live(e), NEW notice \in {"response", "finished"}, NEW m \in SUBSET Flaws,
             Finish(e, notice, m), e \in streaming => m \cap {"interim", "upgrade_field"} = {}
      PROVE  Goal
  BY <1>0, <1>1, <1>4, FinishInv, FinishTells
<1>5. ASSUME Live(e), NEW notice \in {"abort", "rejected", "downstream_failed"}, Notify(e, notice),
             CancelOperations(e, "none", waits[e]), cancelled' = cancelled,
             \/ deadline_generation' = deadline_generation
             \/ deadline_generation' = [deadline_generation EXCEPT ![e] = @ + 1]
      PROVE  Goal
  BY <1>0, <1>1, <1>5, AbortInv DEF NoTimeoutTold, Timeouts
<1>6. ASSUME Live(e), NEW s \in Stages \ {"none", "resolving"}, Starts(e, s), BeginDeadline(e, 2, s),
             SameMessage, SamePool,
             socket' = socket \/ socket' = [socket EXCEPT ![connection[e]] = "open"],
             unsettled' = unsettled \/ unsettled' = unsettled \cup {connection[e]}
      PROVE  Goal
  <2>1. told' = told
    BY <1>6 DEF SameMessage, controlVars
  <2> QED
    BY <1>1, <1>6, <2>1, AdvanceInv DEF NoTimeoutTold
<1>7. ASSUME Live(e), NEW s \in {"reading_body", "stream_header", "stream_read", "stream_body"},
             stage[e] \in {"reading_header", "stream_header", "stream_read", "stream_body"},
             Continues(e, s),
             stream_started' \in SUBSET Exchange, stream_final' \in SUBSET Exchange,
             NEW m \in SUBSET Flaws, reply' = [reply EXCEPT ![e] = m],
             e \in streaming => m \cap {"interim", "upgrade_field"} = {}
      PROVE  Goal
  <2>1. told' = told
    BY <1>7 DEF Continues, controlVars
  <2>2. s \in Stages \ {"none", "resolving"} /\ Deadline(s) = Deadline(stage[e])
    BY <1>7 DEF Stages, Deadline
  <2> QED
    BY <1>1, <1>7, <2>1, <2>2, ContinueInv DEF NoTimeoutTold
<1>8. /\ stream_started \in SUBSET Exchange /\ stream_final \in SUBSET Exchange
      /\ reply[e] \in SUBSET Flaws /\ reply = [reply EXCEPT ![e] = reply[e]]
      /\ e \in streaming => reply[e] \cap {"interim", "upgrade_field"} = {}
  BY DEF ExchangeInv, ExchangeTypeOK, StreamsAreVetted
<1> SUFFICES Goal
  OBVIOUS
<1> HIDE DEF Goal
<1>9. CASE OnUpstreamError(e)
  BY <1>3, <1>9 DEF OnUpstreamError
<1>10. CASE HandlerThrows(e)
  BY <1>5, <1>10 DEF HandlerThrows
<1>11. CASE OnResolve(e)
  <2>1. "connecting" \in Stages \ {"none", "resolving"}
    BY DEF Stages
  <2> QED
    BY <1>6, <1>11, <2>1 DEF OnResolve, Done
<1>12. ASSUME Live(e), WriteRequest(e)
       PROVE  Goal
  <2>1. "writing" \in Stages \ {"none", "resolving"}
    BY DEF Stages
  <2> QED
    BY <1>6, <1>12, <2>1 DEF WriteRequest
<1>13. CASE OnConnect(e)
  <2>1. "handshaking" \in Stages \ {"none", "resolving"}
    BY DEF Stages
  <2> QED
    BY <1>3, <1>6, <1>12, <1>13, <2>1 DEF OnConnect, Done
<1>14. CASE OnHandshake(e)
  BY <1>12, <1>14 DEF OnHandshake, Done
<1>15. CASE OnWrite(e)
  <2>1. "reading_header" \in Stages \ {"none", "resolving"}
    BY DEF Stages
  <2>2. SamePool /\ socket' = socket /\ unsettled' = unsettled
    BY <1>15 DEF OnWrite, SamePool, leaseVars
  <2> QED
    BY <1>6, <1>15, <2>1, <2>2 DEF OnWrite, Done
<1>16. ASSUME NEW m \in Replies, OnReadHeader(e, m)
       PROVE  Goal
  <2>1. Live(e) /\ stage[e] = "reading_header"
    BY <1>16 DEF OnReadHeader, Done
  <2>2. CASE Fail(e, FALSE, "none", waits[e])
    BY <1>3, <2>1, <2>2
  <2>3. CASE RejectBufferBudget(e)
    <3>1. \/ deadline_generation' = deadline_generation
          \/ deadline_generation' = [deadline_generation EXCEPT ![e] = @ + 1]
      BY <2>3 DEF RejectBufferBudget, ExchangeInv, ExchangeTypeOK
    <3> QED
      BY <1>5, <2>1, <2>3, <3>1 DEF RejectBufferBudget
  <2>4. m \in SUBSET Flaws
    BY RepliesAssumption
  <2>5. ASSUME ~Refused(e, m), Finish(e, "response", m)
        PROVE  Goal
    BY <1>4, <2>1, <2>4, <2>5 DEF Refused
  <2>6. ASSUME ~Refused(e, m), Continues(e, "reading_body"), reply' = [reply EXCEPT ![e] = m],
               UNCHANGED <<stream_started, stream_final>>
        PROVE  Goal
    BY <1>7, <1>8, <2>1, <2>4, <2>6 DEF Refused
  <2>7. ASSUME ~Refused(e, m), Continues(e, "stream_header"), reply' = [reply EXCEPT ![e] = m],
               stream_started' = stream_started \cup {e},
               stream_final' \in {stream_final, stream_final \cup {e}}
        PROVE  Goal
    BY <1>7, <1>8, <2>1, <2>4, <2>7 DEF Refused
  <2> QED
    BY <1>16, <2>2, <2>3, <2>5, <2>6, <2>7 DEF OnReadHeader
<1>17. CASE OnReadBody(e)
  BY <1>3, <1>4, <1>8, <1>17 DEF OnReadBody, Done
<1>18. CASE OnStreamWritten(e)
  <2>1. Live(e) /\ stage[e] \in {"stream_header", "stream_body"}
    BY <1>18 DEF OnStreamWritten, Done, Downstream
  <2>2. CASE Finish(e, "finished", reply[e])
    BY <1>4, <1>8, <2>1, <2>2
  <2>3. CASE Continues(e, "stream_read") /\ UNCHANGED <<stream_started, stream_final, reply>>
    BY <1>7, <1>8, <2>1, <2>3
  <2> QED
    BY <1>18, <2>2, <2>3 DEF OnStreamWritten
<1>19. CASE OnStreamWriteError(e)
  BY <1>5, <1>19 DEF OnStreamWriteError
<1>20. CASE OnStreamRead(e)
  <2>1. Live(e) /\ stage[e] = "stream_read"
    BY <1>20 DEF OnStreamRead, Done
  <2>2. CASE Continues(e, "stream_read") /\ UNCHANGED <<stream_started, stream_final, reply>>
    BY <1>7, <1>8, <2>1, <2>2
  <2>3. CASE /\ Continues(e, "stream_body") /\ UNCHANGED <<stream_started, reply>>
             /\ stream_final' \in {stream_final, stream_final \cup {e}}
    BY <1>7, <1>8, <2>1, <2>3
  <2> QED
    BY <1>20, <2>2, <2>3 DEF OnStreamRead
<1> QED
  BY <1>2, <1>9, <1>10, <1>11, <1>13, <1>14, <1>15, <1>16, <1>17, <1>18, <1>19, <1>20
     DEF ExchangeHandler, Goal

\* The handler of a deadline wait: the one that counts is for the stage the
\* exchange is in.
LEMMA DeadlineInv ==
    ASSUME ExchangeInv, LeaseInv', NEW e \in Exchange, NEW w \in waits[e], OnDeadline(e, w)
    PROVE  /\ ExchangeInv'
           /\ \A f \in Exchange : told'[f] # told[f] =>
                 f = e /\ w \in Fired(waits[e]) /\ w.for = Deadline(stage[e])
<1>1. CASE w.generation = deadline_generation[e] /\ Live(e)
  <2>1. stage[e] # "none"
    BY QueuedIsUnderWay
  <2>2. op[e] \in OpStates /\ waits[e] \ {w} \in SUBSET waits[e] /\ TRUE \in BOOLEAN
    BY DEF ExchangeInv, ExchangeTypeOK
  <2>3. Fail(e, TRUE, op[e], waits[e] \ {w})
    BY <1>1 DEF OnDeadline
  <2>4. ExchangeInv' /\ \A f \in Exchange \ {e} : told'[f] = told[f]
    BY <1>1, <2>1, <2>2, <2>3, FailInv
  <2>5. w \in Fired(waits[e]) /\ w.for = Deadline(stage[e])
    BY <1>1 DEF OnDeadline, ExchangeInv, WaitsAreOfTheirStage
  <2> QED
    BY <2>4, <2>5
<1>2. CASE ~ (w.generation = deadline_generation[e] /\ Live(e))
  <2>1. told' = told
    BY <1>2 DEF OnDeadline, controlVars
  <2> QED
    BY <1>2, <2>1, QuietStepInv
<1> QED
  BY <1>1, <1>2

\* Every step keeps the invariant, and a timeout is told only by the handler of
\* a wait for the current stage.
LEMMA ExchangeStepInv ==
    ASSUME ExchangeInv, [ExchangeNext]_proxyVars
    PROVE  /\ ExchangeInv'
           /\ \A e \in Exchange : told'[e] # told[e] /\ told'[e] \in Timeouts =>
                 \E w \in Fired(waits[e]) : w.for = Deadline(stage[e])
<1> DEFINE Own == \A e \in Exchange : told'[e] # told[e] /\ told'[e] \in Timeouts =>
                     \E w \in Fired(waits[e]) : w.for = Deadline(stage[e])
<1>1. LeaseInv'
  BY ExchangeStepIsLeaseStep, LeaseStepInv DEF ExchangeInv
<1>2. ASSUME NEW e \in Exchange, NEW b \in Backend, NEW stream \in StreamModes, Begin(e, b, stream)
      PROVE  ExchangeInv' /\ Own
  <2>1. told' = told
    BY <1>2 DEF Begin, controlVars
  <2>2. stream \in BOOLEAN
    BY StreamModesAssumption
  <2> QED
    BY <1>1, <1>2, <2>1, <2>2, BeginInv
<1>3. ASSUME NEW e \in Exchange, CancelExchange(e)
      PROVE  ExchangeInv' /\ Own
  <2>1. Live(e) /\ stage[e] # "none"
    BY <1>3 DEF CancelExchange, Live, ExchangeInv, NotifiedOnce
  <2>2. op[e] \in OpStates /\ waits[e] \in SUBSET waits[e]
    BY DEF ExchangeInv, ExchangeTypeOK
  <2>3. /\ claimed' = claimed \cup {e} /\ cancelled' = cancelled \cup {e} /\ told' = told
        /\ CancelOperations(e, op[e], waits[e]) /\ deadline_generation' = deadline_generation
    BY <1>3 DEF CancelExchange
  <2> QED
    BY <1>1, <2>1, <2>2, <2>3, CancelInv
<1>4. ASSUME NEW e \in Exchange, ExchangeHandler(e)
      PROVE  ExchangeInv' /\ Own
  BY <1>1, <1>4, HandlerInv DEF NoTimeoutTold
<1>5. ASSUME NEW e \in Exchange, NEW w \in waits[e], OnDeadline(e, w)
      PROVE  ExchangeInv' /\ Own
  BY <1>1, <1>5, DeadlineInv
<1>6. ASSUME NEW e \in Exchange, Release(e)
      PROVE  ExchangeInv' /\ Own
  <2>1. \A f \in Exchange : told'[f] = told[f] \/ told'[f] = <<>>
    BY <1>6 DEF Release, ExchangeInv, ExchangeTypeOK
  <2>2. << >> \notin Timeouts
    BY DEF Timeouts
  <2> QED
    BY <1>1, <1>6, <2>1, <2>2, ReleaseInv
<1>7. ASSUME NEW e \in Exchange, OperationEnds(e) \/ DeadlineExpires(e)
      PROVE  ExchangeInv' /\ Own
  <2>1. told' = told
    BY <1>7 DEF OperationEnds, DeadlineExpires, controlVars
  <2> QED
    BY <1>1, <1>7, <2>1, QuietStepInv
<1>8. ASSUME PoolStep \/ UNCHANGED proxyVars
      PROVE  ExchangeInv' /\ Own
  <2>1. told' = told
    BY <1>8 DEF PoolStep, proxyVars, exchangeVars, controlVars
  <2> QED
    BY <1>1, <1>8, <2>1, PoolStepInv
<1> SUFFICES ExchangeInv' /\ Own
  OBVIOUS
<1> HIDE DEF Own
<1> QED
  BY <1>2, <1>3, <1>4, <1>5, <1>6, <1>7, <1>8 DEF ExchangeNext, DeadlineHandler

\* Nothing is under way at first.
LEMMA ExchangeInitInv ==
    ASSUME ExchangeInit
    PROVE  ExchangeInv
<1>1. LeaseInv
  BY DEF ExchangeInit, LeaseInit, LeaseInv, SocketState
<1>2. waits \in [Exchange -> SUBSET Wait] /\ \A e \in Exchange : waits[e] = {}
  BY DEF ExchangeInit
<1>3. ExchangeTypeOK
  <2>1. << >> \in Seq(Notices)
    OBVIOUS
  <2> QED
    BY <1>2, <2>1 DEF ExchangeInit, ExchangeTypeOK, Stages, OpStates
<1>4. \A e \in Exchange : stage[e] = "none" /\ connection[e] = None /\ op[e] = "none" /\ Len(told[e]) = 0
  BY DEF ExchangeInit
<1>5. NotifiedOnce /\ DeadlineCovers /\ OwnsItsConnection /\ NoLeftovers
  <2>1. leased = {} /\ idle = {} /\ claimed = {} /\ completion_observed = {}
    BY DEF ExchangeInit, LeaseInit
  <2>2. {connection[e] : e \in Exchange} \ {None} = {}
    BY <1>4
  <2> QED
    BY <1>4, <2>1, <2>2 DEF NotifiedOnce, DeadlineCovers, OwnsItsConnection, NoLeftovers
<1>6. /\ ReleasedIsBlank /\ CancelledIsClaimed /\ LiveHoldsConnection /\ WaitsAreOfTheirStage
      /\ StreamsAreVetted
  BY <1>2, <1>4 DEF ExchangeInit, ReleasedIsBlank, CancelledIsClaimed, LiveHoldsConnection,
                    WaitsAreOfTheirStage, StreamsAreVetted
<1> QED
  BY <1>1, <1>2, <1>3, <1>5, <1>6 DEF ExchangeInv

----------------------------------------------------------------------------
(* The theorems.                                                           *)

\* The inductive invariant holds of every behaviour of the exchanges.
THEOREM ExchangeInvariance == ExchangeSafety => []ExchangeInv
<1>1. ExchangeInit => ExchangeInv
  BY ExchangeInitInv
<1>2. ExchangeInv /\ [ExchangeNext]_proxyVars => ExchangeInv'
  BY ExchangeStepInv
<1> QED
  BY <1>1, <1>2, PTL DEF ExchangeSafety

\* However completion, failure, deadline, exception and cancel() race, claim()
\* lets exactly one of them speak to the session, and none after a cancel().
THEOREM NotifiedOnceTheorem == ExchangeSpec => []NotifiedOnce
<1>1. ExchangeInv => NotifiedOnce
  BY DEF ExchangeInv
<1> QED
  BY <1>1, ExchangeInvariance, PTL DEF ExchangeSpec

\* No stage of a live exchange waits for the network without a deadline of the
\* current generation that is its own.
THEOREM DeadlineTheorem == ExchangeSpec => []DeadlineCovers
<1>1. ExchangeInv => DeadlineCovers
  BY DEF ExchangeInv
<1> QED
  BY <1>1, ExchangeInvariance, PTL DEF ExchangeSpec

\* Two exchanges never hold one connection, an exchange never holds a cached
\* one, and close_upstream() has closed the socket of an exchange that is over.
THEOREM OwnConnectionTheorem == ExchangeSafety => []OwnsItsConnection
<1>1. ExchangeInv => OwnsItsConnection
  BY DEF ExchangeInv
<1> QED
  BY <1>1, ExchangeInvariance, PTL

\* A connection that is in the middle of a request, or whose response left
\* something behind, is never put back into the pool: what on_read_header and
\* start_stream let through and what finish_response and finish_stream test
\* together exclude every flaw.
THEOREM NoLeftoversTheorem == ExchangeSpec => []NoLeftovers
<1>1. ExchangeInv => NoLeftovers
  BY DEF ExchangeInv
<1> QED
  BY <1>1, ExchangeInvariance, PTL DEF ExchangeSpec

\* A timeout reaches the session only from the deadline of the stage that the
\* exchange is in: a stale handler is told apart by its generation.
THEOREM TimeoutTheorem == ExchangeSpec => TimeoutIsOwn
<1>1. ASSUME ExchangeInv, [ExchangeNext]_proxyVars
      PROVE  [\A e \in Exchange :
                told'[e] # told[e] /\ told'[e] \in {<<"timeout">>, <<"stream_timeout">>} =>
                    \E w \in Fired(waits[e]) : w.for = Deadline(stage[e])]_proxyVars
  BY <1>1, ExchangeStepInv DEF Timeouts
<1> QED
  BY <1>1, ExchangeInvariance, PTL DEF ExchangeSpec, ExchangeSafety, TimeoutIsOwn

\* Everything the exchanges do to the pool is what ConnectionLeases allows.
THEOREM ExchangesKeepLeases == ExchangeSafety => LeaseSpec
<1>1. ExchangeInit => LeaseInit
  BY DEF ExchangeInit
<1>2. ExchangeInv /\ [ExchangeNext]_proxyVars => [LeaseNext]_leaseVars
  BY ExchangeStepIsLeaseStep
<1> QED
  BY <1>1, <1>2, ExchangeInvariance, PTL DEF ExchangeSafety, LeaseSpec
=============================================================================
