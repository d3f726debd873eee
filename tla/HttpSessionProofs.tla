-------------------------- MODULE HttpSessionProofs --------------------------
(***************************************************************************)
(* The sessions and what they share, for every number of sessions and      *)
(* exchanges, with and without TLS, and for all limits: every request is   *)
(* answered at most once, no connection is left without progress but on    *)
(* the one path that is known, and the two counters are exactly what the   *)
(* permits in existence hold.                                              *)
(***************************************************************************)
EXTENDS HttpSession, FiniteSetTheorems, TLAPS

----------------------------------------------------------------------------
(* The inductive invariant.                                                *)

SessionRecords == [phase : SessionPhases, op : SessionOps, draining : BOOLEAN,
                   completed : BOOLEAN, requests_served : Nat, close : BOOLEAN,
                   request : Nat, response : Nat, exchange : Exchange \cup {None},
                   proxy_permit : BOOLEAN, responses : Nat, silent : BOOLEAN]
ExchangeRecords == [state : Running \cup {"free", "held", "over"}, session : Session \cup {None},
                    request : Nat, body : Nat, shares : BOOLEAN]

Live(r) == r.phase \notin {"free", "finished"}

\* What a session's own members say about each other.
RecordOK(r) ==
    /\ r.completed => r.responses = 1
    /\ ~r.completed => r.responses = 0
    /\ r.phase = "free" => r = Fresh
    /\ r.phase = "finished" => r.op # "none"
    /\ r.op \in {"handshake", "read_header", "read_body"} => ~r.completed /\ r.response = 0
    /\ r.op \in {"handshake", "read_header"} => r.request = 0
    /\ r.op \in {"write"} \cup StreamOps => r.completed
    /\ r.silent => r.op = "none"
    /\ r.proxy_permit <=> r.exchange # None

\* A session has an exchange just as long as nothing else drives it on, and what
\* the exchange does tells how far the response has come.
Linked(s, r, ex) ==
    /\ r.exchange # None <=> Live(r) /\ ~r.silent /\ r.op \in {"none"} \cup StreamOps
    /\ r.exchange # None =>
          /\ r.request = 0 /\ r.response = 0
          /\ ex[r.exchange].session = s
          /\ r.op \in StreamOps => ex[r.exchange].state = "stream_writing"
          /\ r.op = "none" /\ ~r.completed => ex[r.exchange].state = "waiting"
          /\ r.op = "none" /\ r.completed => ex[r.exchange].state = "stream_reading"

\* A running exchange is its session's.  A share in the request's permit is held
\* only while the session writes its answer.
ExchangeOK(x, e, se) ==
    /\ e.state = "free" => e = NoExchange
    /\ e.state # "free" => e.session \in Session
    /\ e.state \in Running => se[e.session].exchange = x
    /\ e.shares => /\ e.state = "over"
                   /\ se[e.session].op = "write" /\ se[e.session].request = e.request

\* At most one exchange shares the permit of a session.
OneShare(s, ex) ==
    \A x, y \in Exchange :
        ex[x].shares /\ ex[x].session = s /\ ex[y].shares /\ ex[y].session = s => x = y

SessionInv ==
    /\ SessionTypeOK
    /\ \A s \in Session : RecordOK(session[s]) /\ Linked(s, session[s], exchange) /\ OneShare(s, exchange)
    /\ \A x \in Exchange : ExchangeOK(x, exchange[x], session)

----------------------------------------------------------------------------
(* Records.                                                                *)

\* The types of the members.
LEMMA TypeIs ==
    SessionTypeOK <=> /\ session \in [Session -> SessionRecords]
                      /\ exchange \in [Exchange -> ExchangeRecords]
                      /\ current_bytes \in Nat /\ active_proxies \in Nat
BY DEF SessionTypeOK, SessionRecords, ExchangeRecords

\* A new session.
LEMMA FreshIs ==
    /\ Fresh \in SessionRecords /\ RecordOK(Fresh)
    /\ Fresh.phase = "free" /\ Fresh.op = "none" /\ Fresh.draining = FALSE
    /\ Fresh.completed = FALSE /\ Fresh.requests_served = 0 /\ Fresh.close = FALSE
    /\ Fresh.request = 0 /\ Fresh.response = 0 /\ Fresh.exchange = None
    /\ Fresh.proxy_permit = FALSE /\ Fresh.responses = 0 /\ Fresh.silent = FALSE
<1>1. /\ Fresh.phase = "free" /\ Fresh.op = "none" /\ Fresh.draining = FALSE
      /\ Fresh.completed = FALSE /\ Fresh.requests_served = 0 /\ Fresh.close = FALSE
      /\ Fresh.request = 0 /\ Fresh.response = 0 /\ Fresh.exchange = None
      /\ Fresh.proxy_permit = FALSE /\ Fresh.responses = 0 /\ Fresh.silent = FALSE
  BY DEF Fresh
<1>2. Fresh \in SessionRecords
  BY DEF Fresh, SessionRecords, SessionPhases, SessionOps
<1>3. RecordOK(Fresh)
  BY <1>1 DEF RecordOK, StreamOps
<1> QED
  BY <1>1, <1>2, <1>3

\* An exchange that does not exist.
LEMMA NoExchangeIs ==
    /\ NoExchange \in ExchangeRecords
    /\ NoExchange.state = "free" /\ NoExchange.session = None /\ NoExchange.request = 0
    /\ NoExchange.body = 0 /\ NoExchange.shares = FALSE
BY DEF NoExchange, ExchangeRecords, Running

\* A step of one session and of exchanges that are its own, or new.
LEMMA StepOfSession ==
    ASSUME SessionInv, SessionTypeOK', NEW s \in Session,
           \A t \in Session : t # s => session'[t] = session[t],
           \A x \in Exchange :
              \/ exchange'[x] = exchange[x]
              \/ /\ exchange[x].session = s \/ exchange[x].state = "free"
                 /\ exchange'[x].session = s \/ exchange'[x] = NoExchange,
           RecordOK(session'[s]), Linked(s, session'[s], exchange'), OneShare(s, exchange'),
           \A x \in Exchange : exchange'[x].session = s => ExchangeOK(x, exchange'[x], session')
    PROVE  SessionInv'
<1> DEFINE Own(x) == \/ exchange'[x] = exchange[x]
                     \/ /\ exchange[x].session = s \/ exchange[x].state = "free"
                        /\ exchange'[x].session = s \/ exchange'[x] = NoExchange
<1>0. \A x \in Exchange : Own(x)
  OBVIOUS
<1> HIDE DEF Own
<1>1. ASSUME NEW x \in Exchange
      PROVE  ExchangeOK(x, exchange'[x], session')
  <2>1. CASE exchange'[x].session = s
    BY <2>1
  <2>2. CASE exchange'[x] = NoExchange
    BY <2>2, NoExchangeIs DEF ExchangeOK, Running
  <2>3. CASE exchange'[x].session # s /\ exchange'[x] = exchange[x]
    <3>1. ExchangeOK(x, exchange[x], session)
      BY DEF SessionInv
    <3>2. CASE exchange[x].state = "free"
      BY <2>3, <3>1, <3>2, NoExchangeIs DEF ExchangeOK, Running
    <3>3. CASE exchange[x].state # "free"
      <4>1. exchange[x].session \in Session /\ exchange[x].session # s
        BY <2>3, <3>1, <3>3 DEF ExchangeOK
      <4>2. session'[exchange[x].session] = session[exchange[x].session]
        BY <4>1
      <4> QED
        BY <2>3, <3>1, <4>1, <4>2 DEF ExchangeOK
    <3> QED
      BY <3>2, <3>3
  <2>4. Own(x)
    BY <1>0
  <2> QED
    BY <2>1, <2>2, <2>3, <2>4 DEF Own
<1>2. ASSUME NEW t \in Session, t # s
      PROVE  RecordOK(session'[t]) /\ Linked(t, session'[t], exchange') /\ OneShare(t, exchange')
  <2>1. session'[t] = session[t]
    BY <1>2
  <2>2. RecordOK(session[t]) /\ Linked(t, session[t], exchange) /\ OneShare(t, exchange)
    BY DEF SessionInv
  <2>3. ASSUME NEW x \in Exchange, exchange'[x].shares, exchange'[x].session = t
        PROVE  exchange'[x] = exchange[x]
    BY <1>0, <1>2, <2>3, NoExchangeIs DEF Own
  <2>4. OneShare(t, exchange')
    <3> SUFFICES ASSUME NEW x \in Exchange, NEW y \in Exchange,
                        exchange'[x].shares, exchange'[x].session = t,
                        exchange'[y].shares, exchange'[y].session = t
                 PROVE  x = y
      BY Zenon DEF OneShare
    <3>1. exchange'[x] = exchange[x] /\ exchange'[y] = exchange[y]
      BY <2>3
    <3>2. exchange[x].shares /\ exchange[x].session = t /\ exchange[y].shares /\ exchange[y].session = t
      BY <3>1, Zenon
    <3> QED
      BY <2>2, <3>2, Zenon DEF OneShare
  <2>5. Linked(t, session[t], exchange')
    <3>1. CASE session[t].exchange = None
      BY <2>2, <3>1 DEF Linked
    <3>2. CASE session[t].exchange # None
      <4> DEFINE x == session[t].exchange
      <4>1. x \in Exchange
        BY <3>2, TypeIs DEF SessionInv, SessionRecords
      <4>2. exchange[x].session = t /\ exchange[x].state # "free"
        BY <2>2, <3>2 DEF Linked, RecordOK, Live, StreamOps, SessionInv
      <4>3. exchange'[x] = exchange[x]
        BY <1>0, <1>2, <4>1, <4>2 DEF Own
      <4> QED
        BY <2>2, <4>3 DEF Linked
    <3> QED
      BY <3>1, <3>2
  <2> QED
    BY <2>1, <2>2, <2>4, <2>5
<1> QED
  BY <1>1, <1>2 DEF SessionInv

----------------------------------------------------------------------------
(* Closing a session.                                                      *)

\* What is known of a session that has not finished.
LEMMA SessionIs ==
    ASSUME SessionInv, NEW s \in Session
    PROVE  /\ session \in [Session -> SessionRecords] /\ exchange \in [Exchange -> ExchangeRecords]
           /\ current_bytes \in Nat /\ active_proxies \in Nat
           /\ session[s] \in SessionRecords
           /\ RecordOK(session[s]) /\ Linked(s, session[s], exchange) /\ OneShare(s, exchange)
           /\ \A x \in Exchange : ExchangeOK(x, exchange[x], session)
           /\ \A x \in Exchange : exchange[x] \in ExchangeRecords
BY TypeIs DEF SessionInv

\* The exchange of a session, and no other that refers to it, is running.
LEMMA OwnExchangeIs ==
    ASSUME SessionInv, NEW s \in Session, NEW x \in Exchange
    PROVE  /\ x = session[s].exchange =>
                 exchange[x].session = s /\ exchange[x].state \in Running /\ ~exchange[x].shares
           /\ exchange[x].session = s /\ exchange[x].state \in Running => x = session[s].exchange
<1>1. None \notin Exchange
  BY SessionSetsAssumption
<1>2. Linked(s, session[s], exchange) /\ ExchangeOK(x, exchange[x], session)
  BY SessionIs
<1>3. ASSUME x = session[s].exchange
      PROVE  exchange[x].session = s /\ exchange[x].state \in Running
  BY <1>1, <1>2, <1>3 DEF Linked, Running
<1>4. exchange[x].state \in Running => ~exchange[x].shares
  BY <1>2 DEF ExchangeOK, Running
<1>5. exchange[x].session = s /\ exchange[x].state \in Running => x = session[s].exchange
  BY <1>2 DEF ExchangeOK
<1> QED
  BY <1>3, <1>4, <1>5

\* close_socket and finish
LEMMA CloseSocketInv ==
    ASSUME SessionInv, NEW s \in Session, Unfinished(s), NEW r \in SessionRecords,
           r = session[s] \/ r = [session[s] EXCEPT !.draining = TRUE],
           NEW still \in {"none", r.op}, CloseSocket(s, r, still),
           current_bytes' \in Nat, active_proxies' \in Nat
    PROVE  SessionInv'
<1>1. /\ session \in [Session -> SessionRecords] /\ exchange \in [Exchange -> ExchangeRecords]
      /\ session[s] \in SessionRecords
      /\ RecordOK(session[s]) /\ Linked(s, session[s], exchange) /\ OneShare(s, exchange)
      /\ \A x \in Exchange : ExchangeOK(x, exchange[x], session)
      /\ \A x \in Exchange : exchange[x] \in ExchangeRecords
  BY SessionIs
<1>2. /\ r.phase = session[s].phase /\ r.op = session[s].op /\ r.completed = session[s].completed
      /\ r.request = session[s].request /\ r.response = session[s].response
      /\ r.exchange = session[s].exchange /\ r.proxy_permit = session[s].proxy_permit
      /\ r.responses = session[s].responses /\ r.silent = session[s].silent
  BY <1>1 DEF SessionRecords
<1> DEFINE last == [r EXCEPT !.phase = "finished", !.op = still, !.exchange = None,
                             !.proxy_permit = FALSE]
           after == IF still = "none" THEN Fresh ELSE last
           e(x) == IF x = r.exchange
                   THEN [exchange[x] EXCEPT !.state = IF still \in StreamOps THEN "held" ELSE "over"]
                   ELSE IF still = "none" /\ x \in Shares(s)
                   THEN [exchange[x] EXCEPT !.shares = FALSE] ELSE exchange[x]
<1>3. session' = [session EXCEPT ![s] = after] /\ exchange' = [x \in Exchange |-> e(x)]
  BY DEF CloseSocket
<1>4. still \in SessionOps
  BY DEF SessionRecords, SessionOps
<1>5. /\ last \in SessionRecords /\ last.phase = "finished" /\ last.op = still /\ last.exchange = None
      /\ last.proxy_permit = FALSE /\ last.completed = r.completed /\ last.responses = r.responses
      /\ last.request = r.request /\ last.response = r.response /\ last.silent = r.silent
  BY <1>4 DEF SessionRecords, SessionPhases
<1>6. RecordOK(after) /\ after \in SessionRecords /\ after.exchange = None /\ ~Live(after)
  <2>1. CASE still = "none"
    BY <2>1, FreshIs DEF Live
  <2>2. CASE still # "none"
    <3>1. still = r.op /\ after = last
      BY <2>2
    <3> HIDE DEF last
    <3>2. RecordOK(last)
      BY <1>1, <1>2, <1>5, <2>2, <3>1 DEF RecordOK
    <3> QED
      BY <1>5, <3>1, <3>2 DEF Live
  <2> QED
    BY <2>1, <2>2
<1>7. still # "none" => after.op = r.op /\ after.request = r.request
  BY <1>5
<1> HIDE DEF after, last
<1>8. ASSUME NEW x \in Exchange
      PROVE  /\ e(x) \in ExchangeRecords
             /\ exchange[x].session = s \/ e(x) = exchange[x]
             /\ e(x).session = exchange[x].session /\ e(x).request = exchange[x].request
             /\ e(x).shares => exchange[x].shares
             /\ e(x).state = "free" => e(x) = exchange[x]
             /\ exchange[x].session = s => e(x).state \notin Running
             /\ exchange[x].session = s /\ e(x).shares =>
                   still # "none" /\ e(x).state = exchange[x].state
  <2>1. /\ x = r.exchange => exchange[x].session = s /\ ~exchange[x].shares
        /\ exchange[x].session = s /\ exchange[x].state \in Running => x = r.exchange
    BY <1>2, OwnExchangeIs
  <2>2. CASE x = r.exchange
    <3> DEFINE q == IF still \in StreamOps THEN "held" ELSE "over"
    <3>1. e(x) = [exchange[x] EXCEPT !.state = q]
      BY <2>2
    <3>2. q \in {"held", "over"}
      OBVIOUS
    <3> HIDE DEF q
    <3>3. /\ e(x) \in ExchangeRecords /\ e(x).state = q /\ e(x).session = exchange[x].session
          /\ e(x).request = exchange[x].request /\ e(x).shares = exchange[x].shares
      BY <1>1, <3>1, <3>2, ZenonT(60) DEF ExchangeRecords
    <3> HIDE DEF e
    <3> QED
      BY <2>1, <2>2, <3>2, <3>3 DEF Running
  <2>3. CASE x # r.exchange /\ still = "none" /\ x \in Shares(s)
    <3>1. e(x) = [exchange[x] EXCEPT !.shares = FALSE]
      BY <2>3
    <3>2. /\ e(x) \in ExchangeRecords /\ e(x).state = exchange[x].state /\ e(x).shares = FALSE
          /\ e(x).session = exchange[x].session /\ e(x).request = exchange[x].request
      BY <1>1, <3>1 DEF ExchangeRecords
    <3>3. exchange[x].session = s /\ exchange[x].shares
      BY <2>3 DEF Shares
    <3>4. exchange[x].state = "over"
      BY <1>1, <3>3 DEF ExchangeOK
    <3> HIDE DEF e
    <3> QED
      BY <3>2, <3>3, <3>4 DEF Running
  <2>4. CASE x # r.exchange /\ ~(still = "none" /\ x \in Shares(s))
    <3>1. e(x) = exchange[x]
      BY <2>4
    <3>2. still = "none" => ~(exchange[x].session = s /\ exchange[x].shares)
      BY <2>4 DEF Shares
    <3> HIDE DEF e
    <3> QED
      BY <1>1, <2>1, <2>4, <3>1, <3>2
  <2> QED
    BY <2>2, <2>3, <2>4
<1> HIDE DEF e
<1>9. \A x \in Exchange : exchange'[x] = e(x)
  BY <1>3
<1>10. session'[s] = after /\ \A t \in Session : t # s => session'[t] = session[t]
  BY <1>1, <1>3
<1>11. SessionTypeOK'
  <2>1. session' \in [Session -> SessionRecords] /\ exchange' \in [Exchange -> ExchangeRecords]
    BY <1>1, <1>3, <1>6, <1>8
  <2> QED
    BY <2>1 DEF SessionTypeOK, SessionRecords, ExchangeRecords
<1>12. Linked(s, after, exchange')
  BY <1>6 DEF Linked
<1>13. OneShare(s, exchange')
  <2> SUFFICES ASSUME NEW x \in Exchange, NEW y \in Exchange,
                      exchange'[x].shares, exchange'[x].session = s,
                      exchange'[y].shares, exchange'[y].session = s
               PROVE  x = y
    BY Zenon DEF OneShare
  <2>1. exchange[x].shares /\ exchange[x].session = s /\ exchange[y].shares /\ exchange[y].session = s
    BY <1>8, <1>9
  <2> QED
    BY <1>1, <2>1, Zenon DEF OneShare
<1>14. ASSUME NEW x \in Exchange, exchange'[x].session = s
       PROVE  ExchangeOK(x, exchange'[x], session')
  <2>1. exchange[x].session = s /\ e(x).session = s /\ e(x).state \notin Running
    BY <1>8, <1>9, <1>14
  <2>2. e(x).state = "free" => e(x) = NoExchange
    BY <1>1, <1>8 DEF ExchangeOK
  <2>3. ASSUME e(x).shares
        PROVE  e(x).state = "over" /\ after.op = "write" /\ after.request = e(x).request
    <3>1. still # "none" /\ exchange[x].shares /\ e(x).state = exchange[x].state /\ e(x).request = exchange[x].request
      BY <1>8, <2>1, <2>3
    <3>2. exchange[x].state = "over" /\ session[s].op = "write" /\ session[s].request = exchange[x].request
      BY <1>1, <2>1, <3>1 DEF ExchangeOK
    <3> QED
      BY <1>2, <1>7, <3>1, <3>2
  <2> QED
    BY <1>9, <1>10, <2>1, <2>2, <2>3 DEF ExchangeOK
<1>15. \A x \in Exchange :
         \/ exchange'[x] = exchange[x]
         \/ /\ exchange[x].session = s \/ exchange[x].state = "free"
            /\ exchange'[x].session = s \/ exchange'[x] = NoExchange
  BY <1>8, <1>9
<1> QED
  BY <1>6, <1>10, <1>11, <1>12, <1>13, <1>14, <1>15, StepOfSession

----------------------------------------------------------------------------
(* The methods of a session.                                               *)

\* The two counters stay natural numbers.
LEMMA CountersAreNat ==
    /\ \A c, b \in Nat : Returned(c, b) \in Nat
    /\ active_proxies \in Nat => ProxyReleased(active_proxies) \in Nat
BY DEF Returned, ProxyReleased

\* write_response of a request that is not answered.
LEMMA WriteResponseIs ==
    ASSUME NEW r \in SessionRecords, ~r.completed, r.responses = 0, NEW close \in BOOLEAN
    PROVE  LET w == WriteResponse(r, close) IN
           /\ w \in SessionRecords /\ w.phase = "writing" /\ w.op = "write"
           /\ w.completed = TRUE /\ w.responses = 1
           /\ w.draining = r.draining /\ w.requests_served = r.requests_served
           /\ w.request = r.request /\ w.response = r.response /\ w.exchange = r.exchange
           /\ w.proxy_permit = r.proxy_permit /\ w.silent = r.silent
<1> DEFINE cl == close \/ r.draining
           o == [r EXCEPT !.completed = TRUE, !.responses = @ + 1]
           w == [o EXCEPT !.phase = "writing", !.close = cl, !.op = "write"]
<1>1. cl \in BOOLEAN
  BY Zenon
<1>2. WriteResponse(r, close) = w
  BY DEF WriteResponse, Observe
<1>4. o = [r EXCEPT !.completed = TRUE, !.responses = 1]
  <2>1. r.responses + 1 = 1
    OBVIOUS
  <2> QED
    BY <2>1, Zenon
<1> HIDE DEF cl, o
<1>5. /\ o \in SessionRecords /\ o.completed = TRUE /\ o.responses = 1
      /\ o.draining = r.draining /\ o.requests_served = r.requests_served
      /\ o.request = r.request /\ o.response = r.response /\ o.exchange = r.exchange
      /\ o.proxy_permit = r.proxy_permit /\ o.silent = r.silent
  BY <1>4 DEF SessionRecords
<1>3. /\ w \in SessionRecords /\ w.phase = "writing" /\ w.op = "write"
      /\ w.completed = TRUE /\ w.responses = 1
      /\ w.draining = r.draining /\ w.requests_served = r.requests_served
      /\ w.request = r.request /\ w.response = r.response /\ w.exchange = r.exchange
      /\ w.proxy_permit = r.proxy_permit /\ w.silent = r.silent
  BY <1>1, <1>5 DEF SessionRecords, SessionPhases, SessionOps
<1> QED
  BY <1>2, <1>3, Zenon

\* write_stream_header of a request that is not answered.
LEMMA WriteStreamHeaderIs ==
    ASSUME NEW r \in SessionRecords, ~r.completed, r.responses = 0, NEW close \in BOOLEAN
    PROVE  LET w == WriteStreamHeader(r, close) IN
           /\ w \in SessionRecords /\ w.phase = "writing" /\ w.op = "stream_header"
           /\ w.completed = TRUE /\ w.responses = 1
           /\ w.draining = r.draining /\ w.requests_served = r.requests_served
           /\ w.request = r.request /\ w.response = r.response /\ w.exchange = r.exchange
           /\ w.proxy_permit = r.proxy_permit /\ w.silent = r.silent
<1> DEFINE cl == close \/ r.draining
           o == [r EXCEPT !.completed = TRUE, !.responses = @ + 1]
           w == [o EXCEPT !.phase = "writing", !.close = cl, !.op = "stream_header"]
<1>1. cl \in BOOLEAN
  BY Zenon
<1>2. WriteStreamHeader(r, close) = w
  BY DEF WriteStreamHeader, Observe
<1>4. o = [r EXCEPT !.completed = TRUE, !.responses = 1]
  <2>1. r.responses + 1 = 1
    OBVIOUS
  <2> QED
    BY <2>1, Zenon
<1> HIDE DEF cl, o
<1>5. /\ o \in SessionRecords /\ o.completed = TRUE /\ o.responses = 1
      /\ o.draining = r.draining /\ o.requests_served = r.requests_served
      /\ o.request = r.request /\ o.response = r.response /\ o.exchange = r.exchange
      /\ o.proxy_permit = r.proxy_permit /\ o.silent = r.silent
  BY <1>4 DEF SessionRecords
<1>3. /\ w \in SessionRecords /\ w.phase = "writing" /\ w.op = "stream_header"
      /\ w.completed = TRUE /\ w.responses = 1
      /\ w.draining = r.draining /\ w.requests_served = r.requests_served
      /\ w.request = r.request /\ w.response = r.response /\ w.exchange = r.exchange
      /\ w.proxy_permit = r.proxy_permit /\ w.silent = r.silent
  BY <1>1, <1>5 DEF SessionRecords, SessionPhases, SessionOps, StreamOps
<1> QED
  BY <1>2, <1>3, Zenon

\* read_request
LEMMA ReadRequestIs ==
    ASSUME NEW r \in SessionRecords
    PROVE  LET w == ReadRequest(r) IN
           /\ w \in SessionRecords /\ w.phase = "reading" /\ w.op = "read_header"
           /\ w.completed = FALSE /\ w.responses = 0
           /\ w.request = r.request /\ w.response = r.response /\ w.exchange = r.exchange
           /\ w.proxy_permit = r.proxy_permit /\ w.silent = r.silent
BY DEF ReadRequest, SessionRecords, SessionPhases, SessionOps

\* graceful_close
LEMMA ClosingIs ==
    ASSUME NEW r \in SessionRecords
    PROVE  LET w == Closing(r) IN
           /\ w \in SessionRecords /\ w.phase = "closing" /\ w.op = "shutdown"
           /\ w.completed = r.completed /\ w.responses = r.responses
           /\ w.request = r.request /\ w.response = r.response /\ w.exchange = r.exchange
           /\ w.proxy_permit = r.proxy_permit /\ w.silent = r.silent
BY DEF Closing, SessionRecords, SessionPhases, SessionOps

\* A session that waits for the client: it has no exchange and has said nothing.
LEMMA ReadingIs ==
    ASSUME SessionInv, NEW s \in Session,
           session[s].op \in {"handshake", "read_header", "read_body"}
    PROVE  /\ session[s].completed = FALSE /\ session[s].responses = 0 /\ session[s].response = 0
           /\ session[s].exchange = None /\ session[s].proxy_permit = FALSE
           /\ session[s].silent = FALSE
           /\ session[s].op \in {"handshake", "read_header"} => session[s].request = 0
<1>1. session[s] \in SessionRecords /\ RecordOK(session[s]) /\ Linked(s, session[s], exchange)
  BY SessionIs
<1>2. /\ ~session[s].completed /\ session[s].responses = 0 /\ session[s].response = 0
      /\ ~session[s].silent
      /\ session[s].op \in {"handshake", "read_header"} => session[s].request = 0
  BY <1>1 DEF RecordOK
<1>3. session[s].exchange = None
  BY <1>1 DEF Linked, StreamOps
<1>4. ~session[s].proxy_permit
  BY <1>1, <1>3 DEF RecordOK
<1> QED
  BY <1>1, <1>2, <1>3, <1>4 DEF SessionRecords

\* A session without an exchange goes on to something other than one.
LEMMA AloneInv ==
    ASSUME SessionInv, NEW s \in Session, session[s].exchange = None, session[s].op # "write",
           NEW r \in SessionRecords, session' = [session EXCEPT ![s] = r], UNCHANGED exchange,
           current_bytes' \in Nat, active_proxies' \in Nat,
           RecordOK(r), r.exchange = None,
           r.silent \/ r.op \notin {"none"} \cup StreamOps
    PROVE  SessionInv'
<1>1. /\ session \in [Session -> SessionRecords] /\ exchange \in [Exchange -> ExchangeRecords]
      /\ OneShare(s, exchange)
      /\ \A x \in Exchange : ExchangeOK(x, exchange[x], session)
  BY SessionIs
<1>2. session'[s] = r /\ \A t \in Session : t # s => session'[t] = session[t]
  BY <1>1
<1>3. SessionTypeOK'
  <2>1. session' \in [Session -> SessionRecords] /\ exchange' \in [Exchange -> ExchangeRecords]
    BY <1>1
  <2> QED
    BY <2>1 DEF SessionTypeOK, SessionRecords, ExchangeRecords
<1>4. Linked(s, session'[s], exchange') /\ OneShare(s, exchange')
  <2>1. Linked(s, r, exchange)
    BY DEF Linked
  <2>2. exchange' = exchange
    OBVIOUS
  <2> QED
    BY <1>1, <1>2, <2>1, <2>2
<1>5. ASSUME NEW x \in Exchange, exchange'[x].session = s
      PROVE  ExchangeOK(x, exchange'[x], session')
  <2>1. exchange'[x] = exchange[x] /\ ExchangeOK(x, exchange[x], session)
    BY <1>1
  <2>2. None \notin Exchange
    BY SessionSetsAssumption
  <2>3. exchange[x].state \notin Running /\ ~exchange[x].shares
    BY <1>5, <2>1, <2>2 DEF ExchangeOK
  <2> QED
    BY <2>1, <2>3 DEF ExchangeOK
<1>6. \A x \in Exchange : exchange'[x] = exchange[x]
  OBVIOUS
<1> QED
  BY <1>2, <1>3, <1>4, <1>5, <1>6, StepOfSession

\* Nothing refers to a session that has no exchange and does not write, but what
\* is over.
LEMMA NoSharesYet ==
    ASSUME SessionInv, NEW s \in Session, session[s].exchange = None, session[s].op # "write",
           NEW x \in Exchange, exchange[x].session = s
    PROVE  exchange[x].state \notin Running /\ ~exchange[x].shares
<1>1. ExchangeOK(x, exchange[x], session) /\ None \notin Exchange
  BY SessionIs, SessionSetsAssumption
<1> QED
  BY <1>1 DEF ExchangeOK

\* A session without an exchange gets one, running or over.
LEMMA NewExchangeInv ==
    ASSUME SessionInv, NEW s \in Session, session[s].exchange = None, session[s].op # "write",
           NEW r \in SessionRecords, session' = [session EXCEPT ![s] = r],
           NEW x \in Exchange, NEW e \in ExchangeRecords, exchange[x].state = "free",
           exchange' = [exchange EXCEPT ![x] = e], e.session = s,
           current_bytes' \in Nat, active_proxies' \in Nat,
           RecordOK(r), Linked(s, r, exchange'), ExchangeOK(x, e, session')
    PROVE  SessionInv'
<1>1. /\ session \in [Session -> SessionRecords] /\ exchange \in [Exchange -> ExchangeRecords]
  BY SessionIs
<1>2. session'[s] = r /\ \A t \in Session : t # s => session'[t] = session[t]
  BY <1>1
<1>3. exchange'[x] = e /\ \A y \in Exchange : y # x => exchange'[y] = exchange[y]
  BY <1>1
<1>4. SessionTypeOK'
  <2>1. session' \in [Session -> SessionRecords] /\ exchange' \in [Exchange -> ExchangeRecords]
    BY <1>1
  <2> QED
    BY <2>1 DEF SessionTypeOK, SessionRecords, ExchangeRecords
<1>5. ASSUME NEW y \in Exchange, y # x, exchange'[y].session = s
      PROVE  exchange'[y] = exchange[y] /\ exchange[y].state \notin Running /\ ~exchange[y].shares
  BY <1>3, <1>5, NoSharesYet
<1>6. OneShare(s, exchange')
  <2> SUFFICES ASSUME NEW y \in Exchange, NEW z \in Exchange,
                      exchange'[y].shares, exchange'[y].session = s,
                      exchange'[z].shares, exchange'[z].session = s
               PROVE  y = z
    BY Zenon DEF OneShare
  <2> QED
    BY <1>5
<1>7. ASSUME NEW y \in Exchange, exchange'[y].session = s
      PROVE  ExchangeOK(y, exchange'[y], session')
  <2>1. CASE y = x
    BY <1>3, <2>1
  <2>2. CASE y # x
    <3>1. exchange'[y] = exchange[y] /\ exchange[y].state \notin Running /\ ~exchange[y].shares
      BY <1>5, <1>7, <2>2
    <3>2. ExchangeOK(y, exchange[y], session)
      BY SessionIs
    <3> QED
      BY <3>1, <3>2 DEF ExchangeOK
  <2> QED
    BY <2>1, <2>2
<1>8. \A y \in Exchange :
         \/ exchange'[y] = exchange[y]
         \/ /\ exchange[y].session = s \/ exchange[y].state = "free"
            /\ exchange'[y].session = s \/ exchange'[y] = NoExchange
  BY <1>3
<1> QED
  <2>1. RecordOK(session'[s]) /\ Linked(s, session'[s], exchange')
    BY <1>2
  <2>2. \A y \in Exchange : exchange'[y].session = s => ExchangeOK(y, exchange'[y], session')
    BY <1>7
  <2> HIDE DEF RecordOK, Linked, OneShare
  <2> QED
    BY <1>2, <1>4, <1>6, <1>8, <2>1, <2>2, StepOfSession

\* process_request and start_proxy_request
LEMMA ProcessRequestInv ==
    ASSUME SessionInv, NEW s \in Session, session[s].op \in {"read_header", "read_body"}, Unfinished(s),
           NEW bytes \in Nat, NEW r, r = [session[s] EXCEPT !.request = bytes],
           NEW current \in Nat, ProcessRequest(s, r, current)
    PROVE  SessionInv'
<1>1. session[s] \in SessionRecords /\ RecordOK(session[s]) /\ active_proxies \in Nat
  BY SessionIs
<1>2. /\ session[s].completed = FALSE /\ session[s].responses = 0 /\ session[s].response = 0
      /\ session[s].exchange = None /\ session[s].proxy_permit = FALSE
      /\ session[s].silent = FALSE
  BY ReadingIs
<1>3. session[s].op # "write"
  OBVIOUS
<1> DEFINE n == [r EXCEPT !.requests_served = @ + 1, !.op = "none"]
<1>4. \/ StartExchange(s, n, current) \/ StartExchangeThrows(s, n, current)
      \/ Answer(s, n, current) \/ AnswerThrows(s, n, current)
  BY DEF ProcessRequest
<1>5. /\ r \in SessionRecords /\ r.completed = FALSE /\ r.responses = 0 /\ r.response = 0
      /\ r.exchange = None /\ r.proxy_permit = FALSE /\ r.silent = FALSE /\ r.phase = session[s].phase
  BY <1>1, <1>2 DEF SessionRecords
<1>6. /\ n \in SessionRecords /\ n.completed = FALSE /\ n.responses = 0 /\ n.response = 0
      /\ n.exchange = None /\ n.proxy_permit = FALSE /\ n.silent = FALSE /\ n.op = "none"
      /\ n.phase = session[s].phase
  <2> DEFINE k == r.requests_served + 1
  <2>1. n = [r EXCEPT !.requests_served = k, !.op = "none"]
    OBVIOUS
  <2>2. k \in Nat
    BY <1>5 DEF SessionRecords
  <2> HIDE DEF k, n
  <2> QED
    BY <1>5, <2>1, <2>2 DEF SessionRecords, SessionOps
<1> HIDE DEF n
<1>7. ASSUME NEW close \in BOOLEAN
      PROVE  LET w == WriteResponse(n, close) IN
             /\ w \in SessionRecords /\ RecordOK(w) /\ w.exchange = None
             /\ w.op = "write" /\ w.phase = "writing" /\ w.completed = TRUE
             /\ w.request = n.request /\ w.responses = 1 /\ w.proxy_permit = FALSE
             /\ w.response = 0 /\ w.silent = FALSE
  <2> DEFINE w == WriteResponse(n, close)
  <2>1. /\ w \in SessionRecords /\ w.phase = "writing" /\ w.op = "write"
        /\ w.completed = TRUE /\ w.responses = 1
        /\ w.request = n.request /\ w.response = n.response /\ w.exchange = n.exchange
        /\ w.proxy_permit = n.proxy_permit /\ w.silent = n.silent
    BY <1>6, WriteResponseIs
  <2> HIDE DEF w
  <2>2. RecordOK(w)
    BY <1>6, <2>1 DEF RecordOK
  <2> QED
    BY <1>6, <2>1, <2>2 DEF w
<1>8. CASE StartExchange(s, n, current)
  <2>1. PICK x \in Exchange :
          /\ exchange[x].state = "free"
          /\ exchange' = [exchange EXCEPT ![x] = [NoExchange EXCEPT
                            !.state = "waiting", !.session = s, !.request = n.request]]
          /\ session' = [session EXCEPT ![s] = [n EXCEPT !.phase = "proxying",
                            !.request = 0, !.exchange = x, !.proxy_permit = TRUE]]
    BY <1>8 DEF StartExchange
  <2>2. current_bytes' \in Nat /\ active_proxies' \in Nat
    BY <1>1, <1>8 DEF StartExchange
  <2> DEFINE e == [NoExchange EXCEPT !.state = "waiting", !.session = s, !.request = n.request]
             p == [n EXCEPT !.phase = "proxying", !.request = 0, !.exchange = x, !.proxy_permit = TRUE]
  <2>3. n.request \in Nat
    BY <1>6 DEF SessionRecords
  <2>4. e \in ExchangeRecords /\ e.state = "waiting" /\ e.session = s /\ e.shares = FALSE
    BY <2>3, NoExchangeIs DEF ExchangeRecords, Running
  <2>5. /\ p \in SessionRecords /\ p.phase = "proxying" /\ p.op = "none" /\ p.request = 0 /\ p.response = 0
        /\ p.exchange = x /\ p.proxy_permit = TRUE /\ p.completed = FALSE /\ p.responses = 0
        /\ p.silent = FALSE
    BY <1>6 DEF SessionRecords, SessionPhases
  <2> HIDE DEF e, p
  <2>6. session' = [session EXCEPT ![s] = p] /\ exchange' = [exchange EXCEPT ![x] = e]
    BY <2>1 DEF e, p
  <2>7. exchange'[x] = e /\ session'[s] = p
    BY <2>6, SessionIs
  <2>8. x # None
    BY SessionSetsAssumption
  <2>9. RecordOK(p)
    BY <2>5, <2>8 DEF RecordOK, StreamOps
  <2>10. Linked(s, p, exchange')
    BY <2>4, <2>5, <2>7, <2>8 DEF Linked, Live, StreamOps
  <2>11. ExchangeOK(x, e, session')
    BY <2>4, <2>5, <2>7 DEF ExchangeOK
  <2> QED
    BY <1>2, <1>3, <2>1, <2>2, <2>4, <2>5, <2>6, <2>9, <2>10, <2>11, NewExchangeInv
<1>9. CASE StartExchangeThrows(s, n, current)
  <2>1. PICK outcome \in {WriteResponse(n, FALSE), WriteResponse(n, TRUE), Fresh} :
          /\ session' = [session EXCEPT ![s] = outcome]
          /\ current_bytes' = current
          /\ UNCHANGED active_proxies
          /\ \/ outcome # Fresh /\ UNCHANGED exchange
             \/ \E x \in Exchange :
                   /\ exchange[x].state = "free"
                   /\ exchange' = [exchange EXCEPT ![x] = [NoExchange EXCEPT
                                     !.state = "over", !.session = s, !.request = n.request,
                                     !.shares = outcome # Fresh]]
    <3>1. PICK outcome \in {WriteResponse(n, FALSE), WriteResponse(n, TRUE), Fresh},
               taken \in {FALSE, active_proxies < max_proxies} :
            /\ session' = [session EXCEPT ![s] = outcome]
            /\ current_bytes' = current
            /\ active_proxies' = IF taken THEN ProxyReleased(active_proxies + 1) ELSE active_proxies
            /\ \/ outcome # Fresh /\ UNCHANGED exchange
               \/ \E x \in Exchange :
                     /\ exchange[x].state = "free"
                     /\ exchange' = [exchange EXCEPT ![x] = [NoExchange EXCEPT
                                       !.state = "over", !.session = s, !.request = n.request,
                                       !.shares = outcome # Fresh]]
      BY <1>9, Zenon DEF StartExchangeThrows
    <3>2. active_proxies \in Nat
      BY SessionIs
    <3>3. ProxyReleased(active_proxies + 1) = active_proxies
      BY <3>2 DEF ProxyReleased
    <3>4. active_proxies' = active_proxies
      BY <3>1, <3>3, Zenon
    <3> QED
      BY <3>1, <3>4, Zenon
  <2>2. current_bytes' \in Nat /\ active_proxies' \in Nat
    BY <1>1, <2>1
  <2>3. /\ outcome \in SessionRecords /\ RecordOK(outcome) /\ outcome.exchange = None
        /\ outcome # Fresh =>
              outcome.op = "write" /\ outcome.phase = "writing" /\ outcome.request = n.request
        /\ outcome = Fresh => outcome.phase = "free"
    <3>1. CASE outcome = Fresh
      BY <3>1, FreshIs
    <3>2. CASE outcome \in {WriteResponse(n, FALSE), WriteResponse(n, TRUE)}
      <4>1. PICK close \in BOOLEAN : outcome = WriteResponse(n, close)
        BY <3>2
      <4>2. /\ outcome \in SessionRecords /\ RecordOK(outcome) /\ outcome.exchange = None
            /\ outcome.op = "write" /\ outcome.phase = "writing" /\ outcome.request = n.request
        BY <1>7, <4>1
      <4> QED
        BY <4>2, FreshIs
    <3> QED
      BY <2>1, <3>1, <3>2
  <2>4. CASE outcome # Fresh /\ UNCHANGED exchange
    BY <1>2, <1>3, <2>1, <2>2, <2>3, <2>4, AloneInv DEF StreamOps
  <2>5. CASE ~(outcome # Fresh /\ UNCHANGED exchange)
    <3> DEFINE sh == outcome # Fresh
               e == [NoExchange EXCEPT !.state = "over", !.session = s, !.request = n.request,
                                       !.shares = sh]
    <3>1. PICK x \in Exchange : exchange[x].state = "free" /\ exchange' = [exchange EXCEPT ![x] = e]
      BY <2>1, <2>5
    <3>2. n.request \in Nat
      BY <1>6 DEF SessionRecords
    <3>3. sh \in BOOLEAN /\ (sh <=> outcome # Fresh)
      BY Zenon
    <3> HIDE DEF sh
    <3>4. /\ e \in ExchangeRecords /\ e.state = "over" /\ e.session = s /\ e.shares = sh
          /\ e.request = n.request
      BY <3>2, <3>3, NoExchangeIs DEF ExchangeRecords
    <3> HIDE DEF e
    <3>5. session'[s] = outcome
      BY <2>1, SessionIs
    <3>6. Linked(s, outcome, exchange')
      BY <2>3 DEF Linked, Live, StreamOps
    <3>7. ExchangeOK(x, e, session')
      BY <2>3, <3>3, <3>4, <3>5 DEF ExchangeOK, Running
    <3> QED
      BY <1>2, <1>3, <2>1, <2>2, <2>3, <3>1, <3>4, <3>6, <3>7, NewExchangeInv
  <2> QED
    BY <2>4, <2>5
<1>10. CASE Answer(s, n, current)
  <2>1. PICK close \in BOOLEAN : Becomes(s, WriteResponse(n, close \/ LastRequest(n)), current)
    BY <1>10 DEF Answer
  <2> DEFINE c == close \/ LastRequest(n)
             w == WriteResponse(n, c)
  <2>2. c \in BOOLEAN
    BY Zenon
  <2> HIDE DEF c
  <2>3. w \in SessionRecords /\ RecordOK(w) /\ w.exchange = None /\ w.op = "write"
    BY <1>7, <2>2
  <2>4. Becomes(s, w, current)
    BY <2>1 DEF c
  <2> HIDE DEF w
  <2>5. session' = [session EXCEPT ![s] = w] /\ UNCHANGED exchange /\ current_bytes' \in Nat /\ active_proxies' \in Nat
    BY <1>1, <2>4 DEF Becomes
  <2> QED
    BY <1>2, <1>3, <2>3, <2>5, AloneInv DEF StreamOps
<1>11. CASE AnswerThrows(s, n, current)
  <2> DEFINE w == WriteResponse(n, FALSE)
             v == [w EXCEPT !.op = "none"]
             u == [v EXCEPT !.silent = TRUE]
  <2>1. /\ w \in SessionRecords /\ w.exchange = None /\ w.phase = "writing" /\ w.completed = TRUE
        /\ w.responses = 1 /\ w.proxy_permit = FALSE
    BY <1>7
  <2> HIDE DEF w
  <2>2. v \in SessionRecords /\ v.completed = TRUE
    BY <2>1 DEF SessionRecords, SessionOps
  <2>3. WriteResponse(v, FALSE) = u
    BY <2>2 DEF WriteResponse
  <2>4. /\ u \in SessionRecords /\ u.exchange = None /\ u.phase = "writing" /\ u.completed = TRUE
        /\ u.responses = 1 /\ u.proxy_permit = FALSE /\ u.op = "none" /\ u.silent = TRUE
    BY <2>1 DEF SessionRecords, SessionOps
  <2>5. Becomes(s, u, current)
    BY <1>11, <2>3 DEF AnswerThrows, w
  <2> HIDE DEF u, v
  <2>6. session' = [session EXCEPT ![s] = u] /\ UNCHANGED exchange /\ current_bytes' \in Nat /\ active_proxies' \in Nat
    BY <1>1, <2>5 DEF Becomes
  <2>7. RecordOK(u)
    BY <2>4 DEF RecordOK, StreamOps
  <2> QED
    BY <1>2, <1>3, <2>4, <2>6, <2>7, AloneInv
<1> QED
  BY <1>4, <1>8, <1>9, <1>10, <1>11

\* An exchange goes on, ends or is destroyed, and its session with it.
LEMMA ExchangeStepInv ==
    ASSUME SessionInv, NEW s \in Session, NEW x \in Exchange, exchange[x].session = s,
           NEW e \in ExchangeRecords, exchange' = [exchange EXCEPT ![x] = e],
           e.session = s \/ e = NoExchange, e.shares => exchange[x].shares,
           NEW r \in SessionRecords, session' = [session EXCEPT ![s] = r],
           current_bytes' \in Nat, active_proxies' \in Nat,
           RecordOK(r), Linked(s, r, exchange'), ExchangeOK(x, e, session'),
           r.exchange = session[s].exchange \/ session[s].exchange = x,
           session[s].op # "write" \/ (r.op = session[s].op /\ r.request = session[s].request)
    PROVE  SessionInv'
<1>1. /\ session \in [Session -> SessionRecords] /\ exchange \in [Exchange -> ExchangeRecords]
      /\ OneShare(s, exchange) /\ \A y \in Exchange : ExchangeOK(y, exchange[y], session)
  BY SessionIs
<1>2. session'[s] = r /\ \A t \in Session : t # s => session'[t] = session[t]
  BY <1>1
<1>3. exchange'[x] = e /\ \A y \in Exchange : y # x => exchange'[y] = exchange[y]
  BY <1>1
<1>4. SessionTypeOK'
  <2>1. session' \in [Session -> SessionRecords] /\ exchange' \in [Exchange -> ExchangeRecords]
    BY <1>1
  <2> QED
    BY <2>1 DEF SessionTypeOK, SessionRecords, ExchangeRecords
<1>5. ASSUME NEW y \in Exchange, exchange'[y].shares, exchange'[y].session = s
      PROVE  exchange[y].shares /\ exchange[y].session = s
  BY <1>3, <1>5
<1>6. OneShare(s, exchange')
  <2> SUFFICES ASSUME NEW y \in Exchange, NEW z \in Exchange,
                      exchange'[y].shares, exchange'[y].session = s,
                      exchange'[z].shares, exchange'[z].session = s
               PROVE  y = z
    BY Zenon DEF OneShare
  <2>1. exchange[y].shares /\ exchange[y].session = s /\ exchange[z].shares /\ exchange[z].session = s
    BY <1>5
  <2> QED
    BY <1>1, <2>1, Zenon DEF OneShare
<1>7. ASSUME NEW y \in Exchange, exchange'[y].session = s
      PROVE  ExchangeOK(y, exchange'[y], session')
  <2>1. CASE y = x
    BY <1>3, <2>1
  <2>2. CASE y # x
    <3>1. exchange'[y] = exchange[y] /\ exchange[y].session = s /\ ExchangeOK(y, exchange[y], session)
      BY <1>1, <1>3, <1>7, <2>2
    <3>2. exchange[y].state \in Running => r.exchange = y
      BY <2>2, <3>1 DEF ExchangeOK
    <3>3. exchange[y].shares => r.op = "write" /\ r.request = exchange[y].request
      BY <3>1 DEF ExchangeOK
    <3> QED
      BY <1>2, <3>1, <3>2, <3>3 DEF ExchangeOK
  <2> QED
    BY <2>1, <2>2
<1>8. \A y \in Exchange :
         \/ exchange'[y] = exchange[y]
         \/ /\ exchange[y].session = s \/ exchange[y].state = "free"
            /\ exchange'[y].session = s \/ exchange'[y] = NoExchange
  BY <1>3
<1>9. RecordOK(session'[s]) /\ Linked(s, session'[s], exchange')
  BY <1>2
<1>10. \A y \in Exchange : exchange'[y].session = s => ExchangeOK(y, exchange'[y], session')
  BY <1>7
<1> QED
  BY <1>2, <1>4, <1>6, <1>8, <1>9, <1>10, StepOfSession

\* What a session gives back is a number of bytes.
LEMMA GivesIs ==
    ASSUME NEW s, NEW r \in SessionRecords
    PROVE  Gives(s, r) \in Nat
BY DEF Gives, SessionRecords

\* close_socket leaves the counters natural numbers.
LEMMA CloseSocketNat ==
    ASSUME SessionInv, NEW s \in Session, NEW r \in SessionRecords, NEW still, CloseSocket(s, r, still)
    PROVE  current_bytes' \in Nat /\ active_proxies' \in Nat
<1>1. current_bytes \in Nat /\ active_proxies \in Nat /\ Gives(s, r) \in Nat
  BY SessionIs, GivesIs
<1>2. /\ active_proxies' \in {ProxyReleased(active_proxies), active_proxies}
      /\ current_bytes' \in {Returned(current_bytes, Gives(s, r)), current_bytes}
  BY DEF CloseSocket
<1> QED
  BY <1>1, <1>2, CountersAreNat

----------------------------------------------------------------------------
(* The server's calls and the session's handlers.                          *)

\* start()
LEMMA StartSessionInv ==
    ASSUME SessionInv, NEW s \in Session, StartSession(s)
    PROVE  SessionInv'
<1>1. session[s] = Fresh /\ current_bytes \in Nat /\ active_proxies \in Nat
  BY SessionIs DEF StartSession, RecordOK
<1> DEFINE h == [Fresh EXCEPT !.phase = "handshaking", !.op = "handshake"]
           r == IF Tls THEN h ELSE ReadRequest(Fresh)
<1>2. Becomes(s, r, current_bytes)
  BY DEF StartSession
<1>3. r \in SessionRecords /\ RecordOK(r) /\ r.exchange = None /\ r.op \in {"handshake", "read_header"}
  <2>1. CASE Tls
    <3>1. /\ h \in SessionRecords /\ h.phase = "handshaking" /\ h.op = "handshake"
          /\ h.completed = FALSE /\ h.responses = 0 /\ h.request = 0 /\ h.response = 0
          /\ h.exchange = None /\ h.proxy_permit = FALSE /\ h.silent = FALSE
      BY FreshIs DEF SessionRecords, SessionPhases, SessionOps
    <3>2. r = h
      BY <2>1
    <3> HIDE DEF h, r
    <3>3. RecordOK(h)
      BY <3>1 DEF RecordOK, StreamOps
    <3> QED
      BY <3>1, <3>2, <3>3
  <2>2. CASE ~Tls
    <3> DEFINE w == ReadRequest(Fresh)
    <3>1. /\ w \in SessionRecords /\ w.phase = "reading" /\ w.op = "read_header"
          /\ w.completed = FALSE /\ w.responses = 0 /\ w.request = 0 /\ w.response = 0
          /\ w.exchange = None /\ w.proxy_permit = FALSE /\ w.silent = FALSE
      BY FreshIs, ReadRequestIs
    <3>2. r = w
      BY <2>2
    <3> HIDE DEF w, r
    <3>3. RecordOK(w)
      BY <3>1 DEF RecordOK, StreamOps
    <3> QED
      BY <3>1, <3>2, <3>3
  <2> QED
    BY <2>1, <2>2
<1> HIDE DEF r
<1>4. session' = [session EXCEPT ![s] = r] /\ UNCHANGED exchange /\ current_bytes' \in Nat /\ active_proxies' \in Nat
  BY <1>1, <1>2 DEF Becomes
<1>5. session[s].exchange = None /\ session[s].op # "write"
  BY <1>1, FreshIs
<1> QED
  BY <1>3, <1>4, <1>5, AloneInv DEF StreamOps

\* begin_drain
LEMMA BeginDrainInv ==
    ASSUME SessionInv, NEW s \in Session, BeginDrain(s)
    PROVE  SessionInv'
<1> DEFINE r == [session[s] EXCEPT !.draining = TRUE]
<1>1. /\ session \in [Session -> SessionRecords] /\ exchange \in [Exchange -> ExchangeRecords]
      /\ current_bytes \in Nat /\ active_proxies \in Nat
      /\ session[s] \in SessionRecords
      /\ RecordOK(session[s]) /\ Linked(s, session[s], exchange) /\ OneShare(s, exchange)
      /\ \A x \in Exchange : ExchangeOK(x, exchange[x], session)
  BY SessionIs
<1>2. /\ r \in SessionRecords /\ r.phase = session[s].phase /\ r.op = session[s].op
      /\ r.completed = session[s].completed /\ r.request = session[s].request
      /\ r.response = session[s].response /\ r.exchange = session[s].exchange
      /\ r.proxy_permit = session[s].proxy_permit /\ r.responses = session[s].responses
      /\ r.silent = session[s].silent
  BY <1>1 DEF SessionRecords
<1>3. Unfinished(s)
  BY DEF BeginDrain
<1>4. CASE r.phase \in {"handshaking", "reading"}
  <2>1. CloseSocket(s, r, r.op)
    BY <1>4 DEF BeginDrain
  <2>2. current_bytes' \in Nat /\ active_proxies' \in Nat
    BY <1>2, <2>1, CloseSocketNat
  <2> QED
    BY <1>2, <1>3, <2>1, <2>2, CloseSocketInv
<1>5. CASE r.phase \notin {"handshaking", "reading"}
  <2>1. Becomes(s, r, current_bytes)
    BY <1>5 DEF BeginDrain
  <2> HIDE DEF r
  <2>2. session' = [session EXCEPT ![s] = r] /\ UNCHANGED exchange /\ current_bytes' \in Nat /\ active_proxies' \in Nat
    BY <1>1, <2>1 DEF Becomes
  <2>3. session'[s] = r /\ \A t \in Session : t # s => session'[t] = session[t]
    BY <1>1, <2>2
  <2>4. SessionTypeOK'
    <3>1. session' \in [Session -> SessionRecords] /\ exchange' \in [Exchange -> ExchangeRecords]
      BY <1>1, <1>2, <2>2
    <3> QED
      BY <2>2, <3>1 DEF SessionTypeOK, SessionRecords, ExchangeRecords
  <2>5. RecordOK(r)
    <3>1. r.phase # "free"
      BY <1>2, <1>3 DEF Unfinished
    <3> QED
      BY <1>1, <1>2, <3>1 DEF RecordOK
  <2>6. Linked(s, r, exchange)
    BY <1>1, <1>2 DEF Linked, Live
  <2>7. ASSUME NEW x \in Exchange, exchange'[x].session = s
        PROVE  ExchangeOK(x, exchange'[x], session')
    <3>1. exchange'[x] = exchange[x] /\ ExchangeOK(x, exchange[x], session) /\ exchange[x].session = s
      BY <1>1, <2>2, <2>7
    <3> QED
      BY <1>2, <2>3, <3>1 DEF ExchangeOK
  <2>8. /\ RecordOK(session'[s]) /\ Linked(s, session'[s], exchange') /\ OneShare(s, exchange')
        /\ \A x \in Exchange : exchange'[x] = exchange[x]
    BY <1>1, <2>2, <2>3, <2>5, <2>6
  <2> QED
    BY <2>3, <2>4, <2>7, <2>8, StepOfSession
<1> QED
  BY <1>4, <1>5

\* stop, a failed operation, the end of a TLS shutdown, and an exchange that
\* cannot tell its session how it ended.
LEMMA StopInv ==
    ASSUME SessionInv, NEW s \in Session, Unfinished(s), NEW still \in {"none", session[s].op},
           CloseSocket(s, session[s], still)
    PROVE  SessionInv'
<1>1. session[s] \in SessionRecords
  BY SessionIs
<1>2. current_bytes' \in Nat /\ active_proxies' \in Nat
  BY <1>1, CloseSocketNat
<1> QED
  BY <1>1, <1>2, CloseSocketInv

\* on_handshake
LEMMA OnHandshakeInv ==
    ASSUME SessionInv, NEW s \in Session, OnHandshake(s)
    PROVE  SessionInv'
<1>1. session[s].op = "handshake" /\ Becomes(s, ReadRequest(session[s]), current_bytes)
  BY DEF OnHandshake, Done
<1>2. session[s] \in SessionRecords /\ current_bytes \in Nat /\ active_proxies \in Nat
  BY SessionIs
<1>3. /\ session[s].request = 0 /\ session[s].response = 0 /\ session[s].exchange = None
      /\ session[s].proxy_permit = FALSE /\ session[s].silent = FALSE
  BY <1>1, ReadingIs
<1> DEFINE w == ReadRequest(session[s])
<1>4. /\ w \in SessionRecords /\ w.phase = "reading" /\ w.op = "read_header"
      /\ w.completed = FALSE /\ w.responses = 0 /\ w.request = 0 /\ w.response = 0
      /\ w.exchange = None /\ w.proxy_permit = FALSE /\ w.silent = FALSE
  BY <1>2, <1>3, ReadRequestIs
<1>5. session' = [session EXCEPT ![s] = w] /\ UNCHANGED exchange /\ current_bytes' \in Nat /\ active_proxies' \in Nat
  BY <1>1, <1>2 DEF Becomes
<1> HIDE DEF w
<1>6. RecordOK(w)
  BY <1>4 DEF RecordOK, StreamOps
<1>7. session[s].op # "write" /\ w.op \notin {"none"} \cup StreamOps
  BY <1>1, <1>4 DEF StreamOps
<1> QED
  BY <1>3, <1>4, <1>5, <1>6, <1>7, AloneInv

\* A bad request is answered.
LEMMA RefusalInv ==
    ASSUME SessionInv, NEW s \in Session, session[s].op \in {"read_header", "read_body"},
           Becomes(s, WriteResponse(session[s], TRUE), current_bytes)
    PROVE  SessionInv'
<1>1. session[s] \in SessionRecords /\ current_bytes \in Nat /\ active_proxies \in Nat
  BY SessionIs
<1>2. /\ session[s].completed = FALSE /\ session[s].responses = 0 /\ session[s].response = 0
      /\ session[s].exchange = None /\ session[s].proxy_permit = FALSE
      /\ session[s].silent = FALSE
  BY ReadingIs
<1> DEFINE w == WriteResponse(session[s], TRUE)
<1>3. /\ w \in SessionRecords /\ w.phase = "writing" /\ w.op = "write"
      /\ w.completed = TRUE /\ w.responses = 1 /\ w.exchange = None
      /\ w.proxy_permit = FALSE /\ w.silent = FALSE
  BY <1>1, <1>2, WriteResponseIs
<1>4. session' = [session EXCEPT ![s] = w] /\ UNCHANGED exchange /\ current_bytes' \in Nat /\ active_proxies' \in Nat
  BY <1>1 DEF Becomes
<1> HIDE DEF w
<1>5. RecordOK(w)
  BY <1>3 DEF RecordOK, StreamOps
<1>6. session[s].op # "write" /\ w.op \notin {"none"} \cup StreamOps
  BY <1>3 DEF StreamOps
<1> QED
  BY <1>2, <1>3, <1>4, <1>5, <1>6, AloneInv

\* handle_read_error
LEMMA OnBadRequestInv ==
    ASSUME SessionInv, NEW s \in Session, OnBadRequest(s)
    PROVE  SessionInv'
<1>1. /\ session[s].op \in {"read_header", "read_body"} /\ Unfinished(s)
      /\ \/ Becomes(s, WriteResponse(session[s], TRUE), current_bytes)
         \/ Becomes(s, Closing(session[s]), current_bytes)
         \/ CloseSocket(s, session[s], "none")
  BY DEF OnBadRequest, Done
<1>2. CASE Becomes(s, WriteResponse(session[s], TRUE), current_bytes)
  BY <1>1, <1>2, RefusalInv
<1>3. CASE CloseSocket(s, session[s], "none")
  BY <1>1, <1>3, StopInv
<1>4. CASE Becomes(s, Closing(session[s]), current_bytes)
  <2>1. session[s] \in SessionRecords /\ current_bytes \in Nat /\ active_proxies \in Nat
    BY SessionIs
  <2>2. /\ session[s].completed = FALSE /\ session[s].responses = 0 /\ session[s].response = 0
        /\ session[s].exchange = None /\ session[s].proxy_permit = FALSE
        /\ session[s].silent = FALSE
    BY <1>1, ReadingIs
  <2> DEFINE w == Closing(session[s])
  <2>3. /\ w \in SessionRecords /\ w.phase = "closing" /\ w.op = "shutdown"
        /\ w.completed = FALSE /\ w.responses = 0 /\ w.exchange = None
        /\ w.proxy_permit = FALSE /\ w.silent = FALSE
    BY <2>1, <2>2, ClosingIs
  <2>4. session' = [session EXCEPT ![s] = w] /\ UNCHANGED exchange /\ current_bytes' \in Nat /\ active_proxies' \in Nat
    BY <1>4, <2>1 DEF Becomes
  <2> HIDE DEF w
  <2>5. RecordOK(w)
    BY <2>3 DEF RecordOK, StreamOps
  <2>6. session[s].op # "write" /\ w.op \notin {"none"} \cup StreamOps
    BY <1>1, <2>3 DEF StreamOps
  <2> QED
    BY <2>2, <2>3, <2>4, <2>5, <2>6, AloneInv
<1> QED
  BY <1>1, <1>2, <1>3, <1>4

\* on_read_header
LEMMA OnReadHeaderInv ==
    ASSUME SessionInv, NEW s \in Session, OnReadHeader(s)
    PROVE  SessionInv'
<1>1. session[s].op = "read_header" /\ Unfinished(s)
  BY DEF OnReadHeader, Done
<1>2. session[s] \in SessionRecords /\ current_bytes \in Nat /\ active_proxies \in Nat
  BY SessionIs
<1>3. CASE ProcessRequest(s, session[s], current_bytes)
  <2>1. session[s].request \in Nat /\ session[s] = [session[s] EXCEPT !.request = session[s].request]
    BY <1>2 DEF SessionRecords
  <2> QED
    BY <1>1, <1>2, <1>3, <2>1, ProcessRequestInv
<1>4. CASE \E bytes \in Reservations :
             IF Fits(bytes)
             THEN Becomes(s, [session[s] EXCEPT !.request = bytes, !.op = "read_body"],
                          current_bytes + bytes)
             ELSE Becomes(s, WriteResponse(session[s], TRUE), current_bytes)
  <2>1. PICK bytes \in Reservations :
             IF Fits(bytes)
             THEN Becomes(s, [session[s] EXCEPT !.request = bytes, !.op = "read_body"],
                          current_bytes + bytes)
             ELSE Becomes(s, WriteResponse(session[s], TRUE), current_bytes)
    BY <1>4
  <2>2. CASE ~Fits(bytes)
    BY <1>1, <2>1, <2>2, RefusalInv
  <2>3. CASE Fits(bytes)
    <3> DEFINE w == [session[s] EXCEPT !.request = bytes, !.op = "read_body"]
    <3>1. bytes \in Nat
      BY SessionLimitsAssumption DEF Reservations
    <3>2. /\ session[s].completed = FALSE /\ session[s].responses = 0 /\ session[s].response = 0
          /\ session[s].exchange = None /\ session[s].proxy_permit = FALSE
          /\ session[s].silent = FALSE
      BY <1>1, ReadingIs
    <3>3. /\ w \in SessionRecords /\ w.phase = session[s].phase /\ w.op = "read_body"
          /\ w.completed = FALSE /\ w.responses = 0 /\ w.exchange = None /\ w.response = 0
          /\ w.proxy_permit = FALSE /\ w.silent = FALSE
      BY <1>2, <3>1, <3>2 DEF SessionRecords, SessionOps
    <3>4. session' = [session EXCEPT ![s] = w] /\ UNCHANGED exchange /\ current_bytes' \in Nat /\ active_proxies' \in Nat
      BY <1>2, <2>1, <2>3, <3>1 DEF Becomes
    <3> HIDE DEF w
    <3>5. w.phase # "free" /\ w.phase # "finished"
      BY <1>1, <3>3 DEF Unfinished
    <3>6. RecordOK(w)
      BY <3>3, <3>5 DEF RecordOK, StreamOps
    <3>7. session[s].op # "write" /\ w.op \notin {"none"} \cup StreamOps
      BY <1>1, <3>3 DEF StreamOps
    <3> QED
      BY <3>2, <3>3, <3>4, <3>6, <3>7, AloneInv
  <2> QED
    BY <2>2, <2>3
<1> QED
  BY <1>3, <1>4 DEF OnReadHeader

\* on_read_body
LEMMA OnReadBodyInv ==
    ASSUME SessionInv, NEW s \in Session, OnReadBody(s)
    PROVE  SessionInv'
<1>1. session[s].op = "read_body" /\ Unfinished(s)
  BY DEF OnReadBody, Done
<1>2. session[s] \in SessionRecords /\ current_bytes \in Nat /\ session[s].request \in Nat
  BY SessionIs DEF SessionRecords
<1>3. PICK bytes \in 0 .. session[s].request :
         ProcessRequest(s, [session[s] EXCEPT !.request = bytes],
                        Returned(current_bytes, session[s].request - bytes))
  BY DEF OnReadBody
<1>4. bytes \in Nat /\ session[s].request - bytes \in Nat
  BY <1>2
<1>5. Returned(current_bytes, session[s].request - bytes) \in Nat
  BY <1>2, <1>4, CountersAreNat
<1> QED
  BY <1>1, <1>3, <1>4, <1>5, ProcessRequestInv

\* The exchanges that refer to a session lose their shares in its permit, and
\* those that a streamed write held are over.
LEMMA DisownInv ==
    ASSUME SessionInv, NEW s \in Session, session[s].exchange = None,
           NEW r \in SessionRecords, session' = [session EXCEPT ![s] = r], RecordOK(r), r.exchange = None,
           ~Live(r) \/ r.op \notin {"none"} \cup StreamOps,
           exchange' \in [Exchange -> ExchangeRecords],
           \A x \in Exchange : exchange[x].session # s => exchange'[x] = exchange[x],
           \A x \in Exchange : exchange[x].session = s =>
              /\ exchange'[x].session = s /\ exchange'[x].shares = FALSE
              /\ exchange'[x].state = exchange[x].state
                    \/ (exchange[x].state = "held" /\ exchange'[x].state = "over")
              /\ exchange[x].state = "free" => exchange'[x] = exchange[x],
           current_bytes' \in Nat, active_proxies' \in Nat
    PROVE  SessionInv'
<1>1. /\ session \in [Session -> SessionRecords] /\ exchange \in [Exchange -> ExchangeRecords]
      /\ \A y \in Exchange : ExchangeOK(y, exchange[y], session)
  BY SessionIs
<1>2. session'[s] = r /\ \A t \in Session : t # s => session'[t] = session[t]
  BY <1>1
<1>3. SessionTypeOK'
  <2>1. session' \in [Session -> SessionRecords]
    BY <1>1
  <2> QED
    BY <2>1 DEF SessionTypeOK, SessionRecords, ExchangeRecords
<1>4. ASSUME NEW x \in Exchange
      PROVE  exchange'[x].session = exchange[x].session
  OBVIOUS
<1>5. ASSUME NEW x \in Exchange, exchange'[x].session = s
      PROVE  ExchangeOK(x, exchange'[x], session') /\ ~exchange'[x].shares
  <2>1. exchange[x].session = s /\ ExchangeOK(x, exchange[x], session)
    BY <1>1, <1>4, <1>5
  <2>2. /\ exchange'[x].shares = FALSE
        /\ exchange'[x].state = exchange[x].state
              \/ (exchange[x].state = "held" /\ exchange'[x].state = "over")
        /\ exchange[x].state = "free" => exchange'[x] = exchange[x]
    BY <2>1
  <2>3. None \notin Exchange
    BY SessionSetsAssumption
  <2>4. exchange[x].state \notin Running
    BY <2>1, <2>3 DEF ExchangeOK
  <2>5. exchange'[x].state \notin Running
    BY <2>2, <2>4 DEF Running
  <2>6. exchange'[x].state = "free" => exchange'[x] = NoExchange
    BY <2>1, <2>2 DEF ExchangeOK
  <2> QED
    BY <1>5, <2>2, <2>5, <2>6 DEF ExchangeOK
<1>6. OneShare(s, exchange')
  BY <1>5, Zenon DEF OneShare
<1>7. Linked(s, r, exchange')
  BY DEF Linked
<1>8. /\ RecordOK(session'[s]) /\ Linked(s, session'[s], exchange')
      /\ \A x \in Exchange : exchange'[x].session = s => ExchangeOK(x, exchange'[x], session')
  BY <1>2, <1>5, <1>7
<1>9. \A y \in Exchange :
         \/ exchange'[y] = exchange[y]
         \/ /\ exchange[y].session = s \/ exchange[y].state = "free"
            /\ exchange'[y].session = s \/ exchange'[y] = NoExchange
  OBVIOUS
<1> QED
  BY <1>2, <1>3, <1>6, <1>8, <1>9, StepOfSession

\* on_write
LEMMA OnWriteInv ==
    ASSUME SessionInv, NEW s \in Session, OnWrite(s)
    PROVE  SessionInv'
<1> DEFINE r == [session[s] EXCEPT !.request = 0, !.response = 0]
           more == ~r.close /\ ~r.draining
           w == IF more THEN ReadRequest(r) ELSE Closing(r)
<1>1. session[s].op = "write" /\ Unfinished(s)
  BY DEF OnWrite, Done
<1>2. \/ CloseSocket(s, session[s], "none")
      \/ /\ session' = [session EXCEPT ![s] = w]
         /\ exchange' = [x \in Exchange |-> [exchange[x] EXCEPT
                             !.shares = @ /\ x \notin Shares(s)]]
         /\ current_bytes' = Returned(current_bytes, Gives(s, session[s]))
         /\ UNCHANGED active_proxies
  BY DEF OnWrite
<1>3. /\ session \in [Session -> SessionRecords] /\ exchange \in [Exchange -> ExchangeRecords]
      /\ current_bytes \in Nat /\ active_proxies \in Nat
      /\ session[s] \in SessionRecords /\ RecordOK(session[s]) /\ Linked(s, session[s], exchange)
  BY SessionIs
<1>4. CASE CloseSocket(s, session[s], "none")
  BY <1>1, <1>4, StopInv
<1>5. CASE ~CloseSocket(s, session[s], "none")
  <2>1. /\ session' = [session EXCEPT ![s] = w]
        /\ exchange' = [x \in Exchange |-> [exchange[x] EXCEPT
                            !.shares = @ /\ x \notin Shares(s)]]
        /\ current_bytes' = Returned(current_bytes, Gives(s, session[s]))
        /\ UNCHANGED active_proxies
    BY <1>2, <1>5
  <2>2. /\ session[s].exchange = None /\ ~session[s].proxy_permit /\ session[s].completed
        /\ session[s].responses = 1 /\ ~session[s].silent
    <3>1. session[s].exchange = None
      BY <1>1, <1>3 DEF Linked, StreamOps
    <3> QED
      BY <1>1, <1>3, <3>1 DEF RecordOK
  <2>3. /\ r \in SessionRecords /\ r.request = 0 /\ r.response = 0 /\ r.exchange = None
        /\ r.proxy_permit = FALSE /\ r.completed = TRUE /\ r.responses = 1 /\ r.silent = FALSE
    BY <1>3, <2>2 DEF SessionRecords
  <2> HIDE DEF r
  <2>4. /\ w \in SessionRecords /\ RecordOK(w) /\ w.exchange = None
        /\ w.op \in {"read_header", "shutdown"}
    <3>1. CASE more
      <4>1. /\ w \in SessionRecords /\ w.phase = "reading" /\ w.op = "read_header"
            /\ w.completed = FALSE /\ w.responses = 0 /\ w.request = 0 /\ w.response = 0
            /\ w.exchange = None /\ w.proxy_permit = FALSE /\ w.silent = FALSE
        BY <2>3, <3>1, ReadRequestIs
      <4> HIDE DEF w
      <4>2. RecordOK(w)
        BY <4>1 DEF RecordOK, StreamOps
      <4> QED
        BY <4>1, <4>2
    <3>2. CASE ~more
      <4>1. /\ w \in SessionRecords /\ w.phase = "closing" /\ w.op = "shutdown"
            /\ w.completed = TRUE /\ w.responses = 1
            /\ w.exchange = None /\ w.proxy_permit = FALSE /\ w.silent = FALSE
        BY <2>3, <3>2, ClosingIs
      <4> HIDE DEF w
      <4>2. RecordOK(w)
        BY <4>1 DEF RecordOK, StreamOps
      <4> QED
        BY <4>1, <4>2
    <3> QED
      BY <3>1, <3>2
  <2> HIDE DEF w
  <2>5. w.op \notin {"none"} \cup StreamOps
    BY <2>4 DEF StreamOps
  <2>6. ASSUME NEW x \in Exchange
        PROVE  /\ exchange'[x] \in ExchangeRecords
               /\ exchange[x].session # s => exchange'[x] = exchange[x]
               /\ exchange[x].session = s =>
                     /\ exchange'[x].session = s /\ exchange'[x].shares = FALSE
                     /\ exchange'[x].state = exchange[x].state
                     /\ exchange[x].state = "free" => exchange'[x] = exchange[x]
    <3>1. exchange[x] \in ExchangeRecords /\ ExchangeOK(x, exchange[x], session)
      BY SessionIs
    <3> DEFINE sh == exchange[x].shares /\ x \notin Shares(s)
    <3>2. exchange'[x] = [exchange[x] EXCEPT !.shares = sh]
      BY <2>1
    <3>3. sh \in BOOLEAN
      BY Zenon
    <3>4. exchange[x].shares \in BOOLEAN
      BY <3>1 DEF ExchangeRecords
    <3>5. exchange[x].session = s => sh = FALSE
      BY <3>4 DEF Shares
    <3>6. exchange[x].session # s => sh = exchange[x].shares
      <4>1. exchange[x].session # s => x \notin Shares(s)
        BY DEF Shares
      <4> QED
        BY <3>4, <4>1
    <3> HIDE DEF sh
    <3>7. /\ exchange'[x] \in ExchangeRecords /\ exchange'[x].session = exchange[x].session
          /\ exchange'[x].shares = sh /\ exchange'[x].state = exchange[x].state
          /\ sh = exchange[x].shares => exchange'[x] = exchange[x]
      BY <3>1, <3>2, <3>3 DEF ExchangeRecords
    <3>8. exchange[x].state = "free" => exchange[x].shares = FALSE
      BY <3>1, NoExchangeIs DEF ExchangeOK
    <3> QED
      BY <3>5, <3>6, <3>7, <3>8
  <2>7. exchange' \in [Exchange -> ExchangeRecords]
    BY <2>1, <2>6
  <2>8. current_bytes' \in Nat /\ active_proxies' \in Nat
    BY <1>3, <2>1, GivesIs, CountersAreNat
  <2> QED
    <3>1. \A x \in Exchange : exchange[x].session # s => exchange'[x] = exchange[x]
      BY <2>6
    <3>2. \A x \in Exchange : exchange[x].session = s =>
             /\ exchange'[x].session = s /\ exchange'[x].shares = FALSE
             /\ exchange'[x].state = exchange[x].state
                  \/ (exchange[x].state = "held" /\ exchange'[x].state = "over")
             /\ exchange[x].state = "free" => exchange'[x] = exchange[x]
      BY <2>6
    <3>3. session' = [session EXCEPT ![s] = w]
      BY <2>1
    <3>4. session[s].exchange = None
      BY <2>2
    <3> QED
      BY <2>4, <2>5, <2>7, <2>8, <3>1, <3>2, <3>3, <3>4, DisownInv
<1> QED
  BY <1>4, <1>5

\* The last handler of a session that has finished.
LEMMA LateHandlerInv ==
    ASSUME SessionInv, NEW s \in Session, LateHandler(s)
    PROVE  SessionInv'
<1>1. /\ session[s].phase = "finished" /\ session' = [session EXCEPT ![s] = Fresh]
      /\ current_bytes' = Returned(current_bytes, Gives(s, session[s])) /\ UNCHANGED active_proxies
  BY DEF LateHandler
<1>2. exchange' = [x \in Exchange |->
          IF exchange[x].session = s
          THEN [exchange[x] EXCEPT !.shares = FALSE,
                                   !.state = IF @ = "held" THEN "over" ELSE @]
          ELSE exchange[x]]
  BY DEF LateHandler
<1>3. /\ session \in [Session -> SessionRecords] /\ exchange \in [Exchange -> ExchangeRecords]
      /\ current_bytes \in Nat /\ active_proxies \in Nat
      /\ session[s] \in SessionRecords /\ Linked(s, session[s], exchange)
  BY SessionIs
<1>4. session[s].exchange = None
  BY <1>1, <1>3 DEF Linked, Live
<1>5. ASSUME NEW x \in Exchange
      PROVE  /\ exchange'[x] \in ExchangeRecords
             /\ exchange[x].session # s => exchange'[x] = exchange[x]
             /\ exchange[x].session = s =>
                   /\ exchange'[x].session = s /\ exchange'[x].shares = FALSE
                   /\ exchange'[x].state = exchange[x].state
                        \/ (exchange[x].state = "held" /\ exchange'[x].state = "over")
                   /\ exchange[x].state = "free" => exchange'[x] = exchange[x]
  <2>1. exchange[x] \in ExchangeRecords /\ ExchangeOK(x, exchange[x], session)
    BY SessionIs
  <2>2. CASE exchange[x].session # s
    BY <1>2, <2>1, <2>2
  <2>3. CASE exchange[x].session = s
    <3> DEFINE q == IF exchange[x].state = "held" THEN "over" ELSE exchange[x].state
    <3>1. exchange'[x] = [exchange[x] EXCEPT !.shares = FALSE, !.state = q]
      BY <1>2, <2>3
    <3>2. q \in Running \cup {"free", "held", "over"}
      BY <2>1 DEF ExchangeRecords
    <3>3. q = exchange[x].state \/ (exchange[x].state = "held" /\ q = "over")
      OBVIOUS
    <3> HIDE DEF q
    <3>4. /\ exchange'[x] \in ExchangeRecords /\ exchange'[x].session = s
          /\ exchange'[x].shares = FALSE /\ exchange'[x].state = q
          /\ q = exchange[x].state /\ exchange[x].shares = FALSE => exchange'[x] = exchange[x]
      BY <2>1, <2>3, <3>1, <3>2 DEF ExchangeRecords
    <3>5. exchange[x].state = "free" => exchange[x].shares = FALSE
      BY <2>1, NoExchangeIs DEF ExchangeOK
    <3> QED
      BY <2>3, <3>3, <3>4, <3>5
  <2> QED
    BY <2>2, <2>3
<1>6. exchange' \in [Exchange -> ExchangeRecords]
  BY <1>2, <1>5
<1>7. current_bytes' \in Nat /\ active_proxies' \in Nat
  BY <1>1, <1>3, GivesIs, CountersAreNat
<1>8. ~Live(Fresh)
  BY FreshIs DEF Live
<1> QED
  BY <1>1, <1>4, <1>5, <1>6, <1>7, <1>8, FreshIs, DisownInv

----------------------------------------------------------------------------
(* The exchange and its session.                                           *)

\* The session of a running exchange, by what the exchange does.
LEMMA RunningIs ==
    ASSUME SessionInv, NEW x \in Exchange, exchange[x].state \in Running, NEW s, s = exchange[x].session
    PROVE  /\ s \in Session /\ session[s] \in SessionRecords /\ exchange[x] \in ExchangeRecords
           /\ RecordOK(session[s])
           /\ session[s].exchange = x /\ session[s].proxy_permit = TRUE /\ session[s].silent = FALSE
           /\ session[s].request = 0 /\ session[s].response = 0
           /\ Unfinished(s) /\ session[s].op # "write" /\ exchange[x].shares = FALSE
           /\ exchange[x].state = "waiting" =>
                 session[s].op = "none" /\ session[s].completed = FALSE /\ session[s].responses = 0
           /\ exchange[x].state = "stream_writing" =>
                 session[s].op \in StreamOps /\ session[s].completed = TRUE /\ session[s].responses = 1
           /\ exchange[x].state = "stream_reading" =>
                 session[s].op = "none" /\ session[s].completed = TRUE /\ session[s].responses = 1
<1>1. exchange \in [Exchange -> ExchangeRecords] /\ \A y \in Exchange : ExchangeOK(y, exchange[y], session)
  BY TypeIs DEF SessionInv
<1>2. s \in Session /\ session[s].exchange = x /\ exchange[x].shares = FALSE
  <2>1. exchange[x] \in ExchangeRecords /\ ExchangeOK(x, exchange[x], session)
    BY <1>1
  <2>2. exchange[x].state # "free" /\ exchange[x].state # "over"
    BY DEF Running
  <2>3. s \in Session /\ session[s].exchange = x /\ ~exchange[x].shares
    BY <2>1, <2>2 DEF ExchangeOK
  <2> QED
    BY <2>1, <2>3 DEF ExchangeRecords
<1>3. session[s] \in SessionRecords /\ RecordOK(session[s]) /\ Linked(s, session[s], exchange)
  BY <1>2, SessionIs
<1>4. x # None
  BY SessionSetsAssumption
<1>5. /\ Live(session[s]) /\ ~session[s].silent /\ session[s].op \in {"none"} \cup StreamOps
      /\ session[s].request = 0 /\ session[s].response = 0
      /\ session[s].op \in StreamOps => exchange[x].state = "stream_writing"
      /\ session[s].op = "none" /\ ~session[s].completed => exchange[x].state = "waiting"
      /\ session[s].op = "none" /\ session[s].completed => exchange[x].state = "stream_reading"
  BY <1>2, <1>3, <1>4 DEF Linked
<1>6. /\ session[s].proxy_permit /\ Unfinished(s) /\ session[s].op # "write"
  BY <1>2, <1>3, <1>4, <1>5 DEF RecordOK, Live, Unfinished, StreamOps
<1>7. /\ exchange[x].state = "waiting" => session[s].op = "none" /\ ~session[s].completed
      /\ exchange[x].state = "stream_writing" => session[s].op \in StreamOps
      /\ exchange[x].state = "stream_reading" => session[s].op = "none" /\ session[s].completed
  BY <1>5
<1>8. /\ session[s].op \in StreamOps => session[s].completed
      /\ session[s].completed => session[s].responses = 1
      /\ ~session[s].completed => session[s].responses = 0
  BY <1>3 DEF RecordOK
<1>9. /\ session[s].completed \in BOOLEAN /\ session[s].silent \in BOOLEAN
      /\ session[s].proxy_permit \in BOOLEAN
  BY <1>3 DEF SessionRecords
<1>10. exchange[x] \in ExchangeRecords
  BY <1>1
<1>11. /\ exchange[x].state = "waiting" =>
             session[s].op = "none" /\ session[s].completed = FALSE /\ session[s].responses = 0
       /\ exchange[x].state = "stream_writing" =>
             session[s].op \in StreamOps /\ session[s].completed = TRUE /\ session[s].responses = 1
       /\ exchange[x].state = "stream_reading" =>
             session[s].op = "none" /\ session[s].completed = TRUE /\ session[s].responses = 1
  BY <1>7, <1>8, <1>9
<1>12. session[s].proxy_permit = TRUE /\ session[s].silent = FALSE
  BY <1>5, <1>6, <1>9
<1> QED
  BY <1>2, <1>3, <1>5, <1>6, <1>10, <1>11, <1>12

\* The exchange reserves bytes for the upstream's body.
LEMMA ExchangeReservesInv ==
    ASSUME SessionInv, NEW x \in Exchange, ExchangeReserves(x)
    PROVE  SessionInv'
<1> DEFINE s == exchange[x].session
           r == session[s]
<1>1. exchange[x].state = "waiting" /\ exchange[x].state \in Running
  BY DEF ExchangeReserves, At, Running
<1>2. PICK bytes \in Reservations : /\ exchange' = [exchange EXCEPT ![x].body = bytes]
                                    /\ current_bytes' = current_bytes + bytes
  BY DEF ExchangeReserves
<1>3. UNCHANGED <<session, active_proxies>>
  BY DEF ExchangeReserves
<1>4. /\ s \in Session /\ r \in SessionRecords /\ exchange[x] \in ExchangeRecords /\ RecordOK(r)
      /\ r.exchange = x
  BY <1>1, RunningIs
<1>5. /\ session \in [Session -> SessionRecords] /\ exchange \in [Exchange -> ExchangeRecords]
      /\ current_bytes \in Nat /\ active_proxies \in Nat /\ Linked(s, r, exchange)
      /\ ExchangeOK(x, exchange[x], session)
  BY <1>4, SessionIs
<1>6. bytes \in Nat
  BY SessionLimitsAssumption DEF Reservations
<1> DEFINE e == [exchange[x] EXCEPT !.body = bytes]
<1>7. /\ e \in ExchangeRecords /\ e.state = exchange[x].state /\ e.session = s
      /\ e.request = exchange[x].request /\ e.shares = exchange[x].shares
  BY <1>4, <1>6 DEF ExchangeRecords
<1>8. exchange' = [exchange EXCEPT ![x] = e] /\ session' = [session EXCEPT ![s] = r]
  BY <1>2, <1>3, <1>4, <1>5
<1> HIDE DEF e, s, r
<1>9. exchange'[x] = e
  BY <1>5, <1>8
<1>10. Linked(s, r, exchange')
  BY <1>4, <1>5, <1>7, <1>9 DEF Linked
<1>11. ExchangeOK(x, e, session')
  <2>1. e.state # "free" /\ session' = session
    BY <1>1, <1>3, <1>7
  <2> QED
    BY <1>5, <1>7, <2>1 DEF ExchangeOK, s
<1>12. current_bytes' \in Nat /\ active_proxies' \in Nat
  BY <1>2, <1>3, <1>5, <1>6
<1> QED
  BY <1>4, <1>7, <1>8, <1>10, <1>11, <1>12, ExchangeStepInv DEF s, r

\* complete and fail, before the response has begun.
LEMMA OnProxyCompleteInv ==
    ASSUME SessionInv, NEW x \in Exchange, NEW failed \in BOOLEAN, OnProxyComplete(x, failed)
    PROVE  SessionInv'
<1> DEFINE s == exchange[x].session
           r == [session[s] EXCEPT !.exchange = None, !.proxy_permit = FALSE]
           kept == IF failed THEN exchange[x].body ELSE 0
<1>1. exchange[x].state = "waiting" /\ exchange[x].state \in Running
  BY DEF OnProxyComplete, At, Running
<1>2. PICK close \in BOOLEAN, bytes \in 0 .. (exchange[x].body - kept) :
          /\ session' = [session EXCEPT ![s] =
                [WriteResponse(r, close \/ LastRequest(r)) EXCEPT !.response = bytes]]
          /\ current_bytes' = Returned(current_bytes, exchange[x].body - kept - bytes)
  BY DEF OnProxyComplete
<1>3. /\ exchange' = [exchange EXCEPT ![x].state = "over", ![x].body = kept]
      /\ active_proxies' = ProxyReleased(active_proxies)
  BY DEF OnProxyComplete
<1>4. /\ s \in Session /\ session[s] \in SessionRecords /\ exchange[x] \in ExchangeRecords
      /\ session[s].exchange = x /\ session[s].silent = FALSE /\ session[s].op # "write"
      /\ session[s].completed = FALSE /\ session[s].responses = 0 /\ exchange[x].shares = FALSE
  BY <1>1, RunningIs, ZenonT(60)
<1>5. /\ session \in [Session -> SessionRecords] /\ exchange \in [Exchange -> ExchangeRecords]
      /\ current_bytes \in Nat /\ active_proxies \in Nat
  BY <1>4, SessionIs
<1>6. kept \in Nat /\ exchange[x].body - kept \in Nat /\ bytes \in Nat /\ exchange[x].body - kept - bytes \in Nat
  <2>1. exchange[x].body \in Nat
    BY <1>4 DEF ExchangeRecords
  <2> QED
    BY <2>1
<1>7. /\ r \in SessionRecords /\ r.exchange = None /\ r.proxy_permit = FALSE /\ r.silent = FALSE
      /\ r.completed = FALSE /\ r.responses = 0
  BY <1>4 DEF SessionRecords
<1> DEFINE c == close \/ LastRequest(r)
           v == WriteResponse(r, c)
           w == [v EXCEPT !.response = bytes]
           e == [exchange[x] EXCEPT !.state = "over", !.body = kept]
<1>8. c \in BOOLEAN
  BY Zenon
<1>9. session' = [session EXCEPT ![s] = w]
  BY <1>2
<1> HIDE DEF c, r, kept
<1>10. /\ v \in SessionRecords /\ v.phase = "writing" /\ v.op = "write" /\ v.completed = TRUE
       /\ v.responses = 1 /\ v.exchange = None /\ v.proxy_permit = FALSE /\ v.silent = FALSE
  BY <1>7, <1>8, WriteResponseIs, ZenonT(60)
<1> HIDE DEF v
<1>11. /\ w \in SessionRecords /\ w.phase = "writing" /\ w.op = "write" /\ w.completed = TRUE
       /\ w.responses = 1 /\ w.exchange = None /\ w.proxy_permit = FALSE /\ w.silent = FALSE
  BY <1>6, <1>10 DEF SessionRecords
<1>12. e \in ExchangeRecords /\ e.state = "over" /\ e.session = s /\ e.shares = FALSE
  BY <1>4, <1>6 DEF ExchangeRecords
<1>13. exchange' = [exchange EXCEPT ![x] = e]
  BY <1>3, <1>5
<1> HIDE DEF w, e, s
<1>14. RecordOK(w)
  BY <1>11 DEF RecordOK
<1>15. Linked(s, w, exchange')
  BY <1>11 DEF Linked, StreamOps
<1>16. ExchangeOK(x, e, session')
  BY <1>4, <1>12 DEF ExchangeOK, Running
<1>17. current_bytes' \in Nat /\ active_proxies' \in Nat
  BY <1>2, <1>3, <1>5, <1>6, CountersAreNat
<1>18. exchange[x].session = s
  BY DEF s
<1> QED
  BY <1>4, <1>9, <1>11, <1>12, <1>13, <1>14, <1>15, <1>16, <1>17, <1>18, ExchangeStepInv

\* The smaller of two numbers.
LEMMA MinIs ==
    ASSUME NEW a \in Nat, NEW b \in Nat
    PROVE  Min({a, b}) \in {a, b} /\ Min({a, b}) <= a /\ Min({a, b}) <= b
<1>1. \E m \in {a, b} : \A y \in {a, b} : m <= y
  <2>1. CASE a <= b
    BY <2>1
  <2>2. CASE b <= a
    BY <2>2
  <2> QED
    BY <2>1, <2>2
<1> DEFINE m == CHOOSE m \in {a, b} : \A y \in {a, b} : m <= y
<1>2. m \in {a, b} /\ \A y \in {a, b} : m <= y
  BY <1>1
<1>3. Min({a, b}) = m
  BY Zenon DEF Min
<1> HIDE DEF m
<1> QED
  BY <1>2, <1>3

\* start_stream
LEMMA OnStreamHeaderInv ==
    ASSUME SessionInv, current_bytes <= max_bytes, NEW x \in Exchange, OnStreamHeader(x)
    PROVE  SessionInv'
<1> DEFINE s == exchange[x].session
           r == session[s]
<1>1. exchange[x].state = "waiting" /\ exchange[x].state \in Running
  BY DEF OnStreamHeader, At, Running
<1>2. PICK close \in BOOLEAN, bytes \in {0, Min({max_body_bytes, max_bytes - current_bytes})} :
          /\ session' = [session EXCEPT ![s] = WriteStreamHeader(@, close \/ LastRequest(@))]
          /\ exchange' = [exchange EXCEPT ![x].state = "stream_writing", ![x].body = bytes]
          /\ current_bytes' = current_bytes + bytes
  BY DEF OnStreamHeader
<1>3. UNCHANGED active_proxies
  BY DEF OnStreamHeader
<1>4. /\ s \in Session /\ r \in SessionRecords /\ exchange[x] \in ExchangeRecords
      /\ r.exchange = x /\ r.silent = FALSE /\ r.op # "write" /\ r.request = 0 /\ r.response = 0
      /\ r.proxy_permit = TRUE
      /\ r.completed = FALSE /\ r.responses = 0 /\ exchange[x].shares = FALSE
  BY <1>1, RunningIs, ZenonT(60)
<1>5. /\ session \in [Session -> SessionRecords] /\ exchange \in [Exchange -> ExchangeRecords]
      /\ current_bytes \in Nat /\ active_proxies \in Nat
  BY <1>4, SessionIs
<1>6. bytes \in Nat
  <2>1. max_body_bytes \in Nat /\ max_bytes - current_bytes \in Nat
    BY <1>5, SessionLimitsAssumption
  <2> QED
    BY <2>1, MinIs
<1> DEFINE c == close \/ LastRequest(r)
           w == WriteStreamHeader(r, c)
           e == [exchange[x] EXCEPT !.state = "stream_writing", !.body = bytes]
<1>8. c \in BOOLEAN
  BY Zenon
<1>9. session' = [session EXCEPT ![s] = w]
  BY <1>2, <1>4, <1>5
<1> HIDE DEF c, r
<1>11. /\ w \in SessionRecords /\ w.phase = "writing" /\ w.op = "stream_header" /\ w.completed = TRUE
       /\ w.responses = 1 /\ w.exchange = x /\ w.proxy_permit = TRUE /\ w.silent = FALSE
       /\ w.request = 0 /\ w.response = 0
  BY <1>4, <1>8, WriteStreamHeaderIs, ZenonT(60)
<1>12. e \in ExchangeRecords /\ e.state = "stream_writing" /\ e.session = s /\ e.shares = FALSE
  BY <1>4, <1>6 DEF ExchangeRecords, Running
<1>13. exchange' = [exchange EXCEPT ![x] = e]
  BY <1>2, <1>5
<1> HIDE DEF w, e, s
<1>14. x # None
  BY SessionSetsAssumption
<1>15. RecordOK(w)
  BY <1>11, <1>14 DEF RecordOK, StreamOps
<1>19. exchange'[x] = e /\ session'[s] = w
  BY <1>4, <1>5, <1>9, <1>13
<1>16. Linked(s, w, exchange')
  BY <1>11, <1>12, <1>14, <1>19 DEF Linked, StreamOps, Live
<1>17. ExchangeOK(x, e, session')
  BY <1>4, <1>11, <1>12, <1>19 DEF ExchangeOK
<1>18. current_bytes' \in Nat /\ active_proxies' \in Nat
  BY <1>2, <1>3, <1>5, <1>6
<1>20. exchange[x].session = s /\ session[s].exchange = x /\ session[s].op # "write"
  BY <1>4 DEF s, r
<1> QED
  BY <1>4, <1>9, <1>11, <1>12, <1>13, <1>15, <1>16, <1>17, <1>18, <1>20, ExchangeStepInv

\* write_stream_body
LEMMA OnStreamBodyInv ==
    ASSUME SessionInv, NEW x \in Exchange, OnStreamBody(x)
    PROVE  SessionInv'
<1> DEFINE s == exchange[x].session
           r == session[s]
<1>1. exchange[x].state = "stream_reading" /\ exchange[x].state \in Running
  BY DEF OnStreamBody, At, Running
<1>2. /\ session' = [session EXCEPT ![s].op = "stream_body"]
      /\ exchange' = [exchange EXCEPT ![x].state = "stream_writing"]
      /\ UNCHANGED <<current_bytes, active_proxies>>
  BY DEF OnStreamBody
<1>4. /\ s \in Session /\ r \in SessionRecords /\ exchange[x] \in ExchangeRecords
      /\ r.exchange = x /\ r.silent = FALSE /\ r.op # "write" /\ r.request = 0 /\ r.response = 0
      /\ r.proxy_permit = TRUE /\ Unfinished(s)
      /\ r.completed = TRUE /\ r.responses = 1 /\ exchange[x].shares = FALSE
  BY <1>1, RunningIs, ZenonT(60)
<1>5. /\ session \in [Session -> SessionRecords] /\ exchange \in [Exchange -> ExchangeRecords]
      /\ current_bytes \in Nat /\ active_proxies \in Nat
  BY <1>4, SessionIs
<1> DEFINE w == [r EXCEPT !.op = "stream_body"]
           e == [exchange[x] EXCEPT !.state = "stream_writing"]
<1>9. session' = [session EXCEPT ![s] = w] /\ exchange' = [exchange EXCEPT ![x] = e]
  BY <1>2, <1>4, <1>5
<1>10. r.phase \notin {"free", "finished"}
  BY <1>4 DEF Unfinished
<1> HIDE DEF r
<1>11. /\ w \in SessionRecords /\ w.phase = r.phase /\ w.op = "stream_body" /\ w.completed = TRUE
       /\ w.responses = 1 /\ w.exchange = x /\ w.proxy_permit = TRUE /\ w.silent = FALSE
       /\ w.request = 0 /\ w.response = 0
  BY <1>4 DEF SessionRecords, SessionOps, StreamOps
<1>12. e \in ExchangeRecords /\ e.state = "stream_writing" /\ e.session = s /\ e.shares = FALSE
  BY <1>4 DEF ExchangeRecords, Running
<1> HIDE DEF w, e, s
<1>14. x # None
  BY SessionSetsAssumption
<1>15. RecordOK(w)
  BY <1>10, <1>11, <1>14 DEF RecordOK, StreamOps
<1>19. exchange'[x] = e /\ session'[s] = w
  BY <1>4, <1>5, <1>9
<1>16. Linked(s, w, exchange')
  BY <1>10, <1>11, <1>12, <1>14, <1>19 DEF Linked, StreamOps, Live
<1>17. ExchangeOK(x, e, session')
  BY <1>4, <1>11, <1>12, <1>19 DEF ExchangeOK
<1>18. current_bytes' \in Nat /\ active_proxies' \in Nat
  BY <1>2, <1>5
<1>20. exchange[x].session = s /\ session[s].exchange = x /\ session[s].op # "write"
  BY <1>4 DEF s, r
<1> QED
  BY <1>4, <1>9, <1>11, <1>12, <1>15, <1>16, <1>17, <1>18, <1>20, ExchangeStepInv

\* resume() and on_stream_complete
LEMMA OnStreamWrittenInv ==
    ASSUME SessionInv, NEW s \in Session, OnStreamWritten(s)
    PROVE  SessionInv'
<1> DEFINE x == session[s].exchange
           r == [session[s] EXCEPT !.exchange = None, !.proxy_permit = FALSE]
           more == ~r.close /\ ~r.draining
<1>1. session[s].op \in StreamOps /\ Unfinished(s)
  BY DEF OnStreamWritten
<1>2. \/ /\ session' = [session EXCEPT ![s].op = "none"]
         /\ exchange' = [exchange EXCEPT ![x].state = "stream_reading"]
         /\ UNCHANGED <<current_bytes, active_proxies>>
      \/ /\ session' = [session EXCEPT ![s] = IF more THEN ReadRequest(r) ELSE Closing(r)]
         /\ exchange' = [exchange EXCEPT ![x].state = "over"]
         /\ active_proxies' = ProxyReleased(active_proxies)
         /\ UNCHANGED current_bytes
      \/ CloseSocket(s, session[s], "none")
  BY DEF OnStreamWritten
<1>3. /\ session \in [Session -> SessionRecords] /\ exchange \in [Exchange -> ExchangeRecords]
      /\ current_bytes \in Nat /\ active_proxies \in Nat
      /\ session[s] \in SessionRecords /\ RecordOK(session[s]) /\ Linked(s, session[s], exchange)
  BY SessionIs
<1>4. x \in Exchange /\ exchange[x].session = s /\ exchange[x].state \in Running
  <2>1. ~session[s].silent
    BY <1>1, <1>3 DEF RecordOK, StreamOps
  <2>2. x # None
    BY <1>1, <1>3, <2>1 DEF Linked, Live, Unfinished
  <2>3. x \in Exchange
    BY <1>3, <2>2 DEF SessionRecords
  <2> QED
    BY <2>3, OwnExchangeIs
<1>5. /\ exchange[x] \in ExchangeRecords
      /\ session[s].silent = FALSE /\ session[s].op # "write" /\ session[s].request = 0
      /\ session[s].response = 0 /\ session[s].proxy_permit = TRUE /\ exchange[x].shares = FALSE
  <2> HIDE DEF x
  <2> QED
    BY <1>4, RunningIs
<1>6. session[s].completed = TRUE /\ session[s].responses = 1
  <2>1. session[s].completed \in BOOLEAN
    BY <1>3 DEF SessionRecords
  <2> QED
    BY <1>1, <1>3, <2>1 DEF RecordOK
<1>7. x # None
  BY <1>4, SessionSetsAssumption
<1>8. CASE CloseSocket(s, session[s], "none")
  BY <1>1, <1>8, StopInv
<1>9. CASE /\ session' = [session EXCEPT ![s].op = "none"]
           /\ exchange' = [exchange EXCEPT ![x].state = "stream_reading"]
           /\ UNCHANGED <<current_bytes, active_proxies>>
  <2> DEFINE w == [session[s] EXCEPT !.op = "none"]
             e == [exchange[x] EXCEPT !.state = "stream_reading"]
  <2>1. session' = [session EXCEPT ![s] = w] /\ exchange' = [exchange EXCEPT ![x] = e]
    BY <1>3, <1>4, <1>9
  <2>2. session[s].phase \notin {"free", "finished"}
    BY <1>1 DEF Unfinished
  <2>3. /\ w \in SessionRecords /\ w.phase = session[s].phase /\ w.op = "none" /\ w.completed = TRUE
        /\ w.responses = 1 /\ w.exchange = x /\ w.proxy_permit = TRUE /\ w.silent = FALSE
        /\ w.request = 0 /\ w.response = 0
    BY <1>3, <1>5, <1>6 DEF SessionRecords, SessionOps
  <2>4. e \in ExchangeRecords /\ e.state = "stream_reading" /\ e.session = s /\ e.shares = FALSE
    BY <1>4, <1>5 DEF ExchangeRecords, Running
  <2> HIDE DEF w, e
  <2>5. RecordOK(w)
    BY <1>7, <2>2, <2>3 DEF RecordOK, StreamOps
  <2>6. exchange'[x] = e /\ session'[s] = w
    BY <1>3, <1>4, <2>1
  <2>7. Linked(s, w, exchange')
    BY <1>7, <2>2, <2>3, <2>4, <2>6 DEF Linked, StreamOps, Live
  <2>8. ExchangeOK(x, e, session')
    BY <2>3, <2>4, <2>6 DEF ExchangeOK
  <2>9. current_bytes' \in Nat /\ active_proxies' \in Nat
    BY <1>3, <1>9
  <2>10. session[s].exchange = x
    OBVIOUS
  <2> HIDE DEF x
  <2> QED
    BY <1>4, <1>5, <2>1, <2>3, <2>4, <2>5, <2>7, <2>8, <2>9, <2>10, ExchangeStepInv
<1>10. CASE /\ session' = [session EXCEPT ![s] = IF more THEN ReadRequest(r) ELSE Closing(r)]
            /\ exchange' = [exchange EXCEPT ![x].state = "over"]
            /\ active_proxies' = ProxyReleased(active_proxies)
            /\ UNCHANGED current_bytes
  <2> DEFINE w == IF more THEN ReadRequest(r) ELSE Closing(r)
             e == [exchange[x] EXCEPT !.state = "over"]
  <2>1. session' = [session EXCEPT ![s] = w] /\ exchange' = [exchange EXCEPT ![x] = e]
    BY <1>3, <1>4, <1>10
  <2>2. /\ r \in SessionRecords /\ r.request = 0 /\ r.response = 0 /\ r.exchange = None
        /\ r.proxy_permit = FALSE /\ r.completed = TRUE /\ r.responses = 1 /\ r.silent = FALSE
    BY <1>3, <1>5, <1>6 DEF SessionRecords
  <2>3. e \in ExchangeRecords /\ e.state = "over" /\ e.session = s /\ e.shares = FALSE
    BY <1>4, <1>5 DEF ExchangeRecords
  <2> HIDE DEF r, e
  <2>4. /\ w \in SessionRecords /\ RecordOK(w) /\ w.exchange = None
        /\ w.op \in {"read_header", "shutdown"}
    <3>1. CASE more
      <4>1. /\ w \in SessionRecords /\ w.phase = "reading" /\ w.op = "read_header"
            /\ w.completed = FALSE /\ w.responses = 0 /\ w.request = 0 /\ w.response = 0
            /\ w.exchange = None /\ w.proxy_permit = FALSE /\ w.silent = FALSE
        BY <2>2, <3>1, ReadRequestIs
      <4> HIDE DEF w
      <4>2. RecordOK(w)
        BY <4>1 DEF RecordOK, StreamOps
      <4> QED
        BY <4>1, <4>2
    <3>2. CASE ~more
      <4>1. /\ w \in SessionRecords /\ w.phase = "closing" /\ w.op = "shutdown"
            /\ w.completed = TRUE /\ w.responses = 1
            /\ w.exchange = None /\ w.proxy_permit = FALSE /\ w.silent = FALSE
        BY <2>2, <3>2, ClosingIs
      <4> HIDE DEF w
      <4>2. RecordOK(w)
        BY <4>1 DEF RecordOK, StreamOps
      <4> QED
        BY <4>1, <4>2
    <3> QED
      BY <3>1, <3>2
  <2> HIDE DEF w
  <2>5. Linked(s, w, exchange')
    BY <2>4 DEF Linked, StreamOps
  <2>6. ExchangeOK(x, e, session')
    BY <2>3 DEF ExchangeOK, Running
  <2>7. current_bytes' \in Nat /\ active_proxies' \in Nat
    BY <1>3, <1>10, CountersAreNat
  <2>8. session[s].exchange = x
    OBVIOUS
  <2> HIDE DEF x
  <2> QED
    BY <1>4, <1>5, <2>1, <2>3, <2>4, <2>5, <2>6, <2>7, <2>8, ExchangeStepInv
<1> QED
  BY <1>2, <1>8, <1>9, <1>10

\* The exchange is destroyed.
LEMMA ExchangeReleasedInv ==
    ASSUME SessionInv, NEW x \in Exchange, ExchangeReleased(x)
    PROVE  SessionInv'
<1> DEFINE s == exchange[x].session
<1>1. /\ exchange[x].state = "over" /\ exchange' = [exchange EXCEPT ![x] = NoExchange]
      /\ UNCHANGED <<session, active_proxies>>
      /\ current_bytes' = Returned(current_bytes, exchange[x].body +
                             (IF exchange[x].shares THEN 0 ELSE exchange[x].request))
  BY DEF ExchangeReleased, At
<1>2. exchange[x] \in ExchangeRecords /\ ExchangeOK(x, exchange[x], session)
  BY TypeIs DEF SessionInv
<1>3. s \in Session
  BY <1>1, <1>2 DEF ExchangeOK
<1>4. /\ session \in [Session -> SessionRecords] /\ exchange \in [Exchange -> ExchangeRecords]
      /\ current_bytes \in Nat /\ active_proxies \in Nat
      /\ session[s] \in SessionRecords /\ RecordOK(session[s]) /\ Linked(s, session[s], exchange)
  BY <1>3, SessionIs
<1>5. session[s].exchange # x
  <2>1. exchange[x].state \notin Running
    BY <1>1 DEF Running
  <2> QED
    BY <1>3, <2>1, OwnExchangeIs
<1>6. Linked(s, session[s], exchange')
  <2>1. CASE session[s].exchange = None
    BY <1>4, <2>1 DEF Linked
  <2>2. CASE session[s].exchange # None
    <3>1. session[s].exchange \in Exchange
      BY <1>4, <2>2 DEF SessionRecords
    <3>2. exchange'[session[s].exchange] = exchange[session[s].exchange]
      BY <1>1, <1>4, <1>5, <3>1
    <3> HIDE DEF s
    <3> QED
      BY <1>4, <3>2 DEF Linked
  <2> QED
    BY <2>1, <2>2
<1>7. ExchangeOK(x, NoExchange, session')
  BY NoExchangeIs DEF ExchangeOK, Running
<1>8. current_bytes' \in Nat /\ active_proxies' \in Nat
  <2>1. exchange[x].body + (IF exchange[x].shares THEN 0 ELSE exchange[x].request) \in Nat
    BY <1>2 DEF ExchangeRecords
  <2> QED
    BY <1>1, <1>4, <2>1, CountersAreNat
<1>9. session' = [session EXCEPT ![s] = session[s]]
  BY <1>1, <1>3, <1>4
<1>10. NoExchange.shares => exchange[x].shares
  BY NoExchangeIs
<1> QED
  BY <1>1, <1>3, <1>4, <1>6, <1>7, <1>8, <1>9, <1>10, NoExchangeIs, ExchangeStepInv

----------------------------------------------------------------------------
(* Every step.                                                             *)

\* A release never raises the counter.
LEMMA ReturnedIs ==
    /\ \A c, b \in Nat : Returned(c, b) \in Nat /\ Returned(c, b) <= c
    /\ \A c, b \in Nat : b <= c => Returned(c, b) = c - b
BY DEF Returned

\* Closing a session gives bytes back.
LEMMA CloseSocketBudget ==
    ASSUME SessionInv, NEW s \in Session, NEW r \in SessionRecords, NEW still, CloseSocket(s, r, still)
    PROVE  current_bytes' \in Nat /\ current_bytes' <= current_bytes
<1>1. current_bytes \in Nat /\ Gives(s, r) \in Nat
  BY SessionIs, GivesIs
<1>2. current_bytes' = Returned(current_bytes, Gives(s, r)) \/ current_bytes' = current_bytes
  BY DEF CloseSocket
<1> QED
  BY <1>1, <1>2, ReturnedIs

\* process_request leaves the budget it was given.
LEMMA ProcessRequestBudget ==
    ASSUME NEW s, NEW r, NEW current, ProcessRequest(s, r, current)
    PROVE  current_bytes' = current
BY DEF ProcessRequest, StartExchange, StartExchangeThrows, Answer, AnswerThrows, Becomes

\* No step passes the budget: what is taken was asked for, or is what was left.
LEMMA BudgetStep ==
    ASSUME SessionInv, current_bytes <= max_bytes, SessionNext
    PROVE  current_bytes' <= max_bytes
<1>1. max_bytes \in Nat /\ max_body_bytes \in Nat
  BY SessionLimitsAssumption
<1>2. current_bytes \in Nat
  BY TypeIs DEF SessionInv
<1>3. ASSUME current_bytes' \in Nat, current_bytes' <= current_bytes
      PROVE  current_bytes' <= max_bytes
  BY <1>1, <1>2, <1>3
<1>4. ASSUME NEW s \in Session, NEW r \in SessionRecords, NEW still, CloseSocket(s, r, still)
      PROVE  current_bytes' <= max_bytes
  BY <1>3, <1>4, CloseSocketBudget
<1>5. ASSUME NEW s \in Session
      PROVE  session[s] \in SessionRecords /\ [session[s] EXCEPT !.draining = TRUE] \in SessionRecords
  <2>1. session[s] \in SessionRecords
    BY SessionIs
  <2> QED
    BY <2>1 DEF SessionRecords
<1>6. ASSUME NEW b \in Nat, current_bytes' = Returned(current_bytes, b)
      PROVE  current_bytes' <= max_bytes
  BY <1>2, <1>3, <1>6, ReturnedIs
<1>7. ASSUME NEW s \in Session, StartSession(s) \/ BeginDrain(s) \/ StopSession(s)
      PROVE  current_bytes' <= max_bytes
  <2>1. CASE current_bytes' = current_bytes
    BY <2>1
  <2>2. CASE ~(current_bytes' = current_bytes)
    <3>1. PICK r \in SessionRecords, still \in {session[s].op} : CloseSocket(s, r, still)
      <4>1. CASE BeginDrain(s)
        BY <1>5, <2>2, <4>1 DEF BeginDrain, Becomes
      <4>2. CASE StopSession(s)
        BY <1>5, <4>2 DEF StopSession
      <4>3. ~StartSession(s)
        BY <2>2 DEF StartSession, Becomes
      <4> QED
        BY <1>7, <4>1, <4>2, <4>3
    <3> QED
      BY <1>4, <3>1
  <2> QED
    BY <2>1, <2>2
<1>8. ASSUME NEW s \in Session, SessionHandler(s)
      PROVE  current_bytes' <= max_bytes
  <2>1. CASE OnOperationFails(s) \/ OnShutdown(s)
    BY <1>4, <1>5, <2>1 DEF OnOperationFails, OnShutdown
  <2>2. CASE OnHandshake(s)
    BY <2>2 DEF OnHandshake, Becomes
  <2>3. CASE OnBadRequest(s)
    <3>1. current_bytes' = current_bytes \/ CloseSocket(s, session[s], "none")
      BY <2>3 DEF OnBadRequest, Becomes
    <3> QED
      BY <1>4, <1>5, <3>1
  <2>4. CASE OnReadHeader(s)
    <3>1. \/ ProcessRequest(s, session[s], current_bytes)
          \/ \E bytes \in Reservations : Fits(bytes) /\ current_bytes' = current_bytes + bytes
          \/ current_bytes' = current_bytes
      BY <2>4 DEF OnReadHeader, Becomes
    <3>2. CASE ProcessRequest(s, session[s], current_bytes)
      BY <3>2, ProcessRequestBudget
    <3>3. CASE \E bytes \in Reservations : Fits(bytes) /\ current_bytes' = current_bytes + bytes
      BY <1>1, <1>2, <3>3 DEF Fits, Reservations
    <3> QED
      BY <3>1, <3>2, <3>3
  <2>5. CASE OnReadBody(s)
    <3>1. PICK bytes \in 0 .. session[s].request :
             ProcessRequest(s, [session[s] EXCEPT !.request = bytes],
                            Returned(current_bytes, session[s].request - bytes))
      BY <2>5 DEF OnReadBody
    <3>2. session[s].request \in Nat
      BY <1>5 DEF SessionRecords
    <3>3. session[s].request - bytes \in Nat
      BY <3>2
    <3>4. current_bytes' = Returned(current_bytes, session[s].request - bytes)
      BY <3>1, ProcessRequestBudget
    <3> QED
      BY <1>6, <3>3, <3>4
  <2>6. CASE OnWrite(s)
    <3>1. CloseSocket(s, session[s], "none") \/ current_bytes' = Returned(current_bytes, Gives(s, session[s]))
      BY <2>6 DEF OnWrite
    <3>2. Gives(s, session[s]) \in Nat
      BY <1>5, GivesIs
    <3> QED
      BY <1>4, <1>5, <1>6, <3>1, <3>2
  <2>7. CASE OnStreamWritten(s)
    <3>1. current_bytes' = current_bytes \/ CloseSocket(s, session[s], "none")
      BY <2>7 DEF OnStreamWritten
    <3> QED
      BY <1>4, <1>5, <3>1
  <2>8. CASE LateHandler(s)
    <3>1. current_bytes' = Returned(current_bytes, Gives(s, session[s]))
      BY <2>8 DEF LateHandler
    <3>2. Gives(s, session[s]) \in Nat
      BY <1>5, GivesIs
    <3> QED
      BY <1>6, <3>1, <3>2
  <2> QED
    BY <1>8, <2>1, <2>2, <2>3, <2>4, <2>5, <2>6, <2>7, <2>8 DEF SessionHandler
<1>9. ASSUME NEW x \in Exchange, ExchangeHandler(x)
      PROVE  current_bytes' <= max_bytes
  <2>0. exchange[x] \in ExchangeRecords /\ exchange[x].body \in Nat /\ exchange[x].request \in Nat
    BY TypeIs DEF SessionInv, ExchangeRecords
  <2>1. CASE ExchangeReserves(x)
    BY <1>1, <1>2, <2>1 DEF ExchangeReserves, Fits, Reservations
  <2>2. ASSUME NEW failed \in BOOLEAN, OnProxyComplete(x, failed)
        PROVE  current_bytes' <= max_bytes
    <3> DEFINE kept == IF failed THEN exchange[x].body ELSE 0
    <3>1. PICK bytes \in 0 .. (exchange[x].body - kept) :
             current_bytes' = Returned(current_bytes, exchange[x].body - kept - bytes)
      BY <2>2 DEF OnProxyComplete
    <3>2. exchange[x].body - kept - bytes \in Nat
      BY <2>0
    <3> HIDE DEF kept
    <3> QED
      BY <1>6, <3>1, <3>2
  <2>3. CASE OnStreamHeader(x)
    <3>1. PICK bytes \in {0, Min({max_body_bytes, max_bytes - current_bytes})} :
             current_bytes' = current_bytes + bytes
      BY <2>3 DEF OnStreamHeader
    <3>2. max_bytes - current_bytes \in Nat
      BY <1>1, <1>2
    <3>3. bytes \in Nat /\ bytes <= max_bytes - current_bytes
      BY <1>1, <3>2, MinIs
    <3> QED
      BY <1>1, <1>2, <3>1, <3>3
  <2>4. CASE OnStreamBody(x)
    BY <2>4 DEF OnStreamBody
  <2>5. ASSUME exchange[x].state \in Running, OnExchangeAborted(x)
        PROVE  current_bytes' <= max_bytes
    <3> DEFINE s == exchange[x].session
    <3>1. s \in Session
      BY <2>5, RunningIs
    <3>2. CloseSocket(s, session[s], session[s].op)
      BY <2>5 DEF OnExchangeAborted
    <3> HIDE DEF s
    <3> QED
      BY <1>4, <1>5, <3>1, <3>2
  <2>6. CASE ExchangeReleased(x)
    <3>1. current_bytes' = Returned(current_bytes, exchange[x].body +
                              (IF exchange[x].shares THEN 0 ELSE exchange[x].request))
      BY <2>6 DEF ExchangeReleased
    <3>2. exchange[x].body + (IF exchange[x].shares THEN 0 ELSE exchange[x].request) \in Nat
      BY <2>0
    <3> QED
      BY <1>6, <3>1, <3>2
  <2>7. CASE OnExchangeAborted(x)
    BY <2>5, <2>7 DEF OnExchangeAborted
  <2>8. CASE OnExchangeFails(x)
    BY <2>2, <2>7, <2>8 DEF OnExchangeFails
  <2>9. CASE OnProxyComplete(x, FALSE)
    BY <2>2, <2>9
  <2> QED
    BY <1>9, <2>1, <2>3, <2>4, <2>6, <2>7, <2>8, <2>9 DEF ExchangeHandler
<1> QED
  BY <1>7, <1>8, <1>9 DEF SessionNext

\* Every step keeps the invariant.
LEMMA SessionStep ==
    ASSUME SessionInv, current_bytes <= max_bytes, SessionNext
    PROVE  SessionInv'
<1>1. ASSUME NEW s \in Session, StartSession(s) \/ BeginDrain(s) \/ StopSession(s)
      PROVE  SessionInv'
  <2>1. CASE StopSession(s)
    BY <2>1, StopInv DEF StopSession
  <2> QED
    BY <1>1, <2>1, StartSessionInv, BeginDrainInv
<1>2. ASSUME NEW s \in Session, SessionHandler(s)
      PROVE  SessionInv'
  <2>1. CASE OnOperationFails(s)
    BY <2>1, StopInv DEF OnOperationFails
  <2>2. CASE OnShutdown(s)
    BY <2>2, StopInv DEF OnShutdown, Done
  <2> QED
    BY <1>2, <2>1, <2>2, OnHandshakeInv, OnBadRequestInv, OnReadHeaderInv, OnReadBodyInv, OnWriteInv,
       OnStreamWrittenInv, LateHandlerInv DEF SessionHandler
<1>3. ASSUME NEW x \in Exchange, ExchangeHandler(x)
      PROVE  SessionInv'
  <2>1. CASE OnExchangeAborted(x)
    <3> DEFINE s == exchange[x].session
    <3>1. exchange[x].state \in Running /\ CloseSocket(s, session[s], session[s].op)
      BY <2>1 DEF OnExchangeAborted
    <3>2. s \in Session /\ Unfinished(s)
      BY <3>1, RunningIs
    <3> HIDE DEF s
    <3> QED
      BY <3>1, <3>2, StopInv
  <2>2. CASE OnExchangeFails(x)
    BY <2>1, <2>2, OnProxyCompleteInv DEF OnExchangeFails
  <2>3. CASE OnProxyComplete(x, FALSE)
    BY <2>3, OnProxyCompleteInv
  <2> QED
    BY <1>3, <2>1, <2>2, <2>3, ExchangeReservesInv, OnStreamHeaderInv, OnStreamBodyInv, ExchangeReleasedInv
       DEF ExchangeHandler
<1> QED
  BY <1>1, <1>2, <1>3 DEF SessionNext

WithinBudget == SessionInv /\ current_bytes <= max_bytes

\* The invariant holds from the start.
LEMMA SessionInitInv ==
    ASSUME SessionInit
    PROVE  WithinBudget
<1>1. /\ session = [s \in Session |-> Fresh] /\ exchange = [x \in Exchange |-> NoExchange]
      /\ current_bytes = 0 /\ active_proxies = 0
  BY DEF SessionInit
<1>2. session \in [Session -> SessionRecords] /\ exchange \in [Exchange -> ExchangeRecords]
  BY <1>1, FreshIs, NoExchangeIs
<1>3. SessionTypeOK
  BY <1>1, <1>2, TypeIs
<1>4. ASSUME NEW s \in Session
      PROVE  RecordOK(session[s]) /\ Linked(s, session[s], exchange) /\ OneShare(s, exchange)
  <2>1. session[s] = Fresh
    BY <1>1
  <2>2. Linked(s, Fresh, exchange)
    BY FreshIs DEF Linked, Live
  <2>3. \A x \in Exchange : ~exchange[x].shares
    BY <1>1, NoExchangeIs
  <2>4. OneShare(s, exchange)
    BY <2>3, Zenon DEF OneShare
  <2> QED
    BY <2>1, <2>2, <2>4, FreshIs
<1>5. ASSUME NEW x \in Exchange
      PROVE  ExchangeOK(x, exchange[x], session)
  <2>1. exchange[x] = NoExchange
    BY <1>1
  <2>2. ExchangeOK(x, NoExchange, session)
    BY NoExchangeIs DEF ExchangeOK, Running
  <2> QED
    BY <2>1, <2>2
<1>6. current_bytes <= max_bytes
  BY <1>1, SessionLimitsAssumption
<1> QED
  BY <1>3, <1>4, <1>5, <1>6 DEF WithinBudget, SessionInv

\* Every reachable state keeps the types, what a session's members say about
\* each other, the links between sessions and exchanges, and the byte budget.
THEOREM SessionInvariance == SessionSafety => []WithinBudget
<1>1. SessionInit => WithinBudget
  BY SessionInitInv
<1>2. WithinBudget /\ [SessionNext]_sessionStateVars => WithinBudget'
  <2> SUFFICES ASSUME WithinBudget, [SessionNext]_sessionStateVars
               PROVE  WithinBudget'
    OBVIOUS
  <2>1. CASE SessionNext
    BY <2>1, SessionStep, BudgetStep DEF WithinBudget
  <2>2. CASE UNCHANGED sessionStateVars
    BY <2>2 DEF WithinBudget, sessionStateVars, SessionInv, SessionTypeOK
  <2> QED
    BY <2>1, <2>2
<1> QED
  BY <1>1, <1>2, PTL DEF SessionSafety

\* Every request is answered at most once, whatever comes together: for every
\* number of connections and all limits.  That a response is counted just when
\* its request is completed has to be known with it.
THEOREM OneResponseTheorem == SessionSafety => []OneResponse
<1>1. WithinBudget => OneResponse
  <2> SUFFICES ASSUME WithinBudget, NEW s \in Session
               PROVE  /\ session[s].responses <= 1
                      /\ session[s].op \in {"write"} \cup StreamOps =>
                            session[s].completed /\ session[s].responses = 1
                      /\ Idle(s) => ~session[s].completed
    BY DEF OneResponse
  <2>1. session[s] \in SessionRecords /\ RecordOK(session[s])
    BY SessionIs DEF WithinBudget
  <2>2. session[s].responses = 0 \/ session[s].responses = 1
    BY <2>1 DEF RecordOK
  <2>3. session[s].responses <= 1
    BY <2>2
  <2> QED
    BY <2>1, <2>3 DEF RecordOK, Idle
<1> QED
  BY <1>1, SessionInvariance, PTL

\* No connection is left without progress, but for the session whose second
\* response was dropped: it awaits an operation or a running exchange of its own.
THEOREM AttendedTheorem == SessionSafety => []Attended
<1>1. WithinBudget => Attended
  <2> SUFFICES ASSUME WithinBudget, NEW s \in Session, Unfinished(s), ~session[s].silent,
                      session[s].op = "none"
               PROVE  \E x \in Exchange : /\ x = session[s].exchange
                                          /\ exchange[x].session = s
                                          /\ exchange[x].state \in {"waiting", "stream_reading"}
    BY DEF Attended, Awaits
  <2>1. session[s] \in SessionRecords /\ Linked(s, session[s], exchange)
    BY SessionIs DEF WithinBudget
  <2>2. session[s].exchange # None
    BY <2>1 DEF Linked, Live, Unfinished
  <2>3. session[s].exchange \in Exchange
    BY <2>1, <2>2 DEF SessionRecords
  <2>4. /\ exchange[session[s].exchange].session = s
        /\ exchange[session[s].exchange].state \in {"waiting", "stream_reading"}
    BY <2>1, <2>2 DEF Linked
  <2> QED
    BY <2>3, <2>4
<1> QED
  BY <1>1, SessionInvariance, PTL

----------------------------------------------------------------------------
(* Counting bytes.                                                         *)

Part(h, p) == {p} \X (1 .. h[p])
Parts(h)   == UNION {Part(h, p) : p \in DOMAIN h}

\* What one holder holds.
LEMMA PartIs ==
    ASSUME NEW S, NEW h \in [S -> Nat], NEW p \in S
    PROVE  IsFiniteSet(Part(h, p)) /\ Cardinality(Part(h, p)) = h[p]
<1>1. h[p] \in Nat
  OBVIOUS
<1> DEFINE n == h[p]
<1>2. IsFiniteSet(1 .. n) /\ Cardinality(1 .. n) = n
  <2>1. n \in Nat /\ n \in Int /\ 1 \in Int
    BY <1>1
  <2> HIDE DEF n
  <2>2. IsFiniteSet(1 .. n) /\ Cardinality(1 .. n) = IF 1 > n THEN 0 ELSE n - 1 + 1
    BY <2>1, FS_Interval
  <2>3. (IF 1 > n THEN 0 ELSE n - 1 + 1) = n
    BY <2>1
  <2> QED
    BY <2>2, <2>3
<1> HIDE DEF n
<1>3. IsFiniteSet({p}) /\ Cardinality({p}) = 1
  BY FS_Singleton
<1>4. IsFiniteSet({p} \X (1 .. n)) /\ Cardinality({p} \X (1 .. n)) = 1 * n
  <2> DEFINE one == {p}
             many == 1 .. n
  <2>1. IsFiniteSet(one) /\ Cardinality(one) = 1 /\ IsFiniteSet(many) /\ Cardinality(many) = n
    BY <1>2, <1>3
  <2> HIDE DEF one, many
  <2>2. IsFiniteSet(one \X many) /\ Cardinality(one \X many) = Cardinality(one) * Cardinality(many)
    BY <2>1, FS_Product, Zenon
  <2> QED
    BY <2>1, <2>2, Zenon DEF one, many
<1>5. 1 * n = n
  BY <1>1 DEF n
<1> QED
  BY <1>4, <1>5 DEF Part, n

\* Finitely many holders hold finitely many bytes.
LEMMA PartsFinite ==
    ASSUME NEW S, IsFiniteSet(S), NEW h \in [S -> Nat]
    PROVE  IsFiniteSet(Parts(h))
<1> DEFINE f == [p \in S |-> Part(h, p)]
           T == {Part(h, p) : p \in S}
<1>1. f \in Surjection(S, T)
  BY Zenon DEF Surjection
<1> HIDE DEF f
<1>2. IsFiniteSet(T)
  BY <1>1, FS_Surjection
<1>3. \A t \in T : IsFiniteSet(t)
  BY PartIs
<1>4. Parts(h) = UNION T
  BY DEF Parts
<1> HIDE DEF T
<1> QED
  BY <1>2, <1>3, <1>4, FS_UNION

\* When one holder changes, the sum changes by as much.
LEMMA BytesChange ==
    ASSUME NEW S, IsFiniteSet(S), NEW h \in [S -> Nat], NEW g \in [S -> Nat], NEW p \in S,
           \A q \in S : q # p => g[q] = h[q]
    PROVE  /\ Bytes(h) \in Nat /\ Bytes(g) \in Nat /\ h[p] <= Bytes(h)
           /\ Bytes(g) + h[p] = Bytes(h) + g[p]
<1> DEFINE rest == [q \in S \ {p} |-> h[q]]
           R == Parts(rest)
<1>1. IsFiniteSet(R)
  <2>1. IsFiniteSet(S \ {p}) /\ rest \in [S \ {p} -> Nat]
    BY FS_RemoveElement
  <2> HIDE DEF rest
  <2> QED
    BY <2>1, PartsFinite
<1>2. ASSUME NEW k \in [S -> Nat], \A q \in S : q # p => k[q] = h[q]
      PROVE  Bytes(k) \in Nat /\ Bytes(k) = Cardinality(R) + k[p]
  <2>1. Bytes(k) = Cardinality(Parts(k))
    BY Zenon DEF Bytes, Parts, Part
  <2>2. ASSUME NEW q \in S, q # p
        PROVE  Part(k, q) = Part(rest, q)
    BY <1>2, <2>2 DEF Part
  <2>3. DOMAIN k = S /\ DOMAIN rest = S \ {p}
    OBVIOUS
  <2> HIDE DEF rest
  <2>4. Parts(k) = R \cup Part(k, p)
    BY <2>2, <2>3, Zenon DEF Parts
  <2>5. R \cap Part(k, p) = {}
    <3> SUFFICES ASSUME NEW z \in R, z \in Part(k, p) PROVE FALSE
      OBVIOUS
    <3>1. PICK q \in S \ {p} : z \in Part(rest, q)
      BY <2>3 DEF Parts
    <3>2. z[1] = q /\ z[1] = p
      BY <3>1 DEF Part
    <3> QED
      BY <3>1, <3>2
  <2> HIDE DEF R
  <2>6. IsFiniteSet(Part(k, p)) /\ Cardinality(Part(k, p)) = k[p] /\ k[p] \in Nat
    BY <1>2, PartIs
  <2>7. Cardinality(R \cup Part(k, p)) = Cardinality(R) + k[p] - Cardinality({})
    BY <1>1, <2>5, <2>6, FS_Union
  <2>8. Cardinality({}) = 0 /\ Cardinality(R) \in Nat
    BY <1>1, FS_EmptySet, FS_CardinalityType
  <2> QED
    BY <2>1, <2>4, <2>6, <2>7, <2>8
<1>3. Bytes(h) \in Nat /\ Bytes(h) = Cardinality(R) + h[p]
  BY <1>2
<1>4. Bytes(g) \in Nat /\ Bytes(g) = Cardinality(R) + g[p]
  BY <1>2
<1>5. Cardinality(R) \in Nat /\ h[p] \in Nat /\ g[p] \in Nat
  BY <1>1, FS_CardinalityType
<1> HIDE DEF R
<1> QED
  BY <1>3, <1>4, <1>5

\* The sum is a number, and nothing when nobody holds anything.
LEMMA BytesIs ==
    ASSUME NEW S, IsFiniteSet(S), NEW h \in [S -> Nat]
    PROVE  Bytes(h) \in Nat /\ ((\A p \in S : h[p] = 0) => Bytes(h) = 0)
<1>1. Bytes(h) = Cardinality(Parts(h))
  BY Zenon DEF Bytes, Parts, Part
<1>2. Bytes(h) \in Nat
  BY <1>1, PartsFinite, FS_CardinalityType
<1>3. ASSUME \A p \in S : h[p] = 0
      PROVE  Bytes(h) = 0
  <2>1. ASSUME NEW p \in S
        PROVE  Part(h, p) = {}
    BY <1>3 DEF Part
  <2>2. Parts(h) = {}
    BY <2>1 DEF Parts
  <2> QED
    BY <1>1, <2>2, FS_EmptySet
<1> QED
  BY <1>2, <1>3

----------------------------------------------------------------------------
(* The accounts.                                                           *)

Own(s)  == Gives(s, session[s])
Hold(x) == exchange[x].request + exchange[x].body
Owned   == [s \in Session |-> Own(s)]
Held    == [x \in Exchange |-> Hold(x)]
Proxies == {s \in Session : session[s].proxy_permit}

Accounted ==
    /\ current_bytes = Bytes(Owned) + Bytes(Held)
    /\ active_proxies = Cardinality(Proxies) /\ active_proxies <= max_proxies

\* Only the session s changes, and exchanges that are its own, or new.
StepOf(s) ==
    /\ \A t \in Session : t # s => session'[t] = session[t]
    /\ \A x \in Exchange :
          \/ exchange'[x] = exchange[x]
          \/ /\ exchange[x].session = s \/ exchange[x].state = "free"
             /\ exchange'[x].session = s \/ exchange'[x] = NoExchange

\* A session keeps its proxy permit, takes one or gives it back.
ProxyStep(s) ==
    \/ session'[s].proxy_permit = session[s].proxy_permit /\ active_proxies' = active_proxies
    \/ /\ session[s].proxy_permit = FALSE /\ session'[s].proxy_permit = TRUE
       /\ active_proxies < max_proxies /\ active_proxies' = active_proxies + 1
    \/ /\ session[s].proxy_permit = TRUE /\ session'[s].proxy_permit = FALSE
       /\ active_proxies' = ProxyReleased(active_proxies)

\* What the accounts sum up are numbers of bytes.
LEMMA AccountsAreNat ==
    ASSUME SessionInv
    PROVE  Owned \in [Session -> Nat] /\ Held \in [Exchange -> Nat]
<1>1. ASSUME NEW s \in Session
      PROVE  Own(s) \in Nat
  BY SessionIs, GivesIs DEF Own
<1>2. ASSUME NEW x \in Exchange
      PROVE  Hold(x) \in Nat
  <2>1. exchange[x] \in ExchangeRecords
    BY TypeIs DEF SessionInv
  <2> QED
    BY <2>1 DEF Hold, ExchangeRecords
<1> QED
  BY <1>1, <1>2 DEF Owned, Held

\* The same after a step.
LEMMA AccountsStayNat ==
    SessionInv' => (Owned \in [Session -> Nat] /\ Held \in [Exchange -> Nat])'
<1>1. SessionInv => Owned \in [Session -> Nat] /\ Held \in [Exchange -> Nat]
  BY AccountsAreNat
<1> QED
  BY <1>1, PTL

\* What a session owns.
LEMMA OwnIs ==
    ASSUME NEW s
    PROVE  /\ Own(s) = (IF Shares(s) = {} THEN session[s].request ELSE 0) + session[s].response
           /\ Own(s)' = (IF Shares(s)' = {} THEN session'[s].request ELSE 0) + session'[s].response
BY DEF Own, Gives

\* No session owns more than is reserved.
LEMMA OwnBounded ==
    ASSUME SessionInv, Accounted, NEW s \in Session
    PROVE  Own(s) \in Nat /\ Own(s) <= current_bytes
<1>1. Owned \in [Session -> Nat] /\ Held \in [Exchange -> Nat] /\ Owned[s] = Own(s)
  BY AccountsAreNat DEF Owned
<1>2. IsFiniteSet(Session) /\ IsFiniteSet(Exchange)
  BY SessionSetsAssumption
<1>3. Bytes(Owned) \in Nat /\ Owned[s] <= Bytes(Owned) /\ Bytes(Held) \in Nat
  BY <1>1, <1>2, BytesChange, BytesIs
<1>4. Own(s) \in Nat
  BY <1>1
<1> QED
  BY <1>1, <1>3, <1>4 DEF Accounted

\* No exchange holds more than is left to it.
LEMMA HoldBounded ==
    ASSUME SessionInv, Accounted, NEW x \in Exchange
    PROVE  Hold(x) \in Nat /\ Hold(x) <= current_bytes
<1>1. Owned \in [Session -> Nat] /\ Held \in [Exchange -> Nat] /\ Held[x] = Hold(x)
  BY AccountsAreNat DEF Held
<1>2. IsFiniteSet(Session) /\ IsFiniteSet(Exchange)
  BY SessionSetsAssumption
<1>3. Bytes(Owned) \in Nat /\ Held[x] <= Bytes(Held) /\ Bytes(Held) \in Nat
  BY <1>1, <1>2, BytesChange, BytesIs
<1>4. Hold(x) \in Nat
  BY <1>1
<1> QED
  BY <1>1, <1>3, <1>4 DEF Accounted

\* What another session owns does not change.
LEMMA OthersOwn ==
    ASSUME SessionInv, NEW s \in Session, StepOf(s), NEW t \in Session, t # s
    PROVE  Own(t)' = Own(t)
<1>1. ASSUME NEW x \in Exchange
      PROVE  (exchange'[x].session = t /\ exchange'[x].shares) <=>
             (exchange[x].session = t /\ exchange[x].shares)
  <2>1. CASE exchange'[x] = exchange[x]
    BY <2>1, Zenon
  <2>2. CASE /\ exchange[x].session = s \/ exchange[x].state = "free"
             /\ exchange'[x].session = s \/ exchange'[x] = NoExchange
    <3>1. ExchangeOK(x, exchange[x], session)
      BY SessionIs
    <3>2. ~(exchange[x].session = t /\ exchange[x].shares)
      BY <2>2, <3>1, NoExchangeIs DEF ExchangeOK
    <3>3. ~(exchange'[x].session = t /\ exchange'[x].shares)
      BY <2>2, NoExchangeIs
    <3> QED
      BY <3>2, <3>3, Zenon
  <2> QED
    BY <2>1, <2>2 DEF StepOf
<1>2. Shares(t)' = Shares(t)
  BY <1>1, Zenon DEF Shares
<1>3. session'[t] = session[t]
  BY DEF StepOf
<1> QED
  BY <1>2, <1>3, OwnIs

\* What the session owns changes the counter by as much, and no exchange holds
\* more or less.
LEMMA SessionBalance ==
    ASSUME SessionInv, SessionInv', Accounted, NEW s \in Session, StepOf(s),
           \A x \in Exchange : Hold(x)' = Hold(x),
           current_bytes' + Own(s) = current_bytes + Own(s)'
    PROVE  current_bytes' = Bytes(Owned') + Bytes(Held')
<1>1. /\ Owned \in [Session -> Nat] /\ Held \in [Exchange -> Nat]
      /\ Owned' \in [Session -> Nat] /\ Held' \in [Exchange -> Nat]
  BY AccountsAreNat, AccountsStayNat
<1>2. \A t \in Session : Owned[t] = Own(t) /\ Owned'[t] = Own(t)'
  BY DEF Owned
<1>3. Held' = Held
  BY DEF Held
<1>4. \A t \in Session : t # s => Owned'[t] = Owned[t]
  BY <1>2, OthersOwn
<1>5. IsFiniteSet(Session) /\ IsFiniteSet(Exchange)
  BY SessionSetsAssumption
<1>6. /\ Bytes(Owned) \in Nat /\ Bytes(Owned') \in Nat
      /\ Bytes(Owned') + Owned[s] = Bytes(Owned) + Owned'[s]
  BY <1>1, <1>4, <1>5, BytesChange
<1>7. Bytes(Held) \in Nat /\ Bytes(Held') = Bytes(Held)
  BY <1>1, <1>3, <1>5, BytesIs
<1>8. current_bytes \in Nat /\ current_bytes' \in Nat
  BY DEF SessionInv, SessionTypeOK
<1>9. Own(s) \in Nat /\ Own(s)' \in Nat /\ Own(s) = Owned[s] /\ Own(s)' = Owned'[s]
  BY <1>1, <1>2
<1>10. current_bytes = Bytes(Owned) + Bytes(Held)
  BY DEF Accounted
<1> DEFINE a == Own(s)
           b == Own(s)'
<1>11. a \in Nat /\ b \in Nat /\ Bytes(Owned') + a = Bytes(Owned) + b /\ current_bytes' + a = current_bytes + b
  BY <1>6, <1>9
<1> HIDE DEF a, b
<1> QED
  BY <1>6, <1>7, <1>8, <1>10, <1>11

\* Two accounts and their sum.
LEMMA TwoAccounts ==
    ASSUME NEW a \in Nat, NEW b \in Nat, NEW c \in Nat, NEW d \in Nat, NEW o \in Nat, NEW p \in Nat,
           NEW h \in Nat, NEW i \in Nat, NEW n \in Nat,
           p + a = o + b, i + c = h + d, n + a + c = o + h + b + d
    PROVE  n = p + i
OBVIOUS

\* The same when one exchange holds more or less.
LEMMA ExchangeBalance ==
    ASSUME SessionInv, SessionInv', Accounted, NEW s \in Session, StepOf(s), NEW x \in Exchange,
           \A y \in Exchange : y # x => Hold(y)' = Hold(y),
           current_bytes' + Own(s) + Hold(x) = current_bytes + Own(s)' + Hold(x)'
    PROVE  current_bytes' = Bytes(Owned') + Bytes(Held')
<1>1. /\ Owned \in [Session -> Nat] /\ Held \in [Exchange -> Nat]
      /\ Owned' \in [Session -> Nat] /\ Held' \in [Exchange -> Nat]
  BY AccountsAreNat, AccountsStayNat
<1>2. \A t \in Session : Owned[t] = Own(t) /\ Owned'[t] = Own(t)'
  BY DEF Owned
<1>3. \A y \in Exchange : Held[y] = Hold(y) /\ Held'[y] = Hold(y)'
  BY DEF Held
<1>4. \A t \in Session : t # s => Owned'[t] = Owned[t]
  BY <1>2, OthersOwn
<1>5. IsFiniteSet(Session) /\ IsFiniteSet(Exchange)
  BY SessionSetsAssumption
<1>6. /\ Bytes(Owned) \in Nat /\ Bytes(Owned') \in Nat
      /\ Bytes(Owned') + Owned[s] = Bytes(Owned) + Owned'[s]
  BY <1>1, <1>4, <1>5, BytesChange
<1>7. /\ Bytes(Held) \in Nat /\ Bytes(Held') \in Nat
      /\ Bytes(Held') + Held[x] = Bytes(Held) + Held'[x]
  BY <1>1, <1>3, <1>5, BytesChange
<1>8. current_bytes \in Nat /\ current_bytes' \in Nat
  BY DEF SessionInv, SessionTypeOK
<1>9. Own(s) \in Nat /\ Own(s)' \in Nat /\ Own(s) = Owned[s] /\ Own(s)' = Owned'[s]
  BY <1>1, <1>2
<1>10. Hold(x) \in Nat /\ Hold(x)' \in Nat /\ Hold(x) = Held[x] /\ Hold(x)' = Held'[x]
  BY <1>1, <1>3
<1>11. current_bytes = Bytes(Owned) + Bytes(Held)
  BY DEF Accounted
<1> DEFINE a == Own(s)
           b == Own(s)'
           c == Hold(x)
           d == Hold(x)'
<1>12. /\ a \in Nat /\ b \in Nat /\ c \in Nat /\ d \in Nat
       /\ Bytes(Owned') + a = Bytes(Owned) + b /\ Bytes(Held') + c = Bytes(Held) + d
       /\ current_bytes' + a + c = current_bytes + b + d
  BY <1>6, <1>7, <1>9, <1>10
<1> DEFINE o == Bytes(Owned)
           p == Bytes(Owned')
           h == Bytes(Held)
           i == Bytes(Held')
           n == current_bytes'
<1>13. o \in Nat /\ p \in Nat /\ h \in Nat /\ i \in Nat /\ p + a = o + b /\ i + c = h + d
  BY <1>6, <1>7, <1>12
<1>14. current_bytes = o + h
  BY <1>11
<1> HIDE DEF a, b, c, d, o, p, h, i
<1>15. n = p + i
  <2>1. n + a + c = o + h + b + d
    BY <1>12, <1>14
  <2>2. n \in Nat
    BY <1>8
  <2> HIDE DEF n
  <2> QED
    BY <1>12, <1>13, <2>1, <2>2, TwoAccounts
<1> QED
  BY <1>15 DEF n, p, i

\* The proxy permits: kept, taken or given back by one session.
LEMMA ProxyBalance ==
    ASSUME SessionInv, SessionInv', Accounted, NEW s \in Session,
           \A t \in Session : t # s => session'[t] = session[t], ProxyStep(s)
    PROVE  active_proxies' = Cardinality(Proxies') /\ active_proxies' <= max_proxies
<1>1. IsFiniteSet(Proxies) /\ Cardinality(Proxies) \in Nat
  <2>1. IsFiniteSet(Session) /\ Proxies \in SUBSET Session
    BY SessionSetsAssumption DEF Proxies
  <2> QED
    BY <2>1, FS_Subset, FS_CardinalityType
<1>2. max_proxies \in Nat /\ active_proxies \in Nat
  BY SessionLimitsAssumption, TypeIs DEF SessionInv
<1>3. active_proxies = Cardinality(Proxies) /\ active_proxies <= max_proxies
  BY DEF Accounted
<1>4. CASE session'[s].proxy_permit = session[s].proxy_permit /\ active_proxies' = active_proxies
  <2>1. \A t \in Session : session'[t].proxy_permit = session[t].proxy_permit
    BY <1>4
  <2>2. Proxies' = Proxies
    BY <2>1, Zenon DEF Proxies
  <2> QED
    BY <1>3, <1>4, <2>2
<1>5. CASE /\ session[s].proxy_permit = FALSE /\ session'[s].proxy_permit = TRUE
           /\ active_proxies < max_proxies /\ active_proxies' = active_proxies + 1
  <2>1. s \notin Proxies /\ Proxies' = Proxies \cup {s}
    BY <1>5 DEF Proxies
  <2>2. Cardinality(Proxies \cup {s}) = Cardinality(Proxies) + 1
    BY <1>1, <2>1, FS_AddElement
  <2> QED
    BY <1>2, <1>3, <1>5, <2>1, <2>2
<1>6. CASE /\ session[s].proxy_permit = TRUE /\ session'[s].proxy_permit = FALSE
           /\ active_proxies' = ProxyReleased(active_proxies)
  <2>1. s \in Proxies /\ Proxies' = Proxies \ {s}
    BY <1>6 DEF Proxies
  <2>2. Cardinality(Proxies \ {s}) = Cardinality(Proxies) - 1 /\ Cardinality(Proxies \ {s}) \in Nat
    BY <1>1, <2>1, FS_RemoveElement, FS_CardinalityType
  <2>3. active_proxies' = active_proxies - 1
    BY <1>2, <1>3, <1>6, <2>2 DEF ProxyReleased
  <2> QED
    BY <1>2, <1>3, <2>1, <2>2, <2>3
<1> QED
  BY <1>4, <1>5, <1>6 DEF ProxyStep

\* A step of one session, and of exchanges that hold what they held.
LEMMA SessionAccounts ==
    ASSUME SessionInv, SessionInv', Accounted, NEW s \in Session, StepOf(s), ProxyStep(s),
           \A x \in Exchange : Hold(x)' = Hold(x),
           current_bytes' + Own(s) = current_bytes + Own(s)'
    PROVE  Accounted'
<1>1. current_bytes' = Bytes(Owned') + Bytes(Held')
  BY SessionBalance
<1>2. active_proxies' = Cardinality(Proxies') /\ active_proxies' <= max_proxies
  BY ProxyBalance DEF StepOf
<1> QED
  BY <1>1, <1>2 DEF Accounted

\* A step of one session and one exchange.
LEMMA ExchangeAccounts ==
    ASSUME SessionInv, SessionInv', Accounted, NEW s \in Session, StepOf(s), ProxyStep(s), NEW x \in Exchange,
           \A y \in Exchange : y # x => Hold(y)' = Hold(y),
           current_bytes' + Own(s) + Hold(x) = current_bytes + Own(s)' + Hold(x)'
    PROVE  Accounted'
<1>1. current_bytes' = Bytes(Owned') + Bytes(Held')
  BY ExchangeBalance
<1>2. active_proxies' = Cardinality(Proxies') /\ active_proxies' <= max_proxies
  BY ProxyBalance DEF StepOf
<1> QED
  BY <1>1, <1>2 DEF Accounted

\* Only a session that writes may share its request's permit.
LEMMA NoShares ==
    ASSUME SessionInv, NEW s \in Session, session[s].op # "write"
    PROVE  Shares(s) = {} /\ Own(s) = session[s].request + session[s].response
<1>1. ASSUME NEW x \in Exchange, exchange[x].session = s
      PROVE  ~exchange[x].shares
  <2>1. ExchangeOK(x, exchange[x], session)
    BY SessionIs
  <2> QED
    BY <1>1, <2>1 DEF ExchangeOK
<1>2. Shares(s) = {}
  BY <1>1, Zenon DEF Shares
<1> QED
  BY <1>2, OwnIs

\* A step that changes the session's record and the budget only.
LEMMA BecomesAccounts ==
    ASSUME SessionInv, SessionInv', Accounted, NEW s \in Session,
           NEW r \in SessionRecords, NEW current \in Nat, Becomes(s, r, current),
           r.proxy_permit = session[s].proxy_permit,
           \/ r.request = session[s].request /\ r.response = session[s].response /\ current = current_bytes
           \/ /\ session[s].op # "write"
              /\ current + session[s].request + session[s].response = current_bytes + r.request + r.response
    PROVE  Accounted'
<1>1. session \in [Session -> SessionRecords] /\ session[s] \in SessionRecords /\ current_bytes \in Nat
  BY SessionIs
<1>2. /\ session' = [session EXCEPT ![s] = r] /\ current_bytes' = current
      /\ exchange' = exchange /\ active_proxies' = active_proxies
  BY DEF Becomes
<1>3. session'[s] = r /\ \A t \in Session : t # s => session'[t] = session[t]
  BY <1>1, <1>2
<1>4. StepOf(s)
  BY <1>2, <1>3 DEF StepOf
<1>5. ProxyStep(s)
  BY <1>2, <1>3 DEF ProxyStep
<1>6. \A x \in Exchange : Hold(x)' = Hold(x)
  BY <1>2 DEF Hold
<1>7. Shares(s)' = Shares(s)
  BY <1>2 DEF Shares
<1>8. /\ r.request \in Nat /\ r.response \in Nat
      /\ session[s].request \in Nat /\ session[s].response \in Nat
  BY <1>1 DEF SessionRecords
<1>9. Own(s)' = (IF Shares(s) = {} THEN r.request ELSE 0) + r.response
  BY <1>3, <1>7, OwnIs
<1>10. CASE r.request = session[s].request /\ r.response = session[s].response /\ current = current_bytes
  <2>1. Own(s)' = Own(s)
    BY <1>9, <1>10, OwnIs
  <2> QED
    BY <1>2, <1>4, <1>5, <1>6, <1>10, <2>1, SessionAccounts
<1>11. CASE /\ session[s].op # "write"
            /\ current + session[s].request + session[s].response = current_bytes + r.request + r.response
  <2>1. Own(s) = session[s].request + session[s].response /\ Own(s)' = r.request + r.response
    BY <1>9, <1>11, NoShares
  <2>2. current + (session[s].request + session[s].response) = current_bytes + (r.request + r.response)
    BY <1>1, <1>8, <1>11
  <2>3. current_bytes' + Own(s) = current_bytes + Own(s)'
    BY <1>2, <2>1, <2>2
  <2> QED
    BY <1>4, <1>5, <1>6, <2>3, SessionAccounts
<1> QED
  BY <1>10, <1>11

\* The session gives back what it owns: its two permits, but for the one that an
\* exchange shares and keeps.
LEMMA GiveBackAccounts ==
    ASSUME SessionInv, SessionInv', Accounted, NEW s \in Session, StepOf(s), ProxyStep(s),
           \A x \in Exchange : Hold(x)' = Hold(x),
           session'[s].request = 0, session'[s].response = 0,
           current_bytes' = Returned(current_bytes, Gives(s, session[s]))
    PROVE  Accounted'
<1>1. Own(s) \in Nat /\ Own(s) <= current_bytes
  BY OwnBounded
<1>2. current_bytes \in Nat
  BY SessionIs
<1>3. current_bytes' = Returned(current_bytes, Own(s))
  BY DEF Own
<1>4. current_bytes' = current_bytes - Own(s)
  BY <1>1, <1>2, <1>3, ReturnedIs
<1>5. Own(s)' = 0
  BY OwnIs
<1> DEFINE a == Own(s)
           b == Own(s)'
<1>6. a \in Nat /\ b = 0 /\ current_bytes' = current_bytes - a
  BY <1>1, <1>4, <1>5
<1> HIDE DEF a, b
<1>7. current_bytes' + a = current_bytes + b
  BY <1>2, <1>6
<1> QED
  BY <1>7, SessionAccounts DEF a, b

\* close_socket and finish
LEMMA CloseSocketAccounts ==
    ASSUME SessionInv, SessionInv', Accounted, NEW s \in Session, NEW r \in SessionRecords,
           r = session[s] \/ r = [session[s] EXCEPT !.draining = TRUE],
           NEW still \in {"none", r.op}, CloseSocket(s, r, still)
    PROVE  Accounted'
<1>1. /\ session \in [Session -> SessionRecords] /\ session[s] \in SessionRecords
      /\ \A x \in Exchange : exchange[x] \in ExchangeRecords
  BY SessionIs
<1>2. /\ r.request = session[s].request /\ r.response = session[s].response
      /\ r.exchange = session[s].exchange /\ r.proxy_permit = session[s].proxy_permit
      /\ r.proxy_permit \in BOOLEAN
  BY <1>1 DEF SessionRecords
<1> DEFINE last == [r EXCEPT !.phase = "finished", !.op = still, !.exchange = None,
                             !.proxy_permit = FALSE]
           after == IF still = "none" THEN Fresh ELSE last
<1>3. session' = [session EXCEPT ![s] = after]
  BY DEF CloseSocket
<1>4. /\ last.request = r.request /\ last.response = r.response /\ last.proxy_permit = FALSE
  BY DEF SessionRecords
<1>5. /\ after.proxy_permit = FALSE
      /\ still = "none" => after.request = 0 /\ after.response = 0
      /\ still # "none" => after.request = r.request /\ after.response = r.response
  BY <1>4, FreshIs
<1> HIDE DEF last, after
<1>6. session'[s] = after /\ \A t \in Session : t # s => session'[t] = session[t]
  BY <1>1, <1>3
<1>7. ASSUME NEW x \in Exchange
      PROVE  /\ exchange'[x] = exchange[x] \/ (exchange[x].session = s /\ exchange'[x].session = s)
             /\ exchange'[x].request = exchange[x].request /\ exchange'[x].body = exchange[x].body
             /\ still # "none" => exchange'[x].session = exchange[x].session
                                  /\ exchange'[x].shares = exchange[x].shares
  <2>1. exchange[x] \in ExchangeRecords
    BY <1>1
  <2> DEFINE st == IF still \in StreamOps THEN "held" ELSE "over"
  <2>2. exchange'[x] = IF x = r.exchange THEN [exchange[x] EXCEPT !.state = st]
                       ELSE IF still = "none" /\ x \in Shares(s)
                       THEN [exchange[x] EXCEPT !.shares = FALSE] ELSE exchange[x]
    BY DEF CloseSocket
  <2> HIDE DEF st
  <2>3. CASE x = r.exchange
    <3>1. exchange[x].session = s
      BY <1>2, <2>3, OwnExchangeIs
    <3> QED
      BY <2>1, <2>2, <2>3, <3>1 DEF ExchangeRecords
  <2>4. CASE x # r.exchange /\ still = "none" /\ x \in Shares(s)
    <3>1. exchange[x].session = s
      BY <2>4 DEF Shares
    <3> QED
      BY <2>1, <2>2, <2>4, <3>1 DEF ExchangeRecords
  <2>5. CASE x # r.exchange /\ ~(still = "none" /\ x \in Shares(s))
    <3>1. exchange'[x] = exchange[x]
      BY <2>2, <2>5
    <3> QED
      BY <3>1
  <2> QED
    BY <2>3, <2>4, <2>5
<1>8. StepOf(s)
  <2>1. \A x \in Exchange :
          \/ exchange'[x] = exchange[x]
          \/ /\ exchange[x].session = s \/ exchange[x].state = "free"
             /\ exchange'[x].session = s \/ exchange'[x] = NoExchange
    BY <1>7
  <2> QED
    BY <1>6, <2>1 DEF StepOf
<1>9. \A x \in Exchange : Hold(x)' = Hold(x)
  BY <1>7 DEF Hold
<1>10. ProxyStep(s)
  <2>1. active_proxies' = IF r.proxy_permit THEN ProxyReleased(active_proxies) ELSE active_proxies
    BY DEF CloseSocket
  <2>2. CASE r.proxy_permit = TRUE
    BY <1>2, <1>5, <1>6, <2>1, <2>2 DEF ProxyStep
  <2>3. CASE r.proxy_permit = FALSE
    BY <1>2, <1>5, <1>6, <2>1, <2>3 DEF ProxyStep
  <2> QED
    BY <1>2, <2>2, <2>3
<1>11. CASE still = "none"
  <2>1. Gives(s, r) = Gives(s, session[s])
    BY <1>2 DEF Gives
  <2>2. current_bytes' = Returned(current_bytes, Gives(s, session[s]))
    BY <1>11, <2>1 DEF CloseSocket
  <2> QED
    BY <1>5, <1>6, <1>8, <1>9, <1>10, <1>11, <2>2, GiveBackAccounts
<1>12. CASE still # "none"
  <2>1. current_bytes' = current_bytes
    BY <1>12 DEF CloseSocket
  <2>2. \A x \in Exchange : exchange'[x].session = exchange[x].session
                            /\ exchange'[x].shares = exchange[x].shares
    BY <1>7, <1>12
  <2>3. Shares(s)' = Shares(s)
    BY <2>2, Zenon DEF Shares
  <2>4. Own(s)' = Own(s)
    BY <1>2, <1>5, <1>6, <1>12, <2>3, OwnIs
  <2> QED
    BY <1>8, <1>9, <1>10, <2>1, <2>4, SessionAccounts
<1> QED
  BY <1>11, <1>12

----------------------------------------------------------------------------
(* The accounts of the session's handlers.                                 *)

\* start()
LEMMA StartSessionAccounts ==
    ASSUME SessionInv, SessionInv', Accounted, NEW s \in Session, StartSession(s)
    PROVE  Accounted'
<1>1. session[s] = Fresh /\ current_bytes \in Nat
  BY SessionIs DEF StartSession, RecordOK
<1> DEFINE h == [Fresh EXCEPT !.phase = "handshaking", !.op = "handshake"]
           r == IF Tls THEN h ELSE ReadRequest(Fresh)
<1>2. Becomes(s, r, current_bytes)
  BY DEF StartSession
<1>3. /\ h \in SessionRecords /\ h.request = 0 /\ h.response = 0 /\ h.proxy_permit = FALSE
  BY FreshIs DEF SessionRecords, SessionPhases, SessionOps
<1>4. /\ ReadRequest(Fresh) \in SessionRecords /\ ReadRequest(Fresh).request = 0
      /\ ReadRequest(Fresh).response = 0 /\ ReadRequest(Fresh).proxy_permit = FALSE
  BY FreshIs, ReadRequestIs
<1>5. r \in SessionRecords /\ r.request = 0 /\ r.response = 0 /\ r.proxy_permit = FALSE
  BY <1>3, <1>4
<1> HIDE DEF r
<1>6. /\ r.proxy_permit = session[s].proxy_permit /\ r.request = session[s].request
      /\ r.response = session[s].response
  BY <1>1, <1>5, FreshIs
<1> QED
  BY <1>1, <1>2, <1>5, <1>6, BecomesAccounts

\* begin_drain
LEMMA BeginDrainAccounts ==
    ASSUME SessionInv, SessionInv', Accounted, NEW s \in Session, BeginDrain(s)
    PROVE  Accounted'
<1> DEFINE r == [session[s] EXCEPT !.draining = TRUE]
<1>1. session[s] \in SessionRecords /\ current_bytes \in Nat
  BY SessionIs
<1>2. /\ r \in SessionRecords /\ r.request = session[s].request
      /\ r.response = session[s].response /\ r.proxy_permit = session[s].proxy_permit
  BY <1>1 DEF SessionRecords
<1>3. CloseSocket(s, r, r.op) \/ Becomes(s, r, current_bytes)
  BY DEF BeginDrain
<1>4. CASE CloseSocket(s, r, r.op)
  BY <1>2, <1>4, CloseSocketAccounts
<1>5. CASE Becomes(s, r, current_bytes)
  <2> HIDE DEF r
  <2> QED
    BY <1>1, <1>2, <1>5, BecomesAccounts
<1> QED
  BY <1>3, <1>4, <1>5

\* stop, a failed operation, the end of a TLS shutdown, and an exchange that
\* cannot tell its session how it ended.
LEMMA StopAccounts ==
    ASSUME SessionInv, SessionInv', Accounted, NEW s \in Session, NEW still \in {"none", session[s].op},
           CloseSocket(s, session[s], still)
    PROVE  Accounted'
<1>1. session[s] \in SessionRecords
  BY SessionIs
<1> QED
  BY <1>1, CloseSocketAccounts

\* on_handshake
LEMMA OnHandshakeAccounts ==
    ASSUME SessionInv, SessionInv', Accounted, NEW s \in Session, OnHandshake(s)
    PROVE  Accounted'
<1>1. Becomes(s, ReadRequest(session[s]), current_bytes)
  BY DEF OnHandshake
<1>2. session[s] \in SessionRecords /\ current_bytes \in Nat
  BY SessionIs
<1> DEFINE w == ReadRequest(session[s])
<1>3. /\ w \in SessionRecords /\ w.request = session[s].request /\ w.response = session[s].response
      /\ w.proxy_permit = session[s].proxy_permit
  BY <1>2, ReadRequestIs
<1> HIDE DEF w
<1>4. Becomes(s, w, current_bytes)
  BY <1>1 DEF w
<1> QED
  BY <1>2, <1>3, <1>4, BecomesAccounts

\* A bad request is answered.
LEMMA RefusalAccounts ==
    ASSUME SessionInv, SessionInv', Accounted, NEW s \in Session,
           session[s].op \in {"read_header", "read_body"},
           Becomes(s, WriteResponse(session[s], TRUE), current_bytes)
    PROVE  Accounted'
<1>1. session[s] \in SessionRecords /\ current_bytes \in Nat
  BY SessionIs
<1>2. session[s].completed = FALSE /\ session[s].responses = 0
  BY ReadingIs
<1> DEFINE w == WriteResponse(session[s], TRUE)
<1>3. /\ w \in SessionRecords /\ w.request = session[s].request /\ w.response = session[s].response
      /\ w.proxy_permit = session[s].proxy_permit
  BY <1>1, <1>2, WriteResponseIs
<1> HIDE DEF w
<1>4. Becomes(s, w, current_bytes)
  BY DEF w
<1> QED
  BY <1>1, <1>3, <1>4, BecomesAccounts

\* handle_read_error
LEMMA OnBadRequestAccounts ==
    ASSUME SessionInv, SessionInv', Accounted, NEW s \in Session, OnBadRequest(s)
    PROVE  Accounted'
<1>1. /\ session[s].op \in {"read_header", "read_body"}
      /\ \/ Becomes(s, WriteResponse(session[s], TRUE), current_bytes)
         \/ Becomes(s, Closing(session[s]), current_bytes)
         \/ CloseSocket(s, session[s], "none")
  BY DEF OnBadRequest, Done
<1>2. CASE Becomes(s, WriteResponse(session[s], TRUE), current_bytes)
  BY <1>1, <1>2, RefusalAccounts
<1>3. CASE CloseSocket(s, session[s], "none")
  BY <1>3, StopAccounts
<1>4. CASE Becomes(s, Closing(session[s]), current_bytes)
  <2>1. session[s] \in SessionRecords /\ current_bytes \in Nat
    BY SessionIs
  <2> DEFINE w == Closing(session[s])
  <2>2. /\ w \in SessionRecords /\ w.request = session[s].request /\ w.response = session[s].response
        /\ w.proxy_permit = session[s].proxy_permit
    BY <2>1, ClosingIs
  <2> HIDE DEF w
  <2>3. Becomes(s, w, current_bytes)
    BY <1>4 DEF w
  <2> QED
    BY <2>1, <2>2, <2>3, BecomesAccounts
<1> QED
  BY <1>1, <1>2, <1>3, <1>4

\* An exchange comes into being and takes the request's permit along, whole or
\* as a share.
LEMMA NewExchangeAccounts ==
    ASSUME SessionInv, SessionInv', Accounted, NEW s \in Session, session[s].op # "write",
           NEW x \in Exchange, exchange[x].state = "free",
           NEW e \in ExchangeRecords, exchange' = [exchange EXCEPT ![x] = e], e.session = s, e.body = 0,
           NEW r \in SessionRecords, session' = [session EXCEPT ![s] = r], ProxyStep(s),
           NEW own \in Nat, own = (IF e.shares THEN 0 ELSE r.request) + r.response,
           current_bytes' + session[s].request + session[s].response = current_bytes + own + e.request
    PROVE  Accounted'
<1>1. /\ session \in [Session -> SessionRecords] /\ session[s] \in SessionRecords
      /\ exchange \in [Exchange -> ExchangeRecords] /\ current_bytes \in Nat
      /\ ExchangeOK(x, exchange[x], session)
  BY SessionIs
<1>2. session'[s] = r /\ \A t \in Session : t # s => session'[t] = session[t]
  BY <1>1
<1>3. exchange'[x] = e /\ \A y \in Exchange : y # x => exchange'[y] = exchange[y]
  BY <1>1
<1>4. exchange[x] = NoExchange
  BY <1>1 DEF ExchangeOK
<1>5. StepOf(s)
  BY <1>2, <1>3 DEF StepOf
<1>6. Hold(x) = 0 /\ Hold(x)' = e.request + e.body
  BY <1>3, <1>4, NoExchangeIs DEF Hold
<1>7. \A y \in Exchange : y # x => Hold(y)' = Hold(y)
  BY <1>3 DEF Hold
<1>8. Shares(s) = {} /\ Own(s) = session[s].request + session[s].response
  BY NoShares
<1>9. e.shares => Shares(s)' # {}
  BY <1>3 DEF Shares
<1>10. ~e.shares => Shares(s)' = {}
  <2>1. \A y \in Exchange : y # x => ~(exchange[y].session = s /\ exchange[y].shares)
    BY <1>8, Zenon DEF Shares
  <2>2. ASSUME ~e.shares, NEW y \in Exchange
        PROVE  ~(exchange'[y].session = s /\ exchange'[y].shares)
    BY <1>3, <2>1, <2>2
  <2> QED
    BY <2>2, Zenon DEF Shares
<1>11. Own(s)' = own
  BY <1>2, <1>9, <1>10, OwnIs
<1>12. /\ session[s].request \in Nat /\ session[s].response \in Nat /\ e.request \in Nat
       /\ current_bytes' \in Nat
  BY <1>1 DEF SessionRecords, ExchangeRecords, SessionInv, SessionTypeOK
<1>13. current_bytes' + Own(s) + Hold(x) = current_bytes + Own(s)' + Hold(x)'
  <2>1. current_bytes' + (session[s].request + session[s].response) + 0 = current_bytes + own + (e.request + 0)
    BY <1>1, <1>12
  <2> QED
    BY <1>6, <1>8, <1>11, <2>1
<1> QED
  BY <1>5, <1>7, <1>13, ExchangeAccounts

\* process_request and start_proxy_request, when the reservation has shrunk to
\* what was read.
LEMMA ProcessRequestAccounts ==
    ASSUME SessionInv, SessionInv', Accounted, NEW s \in Session,
           session[s].op \in {"read_header", "read_body"},
           NEW bytes \in Nat, NEW r, r = [session[s] EXCEPT !.request = bytes],
           NEW current \in Nat, current + session[s].request = current_bytes + bytes,
           ProcessRequest(s, r, current)
    PROVE  Accounted'
<1>1. session \in [Session -> SessionRecords] /\ session[s] \in SessionRecords /\ current_bytes \in Nat
  BY SessionIs
<1>2. /\ session[s].completed = FALSE /\ session[s].responses = 0 /\ session[s].response = 0
      /\ session[s].proxy_permit = FALSE /\ session[s].op # "write"
  BY ReadingIs
<1> DEFINE n == [r EXCEPT !.requests_served = @ + 1, !.op = "none"]
<1>3. \/ StartExchange(s, n, current) \/ StartExchangeThrows(s, n, current)
      \/ Answer(s, n, current) \/ AnswerThrows(s, n, current)
  BY DEF ProcessRequest
<1>4. /\ r \in SessionRecords /\ r.completed = FALSE /\ r.responses = 0 /\ r.response = 0
      /\ r.proxy_permit = FALSE /\ r.request = bytes
  BY <1>1, <1>2 DEF SessionRecords
<1>5. /\ n \in SessionRecords /\ n.completed = FALSE /\ n.responses = 0 /\ n.response = 0
      /\ n.proxy_permit = FALSE /\ n.request = bytes
  <2> DEFINE k == r.requests_served + 1
  <2>1. n = [r EXCEPT !.requests_served = k, !.op = "none"]
    OBVIOUS
  <2>2. k \in Nat
    BY <1>4 DEF SessionRecords
  <2> HIDE DEF k, n
  <2> QED
    BY <1>4, <2>1, <2>2 DEF SessionRecords, SessionOps
<1> HIDE DEF n
<1>6. ASSUME NEW close \in BOOLEAN
      PROVE  LET w == WriteResponse(n, close) IN
             /\ w \in SessionRecords /\ w.request = bytes /\ w.response = 0 /\ w.proxy_permit = FALSE
             /\ w.op = "write" /\ w.completed = TRUE
  <2> DEFINE w == WriteResponse(n, close)
  <2>1. /\ w \in SessionRecords /\ w.op = "write" /\ w.completed = TRUE /\ w.request = n.request
        /\ w.response = n.response /\ w.proxy_permit = n.proxy_permit
    BY <1>5, WriteResponseIs
  <2> HIDE DEF w
  <2> QED
    BY <1>5, <2>1 DEF w
<1>7. session[s].request \in Nat
  BY <1>1 DEF SessionRecords
<1>8. ASSUME NEW w \in SessionRecords, w.request = bytes, w.response = 0, w.proxy_permit = FALSE,
             Becomes(s, w, current)
      PROVE  Accounted'
  <2>1. current + session[s].request + session[s].response = current_bytes + w.request + w.response
    BY <1>1, <1>2, <1>7, <1>8
  <2> QED
    BY <1>2, <1>8, <2>1, BecomesAccounts
<1>9. CASE StartExchange(s, n, current)
  <2>1. PICK x \in Exchange :
          /\ exchange[x].state = "free"
          /\ exchange' = [exchange EXCEPT ![x] = [NoExchange EXCEPT
                            !.state = "waiting", !.session = s, !.request = n.request]]
          /\ session' = [session EXCEPT ![s] = [n EXCEPT !.phase = "proxying",
                            !.request = 0, !.exchange = x, !.proxy_permit = TRUE]]
    BY <1>9 DEF StartExchange
  <2>2. /\ current_bytes' = current /\ active_proxies < max_proxies
        /\ active_proxies' = active_proxies + 1
    BY <1>9 DEF StartExchange
  <2> DEFINE e == [NoExchange EXCEPT !.state = "waiting", !.session = s, !.request = n.request]
             p == [n EXCEPT !.phase = "proxying", !.request = 0, !.exchange = x, !.proxy_permit = TRUE]
  <2>3. /\ e \in ExchangeRecords /\ e.session = s /\ e.shares = FALSE /\ e.body = 0 /\ e.request = bytes
    BY <1>5, NoExchangeIs DEF ExchangeRecords, Running
  <2>4. p \in SessionRecords /\ p.request = 0 /\ p.response = 0 /\ p.proxy_permit = TRUE
    BY <1>5 DEF SessionRecords, SessionPhases
  <2> HIDE DEF e, p
  <2>5. session' = [session EXCEPT ![s] = p] /\ exchange' = [exchange EXCEPT ![x] = e]
    BY <2>1 DEF e, p
  <2>6. session'[s] = p
    BY <1>1, <2>5
  <2>7. ProxyStep(s)
    BY <1>2, <2>2, <2>4, <2>6 DEF ProxyStep
  <2>8. current_bytes' + session[s].request + session[s].response = current_bytes + 0 + e.request
    BY <1>1, <1>2, <1>7, <2>2, <2>3
  <2>9. 0 = (IF e.shares THEN 0 ELSE p.request) + p.response
    BY <2>4
  <2> QED
    <3>1. /\ session[s].op # "write" /\ p \in SessionRecords /\ exchange[x].state = "free"
          /\ e \in ExchangeRecords /\ e.session = s /\ e.body = 0 /\ 0 \in Nat
      BY <1>2, <2>1, <2>3, <2>4
    <3> QED
      BY <2>5, <2>7, <2>8, <2>9, <3>1, NewExchangeAccounts
<1>10. CASE StartExchangeThrows(s, n, current)
  <2>1. PICK outcome \in {WriteResponse(n, FALSE), WriteResponse(n, TRUE), Fresh} :
          /\ session' = [session EXCEPT ![s] = outcome]
          /\ current_bytes' = current
          /\ UNCHANGED active_proxies
          /\ \/ outcome # Fresh /\ UNCHANGED exchange
             \/ \E x \in Exchange :
                   /\ exchange[x].state = "free"
                   /\ exchange' = [exchange EXCEPT ![x] = [NoExchange EXCEPT
                                     !.state = "over", !.session = s, !.request = n.request,
                                     !.shares = outcome # Fresh]]
    <3>1. PICK outcome \in {WriteResponse(n, FALSE), WriteResponse(n, TRUE), Fresh},
               taken \in {FALSE, active_proxies < max_proxies} :
            /\ session' = [session EXCEPT ![s] = outcome]
            /\ current_bytes' = current
            /\ active_proxies' = IF taken THEN ProxyReleased(active_proxies + 1) ELSE active_proxies
            /\ \/ outcome # Fresh /\ UNCHANGED exchange
               \/ \E x \in Exchange :
                     /\ exchange[x].state = "free"
                     /\ exchange' = [exchange EXCEPT ![x] = [NoExchange EXCEPT
                                       !.state = "over", !.session = s, !.request = n.request,
                                       !.shares = outcome # Fresh]]
      BY <1>10, Zenon DEF StartExchangeThrows
    <3>2. active_proxies \in Nat
      BY SessionIs
    <3>3. ProxyReleased(active_proxies + 1) = active_proxies
      BY <3>2 DEF ProxyReleased
    <3>4. active_proxies' = active_proxies
      BY <3>1, <3>3, Zenon
    <3> QED
      BY <3>1, <3>4, Zenon
  <2>2. /\ outcome \in SessionRecords /\ outcome.response = 0 /\ outcome.proxy_permit = FALSE
        /\ outcome # Fresh => outcome.request = bytes
        /\ outcome = Fresh => outcome.request = 0
    <3>1. CASE outcome = Fresh
      BY <3>1, FreshIs
    <3>2. CASE outcome \in {WriteResponse(n, FALSE), WriteResponse(n, TRUE)}
      <4>1. PICK close \in BOOLEAN : outcome = WriteResponse(n, close)
        BY <3>2
      <4>2. /\ outcome \in SessionRecords /\ outcome.response = 0 /\ outcome.proxy_permit = FALSE
            /\ outcome.request = bytes /\ outcome.op = "write"
        BY <1>6, <4>1
      <4> QED
        BY <4>2, FreshIs
    <3> QED
      BY <2>1, <3>1, <3>2
  <2>3. CASE outcome # Fresh /\ UNCHANGED exchange
    <3>1. Becomes(s, outcome, current)
      BY <2>1, <2>3 DEF Becomes
    <3> QED
      BY <1>8, <2>2, <2>3, <3>1
  <2>4. CASE ~(outcome # Fresh /\ UNCHANGED exchange)
    <3> DEFINE sh == outcome # Fresh
               e == [NoExchange EXCEPT !.state = "over", !.session = s, !.request = n.request,
                                       !.shares = sh]
    <3>1. PICK x \in Exchange : exchange[x].state = "free" /\ exchange' = [exchange EXCEPT ![x] = e]
      BY <2>1, <2>4
    <3>2. sh \in BOOLEAN /\ (sh <=> outcome # Fresh)
      BY Zenon
    <3> HIDE DEF sh
    <3>3. /\ e \in ExchangeRecords /\ e.session = s /\ e.shares = sh
          /\ e.request = bytes /\ e.body = 0
      BY <1>5, <3>2, NoExchangeIs DEF ExchangeRecords
    <3> HIDE DEF e
    <3>4. session'[s] = outcome
      BY <1>1, <2>1
    <3>5. ProxyStep(s)
      BY <1>2, <2>1, <2>2, <3>4 DEF ProxyStep
    <3>6. 0 = (IF e.shares THEN 0 ELSE outcome.request) + outcome.response
      BY <2>2, <3>2, <3>3
    <3>7. current_bytes' + session[s].request + session[s].response = current_bytes + 0 + e.request
      BY <1>1, <1>2, <1>7, <2>1, <3>3
    <3>8. session' = [session EXCEPT ![s] = outcome]
      BY <2>1
    <3> QED
      <4>1. /\ session[s].op # "write" /\ outcome \in SessionRecords
            /\ exchange[x].state = "free" /\ exchange' = [exchange EXCEPT ![x] = e]
            /\ e \in ExchangeRecords /\ e.session = s /\ e.body = 0 /\ 0 \in Nat
        BY <1>2, <2>2, <3>1, <3>3
      <4> QED
        BY <3>5, <3>6, <3>7, <3>8, <4>1, NewExchangeAccounts
  <2> QED
    BY <2>3, <2>4
<1>11. CASE Answer(s, n, current)
  <2>1. PICK close \in BOOLEAN : Becomes(s, WriteResponse(n, close \/ LastRequest(n)), current)
    BY <1>11 DEF Answer
  <2> DEFINE c == close \/ LastRequest(n)
             w == WriteResponse(n, c)
  <2>2. c \in BOOLEAN
    BY Zenon
  <2> HIDE DEF c
  <2>3. w \in SessionRecords /\ w.request = bytes /\ w.response = 0 /\ w.proxy_permit = FALSE
    BY <1>6, <2>2
  <2>4. Becomes(s, w, current)
    BY <2>1 DEF c
  <2> HIDE DEF w
  <2> QED
    BY <1>8, <2>3, <2>4
<1>12. CASE AnswerThrows(s, n, current)
  <2> DEFINE w == WriteResponse(n, FALSE)
             v == [w EXCEPT !.op = "none"]
             u == [v EXCEPT !.silent = TRUE]
  <2>1. /\ w \in SessionRecords /\ w.completed = TRUE /\ w.request = bytes /\ w.response = 0
        /\ w.proxy_permit = FALSE
    BY <1>6
  <2> HIDE DEF w
  <2>2. v \in SessionRecords /\ v.completed = TRUE
    BY <2>1 DEF SessionRecords, SessionOps
  <2>3. WriteResponse(v, FALSE) = u
    BY <2>2 DEF WriteResponse
  <2>4. u \in SessionRecords /\ u.request = bytes /\ u.response = 0 /\ u.proxy_permit = FALSE
    BY <2>1 DEF SessionRecords, SessionOps
  <2>5. Becomes(s, u, current)
    BY <1>12, <2>3 DEF AnswerThrows, w
  <2> HIDE DEF u, v
  <2> QED
    BY <1>8, <2>4, <2>5
<1> QED
  BY <1>3, <1>9, <1>10, <1>11, <1>12

\* on_read_header
LEMMA OnReadHeaderAccounts ==
    ASSUME SessionInv, SessionInv', Accounted, NEW s \in Session, OnReadHeader(s)
    PROVE  Accounted'
<1>1. session[s].op = "read_header"
  BY DEF OnReadHeader, Done
<1>2. session[s] \in SessionRecords /\ current_bytes \in Nat /\ session[s].request \in Nat
  BY SessionIs DEF SessionRecords
<1>3. CASE ProcessRequest(s, session[s], current_bytes)
  <2>1. session[s] = [session[s] EXCEPT !.request = session[s].request]
    BY <1>2 DEF SessionRecords
  <2> QED
    BY <1>1, <1>2, <1>3, <2>1, ProcessRequestAccounts
<1>4. CASE \E bytes \in Reservations :
             IF Fits(bytes)
             THEN Becomes(s, [session[s] EXCEPT !.request = bytes, !.op = "read_body"],
                          current_bytes + bytes)
             ELSE Becomes(s, WriteResponse(session[s], TRUE), current_bytes)
  <2>1. PICK bytes \in Reservations :
             IF Fits(bytes)
             THEN Becomes(s, [session[s] EXCEPT !.request = bytes, !.op = "read_body"],
                          current_bytes + bytes)
             ELSE Becomes(s, WriteResponse(session[s], TRUE), current_bytes)
    BY <1>4
  <2>2. CASE ~Fits(bytes)
    BY <1>1, <2>1, <2>2, RefusalAccounts
  <2>3. CASE Fits(bytes)
    <3> DEFINE w == [session[s] EXCEPT !.request = bytes, !.op = "read_body"]
    <3>1. bytes \in Nat
      BY SessionLimitsAssumption DEF Reservations
    <3>2. session[s].request = 0 /\ session[s].response = 0 /\ session[s].op # "write"
      BY <1>1, ReadingIs
    <3>3. /\ w \in SessionRecords /\ w.request = bytes /\ w.response = 0
          /\ w.proxy_permit = session[s].proxy_permit
      BY <1>2, <3>1, <3>2 DEF SessionRecords, SessionOps
    <3>4. Becomes(s, w, current_bytes + bytes)
      BY <2>1, <2>3
    <3> HIDE DEF w
    <3>5. /\ current_bytes + bytes \in Nat
          /\ (current_bytes + bytes) + session[s].request + session[s].response
                = current_bytes + w.request + w.response
      BY <1>2, <3>1, <3>2, <3>3
    <3> DEFINE c == current_bytes + bytes
    <3>6. /\ c \in Nat /\ Becomes(s, w, c)
          /\ c + session[s].request + session[s].response = current_bytes + w.request + w.response
      BY <3>4, <3>5
    <3> HIDE DEF c
    <3> QED
      BY <3>2, <3>3, <3>6, BecomesAccounts
  <2> QED
    BY <2>2, <2>3
<1> QED
  BY <1>3, <1>4 DEF OnReadHeader

\* on_read_body
LEMMA OnReadBodyAccounts ==
    ASSUME SessionInv, SessionInv', Accounted, NEW s \in Session, OnReadBody(s)
    PROVE  Accounted'
<1>1. session[s].op = "read_body"
  BY DEF OnReadBody, Done
<1>2. /\ session[s] \in SessionRecords /\ current_bytes \in Nat /\ session[s].request \in Nat
      /\ session[s].response = 0
  BY <1>1, SessionIs, ReadingIs DEF SessionRecords
<1>3. PICK bytes \in 0 .. session[s].request :
         ProcessRequest(s, [session[s] EXCEPT !.request = bytes],
                        Returned(current_bytes, session[s].request - bytes))
  BY DEF OnReadBody
<1>4. bytes \in Nat /\ bytes <= session[s].request /\ session[s].request - bytes \in Nat
  BY <1>2
<1>5. session[s].request <= current_bytes
  <2>1. Own(s) = session[s].request + session[s].response /\ Own(s) <= current_bytes
    BY <1>1, NoShares, OwnBounded
  <2> QED
    BY <1>2, <2>1
<1> DEFINE c == Returned(current_bytes, session[s].request - bytes)
<1>6. c = current_bytes - (session[s].request - bytes)
  <2>1. session[s].request - bytes <= current_bytes
    BY <1>2, <1>4, <1>5
  <2> QED
    BY <1>2, <1>4, <2>1, ReturnedIs
<1>7. ProcessRequest(s, [session[s] EXCEPT !.request = bytes], c)
  BY <1>3
<1> HIDE DEF c
<1>8. c \in Nat /\ c + session[s].request = current_bytes + bytes
  BY <1>2, <1>4, <1>5, <1>6
<1> QED
  BY <1>1, <1>4, <1>7, <1>8, ProcessRequestAccounts

\* on_write
LEMMA OnWriteAccounts ==
    ASSUME SessionInv, SessionInv', Accounted, NEW s \in Session, OnWrite(s)
    PROVE  Accounted'
<1> DEFINE r == [session[s] EXCEPT !.request = 0, !.response = 0]
           more == ~r.close /\ ~r.draining
           w == IF more THEN ReadRequest(r) ELSE Closing(r)
<1>1. \/ CloseSocket(s, session[s], "none")
      \/ /\ session' = [session EXCEPT ![s] = w]
         /\ exchange' = [x \in Exchange |-> [exchange[x] EXCEPT
                             !.shares = @ /\ x \notin Shares(s)]]
         /\ current_bytes' = Returned(current_bytes, Gives(s, session[s]))
         /\ UNCHANGED active_proxies
  BY DEF OnWrite
<1>2. session \in [Session -> SessionRecords] /\ session[s] \in SessionRecords
  BY SessionIs
<1>3. CASE CloseSocket(s, session[s], "none")
  BY <1>3, StopAccounts
<1>4. CASE ~CloseSocket(s, session[s], "none")
  <2>1. /\ session' = [session EXCEPT ![s] = w]
        /\ exchange' = [x \in Exchange |-> [exchange[x] EXCEPT
                            !.shares = @ /\ x \notin Shares(s)]]
        /\ current_bytes' = Returned(current_bytes, Gives(s, session[s]))
        /\ UNCHANGED active_proxies
    BY <1>1, <1>4
  <2>2. /\ r \in SessionRecords /\ r.request = 0 /\ r.response = 0
        /\ r.proxy_permit = session[s].proxy_permit
    BY <1>2 DEF SessionRecords
  <2> HIDE DEF r
  <2>3. w.request = 0 /\ w.response = 0 /\ w.proxy_permit = session[s].proxy_permit
    <3>1. /\ ReadRequest(r).request = 0 /\ ReadRequest(r).response = 0
          /\ ReadRequest(r).proxy_permit = session[s].proxy_permit
      BY <2>2, ReadRequestIs
    <3>2. /\ Closing(r).request = 0 /\ Closing(r).response = 0
          /\ Closing(r).proxy_permit = session[s].proxy_permit
      BY <2>2, ClosingIs
    <3>3. w = ReadRequest(r) \/ w = Closing(r)
      OBVIOUS
    <3> HIDE DEF w
    <3> QED
      BY <3>1, <3>2, <3>3
  <2> HIDE DEF w
  <2>4. session'[s] = w /\ \A t \in Session : t # s => session'[t] = session[t]
    BY <1>2, <2>1
  <2>5. ASSUME NEW x \in Exchange
        PROVE  /\ exchange'[x] = exchange[x] \/ (exchange[x].session = s /\ exchange'[x].session = s)
               /\ exchange'[x].request = exchange[x].request /\ exchange'[x].body = exchange[x].body
    <3>1. exchange[x] \in ExchangeRecords
      BY SessionIs
    <3> DEFINE sh == exchange[x].shares /\ x \notin Shares(s)
    <3>2. exchange'[x] = [exchange[x] EXCEPT !.shares = sh]
      BY <2>1
    <3>3. exchange[x].session # s => sh = exchange[x].shares
      <4>1. exchange[x].shares \in BOOLEAN
        BY <3>1 DEF ExchangeRecords
      <4>2. exchange[x].session # s => x \notin Shares(s)
        BY DEF Shares
      <4> QED
        BY <4>1, <4>2
    <3> HIDE DEF sh
    <3> QED
      BY <3>1, <3>2, <3>3 DEF ExchangeRecords
  <2>6. StepOf(s)
    <3>1. \A x \in Exchange :
            \/ exchange'[x] = exchange[x]
            \/ /\ exchange[x].session = s \/ exchange[x].state = "free"
               /\ exchange'[x].session = s \/ exchange'[x] = NoExchange
      BY <2>5
    <3> QED
      BY <2>4, <3>1 DEF StepOf
  <2>7. \A x \in Exchange : Hold(x)' = Hold(x)
    BY <2>5 DEF Hold
  <2>8. ProxyStep(s)
    BY <2>1, <2>3, <2>4 DEF ProxyStep
  <2>9. current_bytes' = Returned(current_bytes, Gives(s, session[s]))
    BY <2>1
  <2> QED
    BY <2>3, <2>4, <2>6, <2>7, <2>8, <2>9, GiveBackAccounts
<1> QED
  BY <1>3, <1>4

\* The last handler of a session that has finished.
LEMMA LateHandlerAccounts ==
    ASSUME SessionInv, SessionInv', Accounted, NEW s \in Session, LateHandler(s)
    PROVE  Accounted'
<1>1. /\ session[s].phase = "finished" /\ session' = [session EXCEPT ![s] = Fresh]
      /\ current_bytes' = Returned(current_bytes, Gives(s, session[s])) /\ UNCHANGED active_proxies
  BY DEF LateHandler
<1>2. exchange' = [x \in Exchange |->
          IF exchange[x].session = s
          THEN [exchange[x] EXCEPT !.shares = FALSE,
                                   !.state = IF @ = "held" THEN "over" ELSE @]
          ELSE exchange[x]]
  BY DEF LateHandler
<1>3. /\ session \in [Session -> SessionRecords] /\ session[s] \in SessionRecords
      /\ RecordOK(session[s]) /\ Linked(s, session[s], exchange)
  BY SessionIs
<1>4. session[s].proxy_permit = FALSE
  <2>1. session[s].exchange = None
    BY <1>1, <1>3 DEF Linked, Live
  <2>2. ~session[s].proxy_permit /\ session[s].proxy_permit \in BOOLEAN
    BY <1>3, <2>1 DEF RecordOK, SessionRecords
  <2> QED
    BY <2>2
<1>5. session'[s] = Fresh /\ \A t \in Session : t # s => session'[t] = session[t]
  BY <1>1, <1>3
<1>6. ASSUME NEW x \in Exchange
      PROVE  /\ exchange'[x] = exchange[x] \/ (exchange[x].session = s /\ exchange'[x].session = s)
             /\ exchange'[x].request = exchange[x].request /\ exchange'[x].body = exchange[x].body
  <2>1. exchange[x] \in ExchangeRecords
    BY SessionIs
  <2>2. CASE exchange[x].session # s
    BY <1>2, <2>2
  <2>3. CASE exchange[x].session = s
    <3> DEFINE q == IF exchange[x].state = "held" THEN "over" ELSE exchange[x].state
    <3>1. exchange'[x] = [exchange[x] EXCEPT !.shares = FALSE, !.state = q]
      BY <1>2, <2>3
    <3> HIDE DEF q
    <3> QED
      BY <2>1, <2>3, <3>1 DEF ExchangeRecords
  <2> QED
    BY <2>2, <2>3
<1>7. StepOf(s)
  <2>1. \A x \in Exchange :
          \/ exchange'[x] = exchange[x]
          \/ /\ exchange[x].session = s \/ exchange[x].state = "free"
             /\ exchange'[x].session = s \/ exchange'[x] = NoExchange
    BY <1>6
  <2> QED
    BY <1>5, <2>1 DEF StepOf
<1>8. \A x \in Exchange : Hold(x)' = Hold(x)
  BY <1>6 DEF Hold
<1>9. ProxyStep(s)
  BY <1>1, <1>4, <1>5, FreshIs DEF ProxyStep
<1> QED
  BY <1>1, <1>5, <1>7, <1>8, <1>9, FreshIs, GiveBackAccounts

----------------------------------------------------------------------------
(* The accounts of the exchange's handlers.                                *)

\* An exchange without a share goes on, ends or is destroyed, and its session
\* with it.
LEMMA ExchangeStepAccounts ==
    ASSUME SessionInv, SessionInv', Accounted, NEW s \in Session, NEW x \in Exchange, exchange[x].session = s,
           NEW e \in ExchangeRecords, exchange' = [exchange EXCEPT ![x] = e],
           e.session = s \/ e = NoExchange, e.shares = FALSE, exchange[x].shares = FALSE,
           NEW r \in SessionRecords, session' = [session EXCEPT ![s] = r], ProxyStep(s),
           session[s].op # "write" \/ r = session[s],
           current_bytes' + session[s].request + session[s].response + exchange[x].request + exchange[x].body
             = current_bytes + r.request + r.response + e.request + e.body
    PROVE  Accounted'
<1>1. /\ session \in [Session -> SessionRecords] /\ session[s] \in SessionRecords
      /\ exchange \in [Exchange -> ExchangeRecords] /\ exchange[x] \in ExchangeRecords
      /\ current_bytes \in Nat /\ current_bytes' \in Nat
  BY SessionIs DEF SessionInv, SessionTypeOK
<1>2. session'[s] = r /\ \A t \in Session : t # s => session'[t] = session[t]
  BY <1>1
<1>3. exchange'[x] = e /\ \A y \in Exchange : y # x => exchange'[y] = exchange[y]
  BY <1>1
<1>4. StepOf(s)
  BY <1>2, <1>3 DEF StepOf
<1>5. Hold(x) = exchange[x].request + exchange[x].body /\ Hold(x)' = e.request + e.body
  BY <1>3 DEF Hold
<1>6. \A y \in Exchange : y # x => Hold(y)' = Hold(y)
  BY <1>3 DEF Hold
<1>7. Shares(s)' = Shares(s)
  <2>1. ASSUME NEW y \in Exchange
        PROVE  (exchange'[y].session = s /\ exchange'[y].shares) <=> (exchange[y].session = s /\ exchange[y].shares)
    <3>1. CASE y = x
      BY <1>3, <3>1
    <3>2. CASE y # x
      BY <1>3, <3>2
    <3> QED
      BY <3>1, <3>2
  <2> QED
    BY <2>1, Zenon DEF Shares
<1>8. /\ session[s].request \in Nat /\ session[s].response \in Nat /\ r.request \in Nat /\ r.response \in Nat
      /\ exchange[x].request \in Nat /\ exchange[x].body \in Nat /\ e.request \in Nat /\ e.body \in Nat
  BY <1>1 DEF SessionRecords, ExchangeRecords
<1> DEFINE a == session[s].request + session[s].response
           b == r.request + r.response
           c == exchange[x].request + exchange[x].body
           d == e.request + e.body
           n == current_bytes'
<1>9. a \in Nat /\ b \in Nat /\ c \in Nat /\ d \in Nat /\ n \in Nat
  BY <1>1, <1>8
<1>10. n + a + c = current_bytes + b + d
  BY <1>1, <1>8
<1>11. CASE session[s].op # "write"
  <2>1. Own(s) = a /\ Own(s)' = b
    BY <1>2, <1>7, <1>11, NoShares, OwnIs
  <2>2. current_bytes' + Own(s) + Hold(x) = current_bytes + Own(s)' + Hold(x)'
    <3> HIDE DEF a, b
    <3> QED
      BY <1>5, <1>10, <2>1
  <2> QED
    BY <1>4, <1>6, <2>2, ExchangeAccounts
<1>12. CASE r = session[s]
  <2>1. Own(s)' = Own(s) /\ Own(s) \in Nat
    BY <1>2, <1>7, <1>12, OwnIs, OwnBounded
  <2>2. a = b
    BY <1>12
  <2>3. n + c = current_bytes + d
    <3> HIDE DEF a, b, c, d, n
    <3> QED
      BY <1>1, <1>9, <1>10, <2>2
  <2> DEFINE o == Own(s)
  <2>4. o \in Nat
    BY <2>1
  <2>5. n + o + c = current_bytes + o + d
    <3> HIDE DEF o, c, d, n
    <3> QED
      BY <1>1, <1>9, <2>3, <2>4
  <2>6. current_bytes' + Own(s) + Hold(x) = current_bytes + Own(s)' + Hold(x)'
    BY <1>5, <2>1, <2>5
  <2> QED
    BY <1>4, <1>6, <2>6, ExchangeAccounts
<1> QED
  BY <1>11, <1>12

\* The exchange reserves bytes for the upstream's body.
LEMMA ExchangeReservesAccounts ==
    ASSUME SessionInv, SessionInv', Accounted, NEW x \in Exchange, ExchangeReserves(x)
    PROVE  Accounted'
<1> DEFINE s == exchange[x].session
           r == session[s]
<1>1. exchange[x].state = "waiting" /\ exchange[x].state \in Running /\ exchange[x].body = 0
  BY DEF ExchangeReserves, At, Running
<1>2. PICK bytes \in Reservations : /\ exchange' = [exchange EXCEPT ![x].body = bytes]
                                    /\ current_bytes' = current_bytes + bytes
  BY DEF ExchangeReserves
<1>3. UNCHANGED <<session, active_proxies>>
  BY DEF ExchangeReserves
<1>4. /\ s \in Session /\ r \in SessionRecords /\ exchange[x] \in ExchangeRecords
      /\ r.request = 0 /\ r.response = 0 /\ exchange[x].shares = FALSE
  BY <1>1, RunningIs
<1>5. /\ session \in [Session -> SessionRecords] /\ exchange \in [Exchange -> ExchangeRecords]
      /\ current_bytes \in Nat
  BY <1>4, SessionIs
<1>6. bytes \in Nat
  BY SessionLimitsAssumption DEF Reservations
<1> DEFINE e == [exchange[x] EXCEPT !.body = bytes]
<1>7. /\ e \in ExchangeRecords /\ e.session = s /\ e.shares = FALSE /\ e.body = bytes
      /\ e.request = exchange[x].request /\ e.request \in Nat
  BY <1>4, <1>6 DEF ExchangeRecords
<1>8. exchange' = [exchange EXCEPT ![x] = e] /\ session' = [session EXCEPT ![s] = r]
  BY <1>2, <1>3, <1>4, <1>5
<1>9. ProxyStep(s)
  BY <1>3 DEF ProxyStep
<1>10. exchange[x].session = s /\ r = session[s]
  OBVIOUS
<1> HIDE DEF e, s, r
<1>11. current_bytes' + r.request + r.response + exchange[x].request + exchange[x].body
         = current_bytes + r.request + r.response + e.request + e.body
  BY <1>1, <1>2, <1>4, <1>5, <1>6, <1>7
<1> QED
  BY <1>4, <1>7, <1>8, <1>9, <1>10, <1>11, ExchangeStepAccounts

\* complete and fail, before the response has begun.
LEMMA OnProxyCompleteAccounts ==
    ASSUME SessionInv, SessionInv', Accounted, NEW x \in Exchange, NEW failed \in BOOLEAN,
           OnProxyComplete(x, failed)
    PROVE  Accounted'
<1> DEFINE s == exchange[x].session
           r == [session[s] EXCEPT !.exchange = None, !.proxy_permit = FALSE]
           kept == IF failed THEN exchange[x].body ELSE 0
<1>1. exchange[x].state = "waiting" /\ exchange[x].state \in Running
  BY DEF OnProxyComplete, At, Running
<1>2. PICK close \in BOOLEAN, bytes \in 0 .. (exchange[x].body - kept) :
          /\ session' = [session EXCEPT ![s] =
                [WriteResponse(r, close \/ LastRequest(r)) EXCEPT !.response = bytes]]
          /\ current_bytes' = Returned(current_bytes, exchange[x].body - kept - bytes)
  BY DEF OnProxyComplete
<1>3. /\ exchange' = [exchange EXCEPT ![x].state = "over", ![x].body = kept]
      /\ active_proxies' = ProxyReleased(active_proxies)
  BY DEF OnProxyComplete
<1>4. /\ s \in Session /\ session[s] \in SessionRecords /\ exchange[x] \in ExchangeRecords
      /\ session[s].request = 0 /\ session[s].response = 0 /\ session[s].op # "write"
      /\ session[s].proxy_permit = TRUE
      /\ session[s].completed = FALSE /\ session[s].responses = 0 /\ exchange[x].shares = FALSE
  BY <1>1, RunningIs, ZenonT(60)
<1>5. /\ session \in [Session -> SessionRecords] /\ exchange \in [Exchange -> ExchangeRecords]
      /\ current_bytes \in Nat
  BY <1>4, SessionIs
<1>6. exchange[x].body \in Nat /\ exchange[x].request \in Nat
  BY <1>4 DEF ExchangeRecords
<1>7. /\ kept \in Nat /\ bytes \in Nat /\ kept + bytes <= exchange[x].body
      /\ exchange[x].body - kept - bytes \in Nat
  BY <1>6
<1>8. /\ r \in SessionRecords /\ r.proxy_permit = FALSE /\ r.request = 0
      /\ r.completed = FALSE /\ r.responses = 0
  BY <1>4 DEF SessionRecords
<1> DEFINE c == close \/ LastRequest(r)
           v == WriteResponse(r, c)
           w == [v EXCEPT !.response = bytes]
           e == [exchange[x] EXCEPT !.state = "over", !.body = kept]
<1>9. c \in BOOLEAN
  BY Zenon
<1>10. session' = [session EXCEPT ![s] = w]
  BY <1>2
<1> HIDE DEF c, r, kept
<1>11. v \in SessionRecords /\ v.request = 0 /\ v.proxy_permit = FALSE
  BY <1>8, <1>9, WriteResponseIs
<1> HIDE DEF v
<1>12. w \in SessionRecords /\ w.request = 0 /\ w.response = bytes /\ w.proxy_permit = FALSE
  BY <1>7, <1>11 DEF SessionRecords
<1>13. /\ e \in ExchangeRecords /\ e.session = s /\ e.shares = FALSE /\ e.body = kept
       /\ e.request = exchange[x].request
  BY <1>4, <1>7 DEF ExchangeRecords
<1>14. exchange' = [exchange EXCEPT ![x] = e]
  BY <1>3, <1>5
<1>15. exchange[x].session = s
  OBVIOUS
<1> HIDE DEF w, e, s
<1>16. session'[s] = w
  BY <1>4, <1>5, <1>10
<1>17. ProxyStep(s)
  BY <1>3, <1>4, <1>12, <1>16 DEF ProxyStep
<1>18. current_bytes' = current_bytes - (exchange[x].body - kept - bytes)
       /\ exchange[x].body <= current_bytes
  <2>1. Hold(x) = exchange[x].request + exchange[x].body /\ Hold(x) <= current_bytes
    BY HoldBounded DEF Hold
  <2>2. exchange[x].body <= current_bytes
    BY <1>5, <1>6, <2>1
  <2>3. exchange[x].body - kept - bytes <= current_bytes
    BY <1>5, <1>6, <1>7, <2>2
  <2> QED
    BY <1>2, <1>5, <1>7, <2>2, <2>3, ReturnedIs
<1>19. current_bytes' + session[s].request + session[s].response + exchange[x].request + exchange[x].body
         = current_bytes + w.request + w.response + e.request + e.body
  <2> DEFINE n == current_bytes'
  <2>1. n = current_bytes - (exchange[x].body - kept - bytes)
    BY <1>18
  <2> HIDE DEF n
  <2>2. n + exchange[x].request + exchange[x].body = current_bytes + bytes + exchange[x].request + kept
    BY <1>5, <1>6, <1>7, <1>18, <2>1
  <2>3. n + 0 + 0 + exchange[x].request + exchange[x].body = current_bytes + 0 + bytes + exchange[x].request + kept
    BY <1>5, <1>6, <1>7, <1>18, <2>1
  <2> QED
    BY <1>4, <1>12, <1>13, <2>3 DEF n
<1> QED
  BY <1>4, <1>10, <1>12, <1>13, <1>14, <1>15, <1>17, <1>19, ExchangeStepAccounts

\* start_stream
LEMMA OnStreamHeaderAccounts ==
    ASSUME SessionInv, SessionInv', Accounted, current_bytes <= max_bytes, NEW x \in Exchange, OnStreamHeader(x)
    PROVE  Accounted'
<1> DEFINE s == exchange[x].session
           r == session[s]
<1>1. exchange[x].state = "waiting" /\ exchange[x].state \in Running /\ exchange[x].body = 0
  BY DEF OnStreamHeader, At, Running
<1>2. PICK close \in BOOLEAN, bytes \in {0, Min({max_body_bytes, max_bytes - current_bytes})} :
          /\ session' = [session EXCEPT ![s] = WriteStreamHeader(@, close \/ LastRequest(@))]
          /\ exchange' = [exchange EXCEPT ![x].state = "stream_writing", ![x].body = bytes]
          /\ current_bytes' = current_bytes + bytes
  BY DEF OnStreamHeader
<1>3. active_proxies' = active_proxies
  BY DEF OnStreamHeader
<1>4. /\ s \in Session /\ r \in SessionRecords /\ exchange[x] \in ExchangeRecords
      /\ r.op # "write" /\ r.request = 0 /\ r.response = 0 /\ r.proxy_permit = TRUE
      /\ r.completed = FALSE /\ r.responses = 0 /\ exchange[x].shares = FALSE
  BY <1>1, RunningIs, ZenonT(60)
<1>5. /\ session \in [Session -> SessionRecords] /\ exchange \in [Exchange -> ExchangeRecords]
      /\ current_bytes \in Nat
  BY <1>4, SessionIs
<1>6. bytes \in Nat
  <2>1. max_body_bytes \in Nat /\ max_bytes - current_bytes \in Nat
    BY <1>5, SessionLimitsAssumption
  <2> QED
    BY <2>1, MinIs
<1> DEFINE c == close \/ LastRequest(r)
           w == WriteStreamHeader(r, c)
           e == [exchange[x] EXCEPT !.state = "stream_writing", !.body = bytes]
<1>7. c \in BOOLEAN
  BY Zenon
<1>8. session' = [session EXCEPT ![s] = w]
  BY <1>2, <1>4, <1>5
<1>9. exchange[x].session = s /\ session[s] = r
  OBVIOUS
<1> HIDE DEF c, r
<1>11. w \in SessionRecords /\ w.request = 0 /\ w.response = 0 /\ w.proxy_permit = TRUE
  BY <1>4, <1>7, WriteStreamHeaderIs
<1>12. /\ e \in ExchangeRecords /\ e.session = s /\ e.shares = FALSE /\ e.body = bytes
       /\ e.request = exchange[x].request /\ e.request \in Nat
  BY <1>4, <1>6 DEF ExchangeRecords, Running
<1>13. exchange' = [exchange EXCEPT ![x] = e]
  BY <1>2, <1>5
<1> HIDE DEF w, e, s
<1>14. session'[s] = w
  BY <1>4, <1>5, <1>8
<1>15. ProxyStep(s)
  BY <1>3, <1>4, <1>9, <1>11, <1>14 DEF ProxyStep
<1>16. current_bytes' + session[s].request + session[s].response + exchange[x].request + exchange[x].body
         = current_bytes + w.request + w.response + e.request + e.body
  BY <1>1, <1>2, <1>4, <1>5, <1>6, <1>9, <1>11, <1>12
<1>17. session[s].op # "write"
  BY <1>4, <1>9
<1>18. exchange[x].session = s
  BY <1>9
<1> QED
  BY <1>4, <1>8, <1>11, <1>12, <1>13, <1>15, <1>16, <1>17, <1>18, ExchangeStepAccounts

\* write_stream_body
LEMMA OnStreamBodyAccounts ==
    ASSUME SessionInv, SessionInv', Accounted, NEW x \in Exchange, OnStreamBody(x)
    PROVE  Accounted'
<1> DEFINE s == exchange[x].session
           r == session[s]
<1>1. exchange[x].state = "stream_reading" /\ exchange[x].state \in Running
  BY DEF OnStreamBody, At, Running
<1>2. /\ session' = [session EXCEPT ![s].op = "stream_body"]
      /\ exchange' = [exchange EXCEPT ![x].state = "stream_writing"]
      /\ current_bytes' = current_bytes /\ active_proxies' = active_proxies
  BY DEF OnStreamBody
<1>3. /\ s \in Session /\ r \in SessionRecords /\ exchange[x] \in ExchangeRecords
      /\ r.op # "write" /\ r.request = 0 /\ r.response = 0 /\ r.proxy_permit = TRUE
      /\ exchange[x].shares = FALSE
  BY <1>1, RunningIs, ZenonT(60)
<1>4. session \in [Session -> SessionRecords] /\ exchange \in [Exchange -> ExchangeRecords]
  BY <1>3, SessionIs
<1> DEFINE w == [r EXCEPT !.op = "stream_body"]
           e == [exchange[x] EXCEPT !.state = "stream_writing"]
<1>5. session' = [session EXCEPT ![s] = w] /\ exchange' = [exchange EXCEPT ![x] = e]
  BY <1>2, <1>3, <1>4
<1>6. exchange[x].session = s /\ session[s] = r
  OBVIOUS
<1> HIDE DEF r
<1>7. w \in SessionRecords /\ w.request = 0 /\ w.response = 0 /\ w.proxy_permit = TRUE
  BY <1>3 DEF SessionRecords, SessionOps, StreamOps
<1>8. /\ e \in ExchangeRecords /\ e.session = s /\ e.shares = FALSE /\ e.body = exchange[x].body
      /\ e.request = exchange[x].request
  BY <1>3 DEF ExchangeRecords, Running
<1> HIDE DEF w, e, s
<1>9. session'[s] = w
  BY <1>3, <1>4, <1>5
<1>10. ProxyStep(s)
  BY <1>2, <1>3, <1>6, <1>7, <1>9 DEF ProxyStep
<1>11. current_bytes' + session[s].request + session[s].response + exchange[x].request + exchange[x].body
         = current_bytes + w.request + w.response + e.request + e.body
  BY <1>2, <1>3, <1>6, <1>7, <1>8
<1>12. session[s].op # "write" /\ exchange[x].session = s
  BY <1>3, <1>6
<1> QED
  BY <1>3, <1>5, <1>7, <1>8, <1>10, <1>11, <1>12, ExchangeStepAccounts

\* resume() and on_stream_complete
LEMMA OnStreamWrittenAccounts ==
    ASSUME SessionInv, SessionInv', Accounted, NEW s \in Session, OnStreamWritten(s)
    PROVE  Accounted'
<1> DEFINE x == session[s].exchange
           r == [session[s] EXCEPT !.exchange = None, !.proxy_permit = FALSE]
           more == ~r.close /\ ~r.draining
<1>1. session[s].op \in StreamOps /\ Unfinished(s)
  BY DEF OnStreamWritten
<1>2. \/ /\ session' = [session EXCEPT ![s].op = "none"]
         /\ exchange' = [exchange EXCEPT ![x].state = "stream_reading"]
         /\ UNCHANGED <<current_bytes, active_proxies>>
      \/ /\ session' = [session EXCEPT ![s] = IF more THEN ReadRequest(r) ELSE Closing(r)]
         /\ exchange' = [exchange EXCEPT ![x].state = "over"]
         /\ active_proxies' = ProxyReleased(active_proxies)
         /\ UNCHANGED current_bytes
      \/ CloseSocket(s, session[s], "none")
  BY DEF OnStreamWritten
<1>3. /\ session \in [Session -> SessionRecords] /\ exchange \in [Exchange -> ExchangeRecords]
      /\ session[s] \in SessionRecords /\ RecordOK(session[s]) /\ Linked(s, session[s], exchange)
  BY SessionIs
<1>4. x \in Exchange /\ exchange[x].session = s /\ exchange[x].state \in Running
  <2>1. ~session[s].silent
    BY <1>1, <1>3 DEF RecordOK, StreamOps
  <2>2. x # None
    BY <1>1, <1>3, <2>1 DEF Linked, Live, Unfinished
  <2>3. x \in Exchange
    BY <1>3, <2>2 DEF SessionRecords
  <2> QED
    BY <2>3, OwnExchangeIs
<1>5. /\ exchange[x] \in ExchangeRecords /\ session[s].op # "write" /\ session[s].request = 0
      /\ session[s].response = 0 /\ session[s].proxy_permit = TRUE /\ exchange[x].shares = FALSE
  <2> HIDE DEF x
  <2> QED
    BY <1>4, RunningIs
<1>6. CASE CloseSocket(s, session[s], "none")
  BY <1>6, StopAccounts
<1>7. ASSUME NEW w \in SessionRecords, w.request = 0, w.response = 0, NEW st \in {"stream_reading", "over"},
             session' = [session EXCEPT ![s] = w], exchange' = [exchange EXCEPT ![x].state = st],
             current_bytes' = current_bytes, ProxyStep(s)
      PROVE  Accounted'
  <2> DEFINE e == [exchange[x] EXCEPT !.state = st]
  <2>1. exchange' = [exchange EXCEPT ![x] = e]
    BY <1>3, <1>4, <1>7
  <2>2. /\ e \in ExchangeRecords /\ e.session = s /\ e.shares = FALSE /\ e.body = exchange[x].body
        /\ e.request = exchange[x].request
    BY <1>4, <1>5, <1>7 DEF ExchangeRecords, Running
  <2> HIDE DEF e, x
  <2>3. current_bytes' + session[s].request + session[s].response + exchange[x].request + exchange[x].body
          = current_bytes + w.request + w.response + e.request + e.body
    BY <1>5, <1>7, <2>2
  <2> QED
    BY <1>4, <1>5, <1>7, <2>1, <2>2, <2>3, ExchangeStepAccounts
<1>8. CASE /\ session' = [session EXCEPT ![s].op = "none"]
           /\ exchange' = [exchange EXCEPT ![x].state = "stream_reading"]
           /\ UNCHANGED <<current_bytes, active_proxies>>
  <2> DEFINE w == [session[s] EXCEPT !.op = "none"]
  <2>1. session' = [session EXCEPT ![s] = w]
    BY <1>3, <1>8
  <2>2. w \in SessionRecords /\ w.request = 0 /\ w.response = 0 /\ w.proxy_permit = TRUE
    BY <1>3, <1>5 DEF SessionRecords, SessionOps
  <2> HIDE DEF w
  <2>3. session'[s] = w
    BY <1>3, <2>1
  <2>4. ProxyStep(s)
    BY <1>5, <1>8, <2>2, <2>3 DEF ProxyStep
  <2>5. exchange' = [exchange EXCEPT ![x].state = "stream_reading"] /\ current_bytes' = current_bytes
    BY <1>8
  <2> HIDE DEF x
  <2> QED
    BY <1>7, <2>1, <2>2, <2>4, <2>5
<1>9. CASE /\ session' = [session EXCEPT ![s] = IF more THEN ReadRequest(r) ELSE Closing(r)]
           /\ exchange' = [exchange EXCEPT ![x].state = "over"]
           /\ active_proxies' = ProxyReleased(active_proxies)
           /\ UNCHANGED current_bytes
  <2> DEFINE w == IF more THEN ReadRequest(r) ELSE Closing(r)
  <2>1. session' = [session EXCEPT ![s] = w]
    BY <1>9
  <2>2. r \in SessionRecords /\ r.request = 0 /\ r.response = 0 /\ r.proxy_permit = FALSE
    BY <1>3, <1>5 DEF SessionRecords
  <2> HIDE DEF r
  <2>3. w \in SessionRecords /\ w.request = 0 /\ w.response = 0 /\ w.proxy_permit = FALSE
    <3>1. /\ ReadRequest(r) \in SessionRecords /\ ReadRequest(r).request = 0
          /\ ReadRequest(r).response = 0 /\ ReadRequest(r).proxy_permit = FALSE
      BY <2>2, ReadRequestIs
    <3>2. /\ Closing(r) \in SessionRecords /\ Closing(r).request = 0
          /\ Closing(r).response = 0 /\ Closing(r).proxy_permit = FALSE
      BY <2>2, ClosingIs
    <3>3. w = ReadRequest(r) \/ w = Closing(r)
      OBVIOUS
    <3> HIDE DEF w
    <3> QED
      BY <3>1, <3>2, <3>3
  <2> HIDE DEF w
  <2>4. session'[s] = w
    BY <1>3, <2>1
  <2>5. ProxyStep(s)
    BY <1>5, <1>9, <2>3, <2>4 DEF ProxyStep
  <2>6. exchange' = [exchange EXCEPT ![x].state = "over"] /\ current_bytes' = current_bytes
    BY <1>9
  <2> HIDE DEF x
  <2> QED
    BY <1>7, <2>1, <2>3, <2>5, <2>6
<1> QED
  BY <1>2, <1>6, <1>8, <1>9

\* The exchange is destroyed.  What it shares stays with the session.
LEMMA ExchangeReleasedAccounts ==
    ASSUME SessionInv, SessionInv', Accounted, NEW x \in Exchange, ExchangeReleased(x)
    PROVE  Accounted'
<1>0. PICK s : s = exchange[x].session
  OBVIOUS
<1>1. /\ exchange[x].state = "over" /\ exchange' = [exchange EXCEPT ![x] = NoExchange]
      /\ session' = session /\ active_proxies' = active_proxies
      /\ current_bytes' = Returned(current_bytes, exchange[x].body +
                             (IF exchange[x].shares THEN 0 ELSE exchange[x].request))
  BY DEF ExchangeReleased, At
<1>2. exchange[x] \in ExchangeRecords /\ ExchangeOK(x, exchange[x], session)
  BY TypeIs DEF SessionInv
<1>3. s \in Session
  BY <1>0, <1>1, <1>2 DEF ExchangeOK
<1>4. /\ session \in [Session -> SessionRecords] /\ exchange \in [Exchange -> ExchangeRecords]
      /\ current_bytes \in Nat /\ current_bytes' \in Nat
      /\ session[s] \in SessionRecords /\ OneShare(s, exchange)
  BY <1>3, SessionIs DEF SessionInv, SessionTypeOK
<1>5. /\ exchange[x].body \in Nat /\ exchange[x].request \in Nat /\ exchange[x].shares \in BOOLEAN
      /\ session[s].request \in Nat /\ session[s].response \in Nat
  BY <1>2, <1>4 DEF ExchangeRecords, SessionRecords
<1>6. exchange[x].request + exchange[x].body <= current_bytes
  BY HoldBounded DEF Hold
<1>7. exchange[x].session = s
  BY <1>0
<1>8. ProxyStep(s)
  BY <1>1 DEF ProxyStep
<1> DEFINE n == current_bytes'
<1>9. CASE exchange[x].shares = FALSE
  <2>1. n = current_bytes - (exchange[x].body + exchange[x].request)
    <3>1. /\ exchange[x].body + exchange[x].request \in Nat
          /\ exchange[x].body + exchange[x].request <= current_bytes
      BY <1>4, <1>5, <1>6
    <3>2. current_bytes' = Returned(current_bytes, exchange[x].body + exchange[x].request)
      BY <1>1, <1>9
    <3> QED
      BY <1>4, <3>1, <3>2, ReturnedIs
  <2>2. session' = [session EXCEPT ![s] = session[s]]
    BY <1>1, <1>3, <1>4
  <2>3. n \in Nat
    BY <1>4
  <2> HIDE DEF n
  <2>4. n + session[s].request + session[s].response + exchange[x].request + exchange[x].body
          = current_bytes + session[s].request + session[s].response + 0 + 0
    BY <1>4, <1>5, <1>6, <2>1, <2>3
  <2>5. current_bytes' + session[s].request + session[s].response + exchange[x].request + exchange[x].body
          = current_bytes + session[s].request + session[s].response + NoExchange.request + NoExchange.body
    BY <2>4, NoExchangeIs DEF n
  <2>6. exchange' = [exchange EXCEPT ![x] = NoExchange]
    BY <1>1
  <2> QED
    BY <1>3, <1>4, <1>7, <1>8, <1>9, <2>2, <2>5, <2>6, NoExchangeIs, ExchangeStepAccounts
<1>10. CASE exchange[x].shares = TRUE
  <2>1. n = current_bytes - exchange[x].body
    <3>1. exchange[x].body <= current_bytes /\ exchange[x].body + 0 = exchange[x].body
      BY <1>4, <1>5, <1>6
    <3>2. current_bytes' = Returned(current_bytes, exchange[x].body)
      BY <1>1, <1>10, <3>1
    <3> QED
      BY <1>4, <1>5, <3>1, <3>2, ReturnedIs
  <2>2. session[s].request = exchange[x].request
    BY <1>2, <1>7, <1>10 DEF ExchangeOK
  <2>3. exchange'[x] = NoExchange /\ \A y \in Exchange : y # x => exchange'[y] = exchange[y]
    BY <1>1, <1>4
  <2>4. StepOf(s)
    BY <1>1, <1>7, <2>3 DEF StepOf
  <2>5. Hold(x) = exchange[x].request + exchange[x].body /\ Hold(x)' = 0
    BY <2>3, NoExchangeIs DEF Hold
  <2>6. \A y \in Exchange : y # x => Hold(y)' = Hold(y)
    BY <2>3 DEF Hold
  <2>7. Shares(s) # {}
    BY <1>7, <1>10 DEF Shares
  <2>8. Shares(s)' = {}
    <3>1. ASSUME NEW y \in Exchange, y # x
          PROVE  ~(exchange[y].session = s /\ exchange[y].shares)
      BY <1>4, <1>7, <1>10, <3>1 DEF OneShare
    <3>2. ASSUME NEW y \in Exchange
          PROVE  ~(exchange'[y].session = s /\ exchange'[y].shares)
      BY <2>3, <3>1, NoExchangeIs
    <3> QED
      BY <3>2, Zenon DEF Shares
  <2>9. Own(s) = session[s].response /\ Own(s)' = session[s].request + session[s].response
    <3>1. Own(s) = 0 + session[s].response
      BY <2>7, OwnIs
    <3>2. Own(s)' = session[s].request + session[s].response
      BY <1>1, <2>8, OwnIs
    <3> QED
      BY <1>5, <3>1, <3>2
  <2>10. n \in Nat
    BY <1>4
  <2>11. n + session[s].response + (exchange[x].request + exchange[x].body)
           = current_bytes + (session[s].request + session[s].response) + 0
    <3> HIDE DEF n
    <3> QED
      BY <1>4, <1>5, <1>6, <2>1, <2>2, <2>10
  <2>12. current_bytes' + Own(s) + Hold(x) = current_bytes + Own(s)' + Hold(x)'
    BY <2>5, <2>9, <2>11
  <2> QED
    BY <1>3, <1>8, <2>4, <2>6, <2>12, ExchangeAccounts
<1> QED
  BY <1>5, <1>9, <1>10

\* Every step keeps the accounts.
LEMMA AccountsStep ==
    ASSUME SessionInv, SessionInv', Accounted, current_bytes <= max_bytes, SessionNext
    PROVE  Accounted'
<1>1. ASSUME NEW s \in Session, StartSession(s) \/ BeginDrain(s) \/ StopSession(s)
      PROVE  Accounted'
  <2>1. CASE StopSession(s)
    BY <2>1, StopAccounts DEF StopSession
  <2> QED
    BY <1>1, <2>1, StartSessionAccounts, BeginDrainAccounts
<1>2. ASSUME NEW s \in Session, SessionHandler(s)
      PROVE  Accounted'
  <2>1. CASE OnOperationFails(s)
    BY <2>1, StopAccounts DEF OnOperationFails
  <2>2. CASE OnShutdown(s)
    BY <2>2, StopAccounts DEF OnShutdown
  <2> QED
    BY <1>2, <2>1, <2>2, OnHandshakeAccounts, OnBadRequestAccounts, OnReadHeaderAccounts,
       OnReadBodyAccounts, OnWriteAccounts, OnStreamWrittenAccounts, LateHandlerAccounts DEF SessionHandler
<1>3. ASSUME NEW x \in Exchange, ExchangeHandler(x)
      PROVE  Accounted'
  <2>1. CASE OnExchangeAborted(x)
    <3> DEFINE s == exchange[x].session
    <3>1. exchange[x].state \in Running /\ CloseSocket(s, session[s], session[s].op)
      BY <2>1 DEF OnExchangeAborted
    <3>2. s \in Session
      BY <3>1, RunningIs
    <3> HIDE DEF s
    <3> QED
      BY <3>1, <3>2, StopAccounts
  <2>2. CASE OnExchangeFails(x)
    BY <2>1, <2>2, OnProxyCompleteAccounts DEF OnExchangeFails
  <2>3. CASE OnProxyComplete(x, FALSE)
    BY <2>3, OnProxyCompleteAccounts
  <2> QED
    BY <1>3, <2>1, <2>2, <2>3, ExchangeReservesAccounts, OnStreamHeaderAccounts, OnStreamBodyAccounts,
       ExchangeReleasedAccounts DEF ExchangeHandler
<1> QED
  BY <1>1, <1>2, <1>3 DEF SessionNext

\* Nothing is reserved at the start.
LEMMA AccountsInit ==
    ASSUME SessionInit
    PROVE  Accounted
<1>1. /\ session = [s \in Session |-> Fresh] /\ exchange = [x \in Exchange |-> NoExchange]
      /\ current_bytes = 0 /\ active_proxies = 0
  BY DEF SessionInit
<1>2. SessionInv
  BY SessionInitInv DEF WithinBudget
<1>3. IsFiniteSet(Session) /\ IsFiniteSet(Exchange)
  BY SessionSetsAssumption
<1>4. Owned \in [Session -> Nat] /\ Held \in [Exchange -> Nat]
  BY <1>2, AccountsAreNat
<1>5. \A s \in Session : Owned[s] = 0
  <2>1. ASSUME NEW s \in Session
        PROVE  Own(s) = 0
    <3>1. session[s].request = 0 /\ session[s].response = 0
      BY <1>1, FreshIs
    <3> QED
      BY <3>1, OwnIs
  <2> QED
    BY <2>1 DEF Owned
<1>6. \A x \in Exchange : Held[x] = 0
  <2>1. ASSUME NEW x \in Exchange
        PROVE  Hold(x) = 0
    <3>1. exchange[x].request = 0 /\ exchange[x].body = 0
      BY <1>1, NoExchangeIs
    <3> QED
      BY <3>1 DEF Hold
  <2> QED
    BY <2>1 DEF Held
<1>7. Bytes(Owned) = 0 /\ Bytes(Held) = 0
  BY <1>3, <1>4, <1>5, <1>6, BytesIs
<1>8. Cardinality(Proxies) = 0
  <2>1. Proxies = {}
    BY <1>1, FreshIs DEF Proxies
  <2> QED
    BY <2>1, FS_EmptySet
<1>9. 0 <= max_proxies
  BY SessionLimitsAssumption
<1> QED
  BY <1>1, <1>7, <1>8, <1>9 DEF Accounted

\* The two shared counters are exactly what the permits in existence hold: for
\* every number of connections and exchanges that linger, with a permit that is
\* shared counted once, in whatever order session and exchange go.  The clamps
\* of release and shrink_to never take effect.
THEOREM PermitTheorem == SessionSafety => []PermitAccounting
<1>1. SessionInit => Accounted
  BY AccountsInit
<1>2. WithinBudget /\ WithinBudget' /\ Accounted /\ [SessionNext]_sessionStateVars => Accounted'
  <2> SUFFICES ASSUME WithinBudget, WithinBudget', Accounted, [SessionNext]_sessionStateVars
               PROVE  Accounted'
    OBVIOUS
  <2>1. CASE SessionNext
    BY <2>1, AccountsStep DEF WithinBudget
  <2>2. CASE UNCHANGED sessionStateVars
    BY <2>2 DEF sessionStateVars, Accounted, Owned, Held, Own, Hold, Gives, Shares, Proxies
  <2> QED
    BY <2>1, <2>2
<1>3. WithinBudget /\ Accounted => PermitAccounting
  <2> SUFFICES ASSUME WithinBudget, Accounted
               PROVE  PermitAccounting
    OBVIOUS
  <2>1. SessionInv /\ current_bytes <= max_bytes
    BY DEF WithinBudget
  <2>2. current_bytes = Bytes([s \in Session |-> Gives(s, session[s])])
                        + Bytes([x \in Exchange |-> exchange[x].request + exchange[x].body])
    BY Zenon DEF Accounted, Owned, Held, Own, Hold
  <2>3. active_proxies <= max_proxies /\ active_proxies = Cardinality({s \in Session : session[s].proxy_permit})
    BY DEF Accounted, Proxies
  <2>4. ASSUME NEW s \in Session
        PROVE  session[s].proxy_permit <=> session[s].exchange # None
    BY <2>1, SessionIs DEF RecordOK
  <2>5. ASSUME NEW s \in Session, Idle(s)
        PROVE  session[s].request = 0 /\ session[s].response = 0 /\ ~session[s].proxy_permit
    BY <2>1, <2>5, ReadingIs DEF Idle
  <2> QED
    BY <2>1, <2>2, <2>3, <2>4, <2>5 DEF PermitAccounting
<1> QED
  BY <1>1, <1>2, <1>3, SessionInvariance, PTL DEF SessionSafety
=============================================================================
