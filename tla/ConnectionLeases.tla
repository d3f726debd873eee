-------------------------- MODULE ConnectionLeases --------------------------
(***************************************************************************)
(* What the upstream pool promises the exchanges, without slots, deadlines *)
(* or timers: a connection is lent to one exchange at a time, only a clean *)
(* one is cached or lent again, and the cache may at any time forget what  *)
(* it holds.  UpstreamPool implements this specification and               *)
(* HttpProxyExchange relies on it.                                         *)
(***************************************************************************)


CONSTANTS
    Conn,              \* UpstreamConnection objects
    Backend,           \* what matches() compares: host, port, scheme, TLS context
    None               \* an empty lease, an empty slot

ASSUME NoneAssumption == None \notin Conn /\ None \notin Backend

VARIABLES
    idle,              \* the connections in the cache
    leased,            \* the connections exchanges hold
    backend, socket,
    pool_stopped

leaseVars == <<idle, leased, backend, socket, pool_stopped>>

\* "dirty": open, with bytes that no request asked for.
SocketState == {"none", "unopened", "open", "dirty", "closed"}
Clean(c)    == socket[c] = "open"
Free        == {c \in Conn : socket[c] = "none"}

LeaseInit ==
    /\ idle = {} /\ leased = {}
    /\ backend = [c \in Conn |-> None]
    /\ socket = [c \in Conn |-> "none"]
    /\ pool_stopped = FALSE

\* The connections of D are destroyed.
Destroy(D) ==
    /\ backend' = [c \in Conn |-> IF c \in D THEN None ELSE backend[c]]
    /\ socket' = [c \in Conn |-> IF c \in D THEN "none" ELSE socket[c]]

\* A cached connection is lent; others may be found stale on the way.
Lend(b, c, D) ==
    /\ ~pool_stopped
    /\ c \in idle \ D /\ backend[c] = b /\ Clean(c)
    /\ idle' = idle \ (D \cup {c})
    /\ leased' = leased \cup {c}
    /\ Destroy(D)
    /\ UNCHANGED pool_stopped

\* The cache has none for this backend: the exchange makes its own.
Create(b, c, D) ==
    /\ c \in Free
    /\ idle' = idle \ D
    /\ leased' = leased \cup {c}
    /\ backend' = [k \in Conn |-> IF k = c THEN b ELSE IF k \in D THEN None ELSE backend[k]]
    /\ socket' = [k \in Conn |-> IF k = c THEN "unopened" ELSE IF k \in D THEN "none" ELSE socket[k]]
    /\ UNCHANGED pool_stopped

\* A returned connection is cached, and may push out stale ones, ...
Cache(c, D) ==
    /\ ~pool_stopped
    /\ c \in leased /\ Clean(c)
    /\ idle' = (idle \ D) \cup {c}
    /\ leased' = leased \ {c}
    /\ Destroy(D)
    /\ UNCHANGED pool_stopped

\* ... or it is destroyed; so is one whose exchange ends with it.
Drop(c) ==
    /\ c \in leased
    /\ leased' = leased \ {c}
    /\ Destroy({c})
    /\ UNCHANGED <<idle, pool_stopped>>

\* The cache gives up connections of its own.
Forget(D) ==
    /\ idle' = idle \ D
    /\ Destroy(D)
    /\ UNCHANGED <<leased, pool_stopped>>

\* The pool stops, for ever, possibly in the middle of a return.
Halt(D) ==
    /\ ~pool_stopped
    /\ D \subseteq leased
    /\ pool_stopped' = TRUE
    /\ idle' = {}
    /\ leased' = leased \ D
    /\ Destroy(idle \cup D)

\* An upstream sends bytes that nobody asked for.
Soil(c) ==
    /\ Clean(c)
    /\ socket' = [socket EXCEPT ![c] = "dirty"]
    /\ UNCHANGED <<idle, leased, backend, pool_stopped>>

\* The exchange that holds c opens or closes it.
Use(c) ==
    /\ c \in leased
    /\ \/ socket[c] = "unopened" /\ socket' = [socket EXCEPT ![c] = "open"]
       \/ socket[c] \in {"open", "dirty"} /\ socket' = [socket EXCEPT ![c] = "closed"]
    /\ UNCHANGED <<idle, leased, backend, pool_stopped>>

LeaseNext ==
    \/ \E D \in SUBSET idle, c \in Conn, b \in Backend : Lend(b, c, D) \/ Create(b, c, D)
    \/ \E D \in SUBSET idle, c \in Conn : Cache(c, D)
    \/ \E c \in Conn : Drop(c) \/ Soil(c) \/ Use(c)
    \/ \E D \in SUBSET idle : Forget(D)
    \/ Halt({}) \/ \E c \in leased : Halt({c})

LeaseSpec == LeaseInit /\ [][LeaseNext]_leaseVars
=============================================================================
