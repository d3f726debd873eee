---------------------------- MODULE UpstreamPool ----------------------------
(***************************************************************************)
(* UpstreamPool: the bounded cache of idle upstream connections, its       *)
(* cleanup timer, and the exclusive leases it gives out.  A lease is a     *)
(* unique_ptr in the code: `leased' is the set of the connections that     *)
(* exchanges hold, and destroying a connection closes its socket.          *)
(*                                                                         *)
(* Time is kept as the time left: only differences of steady_clock values  *)
(* are ever compared, and a deadline that has passed stays at 0.           *)
(***************************************************************************)
EXTENDS Naturals, FiniteSets

CONSTANTS
    Conn, Backend, None,     \* as in ConnectionLeases
    max_idle, idle_timeout

ASSUME ConnAssumption == None \notin Conn /\ None \notin Backend
ASSUME PoolAssumption == max_idle \in Nat /\ idle_timeout \in Nat \ {0}

VARIABLES
    slot, ttl,                        \* idle_: the connection and the time left of each entry
    timer_pending, pool_stopped,
    cleanupOp, cleanup_ttl,           \* the wait on cleanup_ and the time left of it
    leased, backend, socket           \* the connections

slotVars == <<slot, ttl, timer_pending, pool_stopped, cleanupOp, cleanup_ttl>>
connVars == <<leased, backend, socket>>
poolVars == <<slotVars, connVars>>

Slots       == 1 .. max_idle
SocketState == {"none", "unopened", "open", "dirty", "closed"}
CleanupOps  == {"none", "armed", "fired", "failed", "aborted"}

Used    == {i \in Slots : slot[i] # None}
Idle    == {slot[i] : i \in Used}
Free    == {c \in Conn : socket[c] = "none"}
First(S)    == CHOOSE i \in S : \A j \in S : i <= j
Clean(c)    == socket[c] = "open"      \* and no bytes are available
Matches(c, b) == backend[c] = b

PoolInit ==
    /\ slot = [i \in Slots |-> None]
    /\ ttl = [i \in Slots |-> 0]
    /\ timer_pending = FALSE /\ pool_stopped = FALSE
    /\ cleanupOp = "none" /\ cleanup_ttl = 0
    /\ leased = {}
    /\ backend = [c \in Conn |-> None]
    /\ socket = [c \in Conn |-> "none"]

\* The connections of D are destroyed, and the leases become `held'.
Destroy(D, held) ==
    /\ leased' = held
    /\ backend' = [c \in Conn |-> IF c \in D THEN None ELSE backend[c]]
    /\ socket' = [c \in Conn |-> IF c \in D THEN "none" ELSE socket[c]]

\* expire: the entries whose deadline is not after now.
Expired == {i \in Used : ttl[i] = 0}

\* idle_ once the entries of `gone' are reset.
Remaining(gone) == [i \in Slots |-> IF i \in gone THEN None ELSE slot[i]]
TimeLeft(gone)  == [i \in Slots |-> IF i \in gone THEN 0 ELSE ttl[i]]

\* Mutant: the cleanup always waits the whole idle timeout.
ArmCleanupLate(entries, left, pending) ==
    LET used == {i \in Slots : entries[i] # None} IN
    IF pending \/ used = {}
    THEN /\ timer_pending' = pending
         /\ UNCHANGED cleanup_ttl
         /\ cleanupOp' = IF pending THEN cleanupOp ELSE "none"
    ELSE /\ timer_pending' = TRUE
         /\ cleanup_ttl' = idle_timeout
         /\ cleanupOp' = "armed"

\* arm_cleanup over the entries `entries' with the times `left'.
ArmCleanup(entries, left, pending) ==
    LET used == {i \in Slots : entries[i] # None} IN
    IF pending \/ used = {}
    THEN /\ timer_pending' = pending
         /\ UNCHANGED cleanup_ttl
         /\ cleanupOp' = IF pending THEN cleanupOp ELSE "none"
    ELSE /\ timer_pending' = TRUE
         /\ cleanup_ttl' = First({left[i] : i \in used})
         /\ cleanupOp' = "armed"

\* stop, with connections `more' destroyed by the same caller.
StopPool(op, more) ==
    /\ pool_stopped' = TRUE
    /\ cleanupOp' = IF op = "armed" THEN "aborted" ELSE op
    /\ slot' = Remaining(Slots)
    /\ ttl' = TimeLeft(Slots)
    /\ Destroy(Idle \cup more, leased \ more)
    /\ UNCHANGED cleanup_ttl

----------------------------------------------------------------------------
(* take, and the constructor of an exchange around it: a miss is answered  *)
(* with a connection of its own.                                           *)

Candidates(b) == {i \in Used \ Expired : Matches(slot[i], b)}
Lendable(b)   == {i \in Candidates(b) : Clean(slot[i])}

\* The entries take() throws away: the expired, and the matching but unclean
\* ones it meets before the one it lends.
Discarded(b) ==
    Expired \cup {i \in Candidates(b) \ Lendable(b) : \A j \in Lendable(b) : i < j}

Hit(b) == ~pool_stopped /\ Lendable(b) # {}

\* Mutant: the lent connection stays in its slot.
TakeHitKeepsEntry(b) ==
    LET i == First(Lendable(b)) IN
    /\ Hit(b)
    /\ slot' = Remaining(Discarded(b))
    /\ ttl' = TimeLeft(Discarded(b))
    /\ Destroy({slot[j] : j \in Discarded(b)}, leased \cup {slot[i]})
    /\ UNCHANGED <<timer_pending, pool_stopped, cleanupOp, cleanup_ttl>>

TakeHit(b) ==
    LET i == First(Lendable(b)) IN
    /\ Hit(b)
    /\ slot' = Remaining(Discarded(b) \cup {i})
    /\ ttl' = TimeLeft(Discarded(b) \cup {i})
    /\ Destroy({slot[j] : j \in Discarded(b)}, leased \cup {slot[i]})
    /\ UNCHANGED <<timer_pending, pool_stopped, cleanupOp, cleanup_ttl>>

TakeMiss(b, c) ==
    LET gone == IF pool_stopped THEN {} ELSE Discarded(b) IN
    /\ ~Hit(b)
    /\ c \in Free
    /\ slot' = Remaining(gone)
    /\ ttl' = TimeLeft(gone)
    /\ leased' = leased \cup {c}
    /\ backend' = [k \in Conn |-> IF k = c THEN b
                                  ELSE IF k \in {slot[j] : j \in gone} THEN None ELSE backend[k]]
    /\ socket' = [k \in Conn |-> IF k = c THEN "unopened"
                                 ELSE IF k \in {slot[j] : j \in gone} THEN "none" ELSE socket[k]]
    /\ UNCHANGED <<timer_pending, pool_stopped, cleanupOp, cleanup_ttl>>

(***************************************************************************)
(* put.  A lease that cannot be cached is destroyed with the parameter     *)
(* that holds it; a full pool keeps the entries it has.                    *)
(***************************************************************************)
Vacant == {i \in Slots : i \in Expired \/ slot[i] = None}

\* Mutant: a returned connection is not checked for stray bytes.
CacheableUnchecked(c) == ~pool_stopped /\ Vacant # {}

Cacheable(c) == ~pool_stopped /\ Clean(c) /\ Vacant # {}

PutRefused(c) ==
    /\ ~Cacheable(c)
    /\ Destroy({c}, leased \ {c})
    /\ UNCHANGED slotVars

PutCached(c) ==
    /\ Cacheable(c)
    /\ slot' = [Remaining(Expired) EXCEPT ![First(Vacant)] = c]
    /\ ttl' = [TimeLeft(Expired) EXCEPT ![First(Vacant)] = idle_timeout]
    /\ Destroy({slot[j] : j \in Expired}, leased \ {c})
    /\ ArmCleanup(slot', ttl', timer_pending)
    /\ UNCHANGED pool_stopped

\* put, when arming the cleanup timer throws: the whole pool is stopped.
PutThrows(c) ==
    /\ Cacheable(c) /\ ~timer_pending
    /\ timer_pending' \in BOOLEAN
    /\ StopPool(cleanupOp, {c})

PoolStop ==
    /\ ~pool_stopped
    /\ StopPool(cleanupOp, {})
    /\ UNCHANGED timer_pending

----------------------------------------------------------------------------
(* The handler of the cleanup wait.                                        *)

\* Mutant: the handler does not arm the wait for the entries that remain.
OnCleanupOnce ==
    /\ cleanupOp = "fired" /\ ~pool_stopped
    /\ slot' = Remaining(Expired)
    /\ ttl' = TimeLeft(Expired)
    /\ Destroy({slot[i] : i \in Expired}, leased)
    /\ timer_pending' = FALSE
    /\ cleanupOp' = "none"
    /\ UNCHANGED <<pool_stopped, cleanup_ttl>>

OnCleanup ==
    /\ cleanupOp = "fired" /\ ~pool_stopped
    /\ slot' = Remaining(Expired)
    /\ ttl' = TimeLeft(Expired)
    /\ Destroy({slot[i] : i \in Expired}, leased)
    /\ ArmCleanup(slot', ttl', FALSE)
    /\ UNCHANGED pool_stopped

\* The wait failed, or arming the next one threw.
OnCleanupFails ==
    /\ ~pool_stopped
    /\ cleanupOp = "failed" \/ (cleanupOp = "fired" /\ Used # Expired)
    /\ timer_pending' \in {FALSE, cleanupOp = "fired"}
    /\ StopPool("none", {})

OnCleanupStopped ==
    /\ pool_stopped /\ cleanupOp \in {"fired", "failed", "aborted"}
    /\ cleanupOp' = "none"
    /\ UNCHANGED <<slot, ttl, timer_pending, pool_stopped, cleanup_ttl, connVars>>

----------------------------------------------------------------------------
(* Time, the kernel and the upstreams.                                     *)

Less(t) == IF t = 0 THEN 0 ELSE t - 1

Tick ==
    /\ cleanup_ttl' = Less(cleanup_ttl)
    /\ ttl' = [i \in Slots |-> Less(ttl[i])]
    /\ UNCHANGED <<slot, timer_pending, pool_stopped, cleanupOp, connVars>>

CleanupExpires ==
    /\ cleanupOp = "armed"
    /\ \/ cleanup_ttl = 0 /\ cleanupOp' = "fired"
       \/ cleanupOp' = "failed"
    /\ UNCHANGED <<slot, ttl, timer_pending, pool_stopped, cleanup_ttl, connVars>>

\* A connection receives bytes that nobody asked for (a TLS close_notify is bytes, too; a bare
\* FIN is not, and clean() does not see it).
DataArrives(c) ==
    /\ Clean(c)
    /\ socket' = [socket EXCEPT ![c] = "dirty"]
    /\ UNCHANGED <<slotVars, leased, backend>>

----------------------------------------------------------------------------
(* The callers: exchanges that use, return or drop the lease they hold.    *)

Acquire == \E b \in Backend : TakeHit(b) \/ \E c \in Conn : TakeMiss(b, c)

\* The holder connects or closes its connection, between the pool's calls.
Use(c) ==
    /\ \/ socket[c] = "unopened" /\ socket' = [socket EXCEPT ![c] = "open"]
       \/ socket[c] \in {"open", "dirty"} /\ socket' = [socket EXCEPT ![c] = "closed"]
    /\ UNCHANGED <<slotVars, leased, backend>>

Drop(c) ==
    /\ Destroy({c}, leased \ {c})
    /\ UNCHANGED slotVars

PoolNext ==
    \/ Acquire
    \/ \E c \in leased : PutRefused(c) \/ PutCached(c) \/ PutThrows(c) \/ Use(c) \/ Drop(c)
    \/ \E c \in Conn : DataArrives(c)
    \/ PoolStop
    \/ OnCleanup \/ OnCleanupFails \/ OnCleanupStopped
    \/ Tick \/ CleanupExpires

PoolSafety == PoolInit /\ [][PoolNext]_poolVars

\* Time passes, an expired wait is noticed and its handler dispatched.
PoolFairness ==
    /\ WF_poolVars(Tick)
    /\ WF_poolVars(CleanupExpires)
    /\ WF_poolVars(OnCleanup \/ OnCleanupFails)

PoolSpec == PoolSafety /\ PoolFairness

----------------------------------------------------------------------------
(* Properties.                                                             *)

\* The pool's variables keep their types.
PoolTypeOK ==
    /\ slot \in [Slots -> Conn \cup {None}]
    /\ ttl \in [Slots -> 0 .. idle_timeout]
    /\ timer_pending \in BOOLEAN
    /\ pool_stopped \in BOOLEAN
    /\ cleanupOp \in CleanupOps
    /\ cleanup_ttl \in 0 .. idle_timeout
    /\ leased \in SUBSET Conn
    /\ backend \in [Conn -> Backend \cup {None}]
    /\ socket \in [Conn -> SocketState]

\* Exclusive ownership through take, put, expiry and discarding: a connection
\* is in one slot, in one lease or nowhere; one that is nowhere has no socket
\* left, and one in the cache still has an open one.
ExclusiveOwnership ==
    /\ \A i, j \in Used : slot[i] = slot[j] => i = j
    /\ Idle \cap leased = {}
    /\ \A c \in Conn : socket[c] # "none" <=> c \in Idle \cup leased
    /\ \A c \in Idle : socket[c] \in {"open", "dirty"}

\* Idle connections never outlive their cleanup: while the pool holds one, a
\* wait is pending that ends no later than the earliest deadline; the flag
\* that suppresses re-arming never lies, and a stopped pool holds nothing.
CleanupCovers ==
    /\ pool_stopped => Used = {}
    /\ ~pool_stopped => (timer_pending <=> cleanupOp \in {"armed", "fired", "failed"})
    /\ ~pool_stopped /\ Used # {} => timer_pending /\ \A i \in Used : cleanup_ttl <= ttl[i]

\* The pool keeps the promise of ConnectionLeases.
Leases == INSTANCE ConnectionLeases WITH idle <- Idle
ImplementsLeases == Leases!LeaseSpec

\* An idle connection leaves the cache: lent, discarded, expired or stopped.
IdleIsTemporary == \A c \in Conn : c \in Idle ~> c \notin Idle
=============================================================================
