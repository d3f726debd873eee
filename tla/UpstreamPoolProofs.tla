------------------------- MODULE UpstreamPoolProofs -------------------------
(***************************************************************************)
(* The pool's ownership and cleanup invariants, and that it implements     *)
(* ConnectionLeases, for every set of connections and backends, every      *)
(* capacity max_idle (zero included) and every idle timeout.               *)
(***************************************************************************)
EXTENDS UpstreamPool, NaturalsInduction, WellFoundedInduction, TLAPS

PoolInv ==
    /\ PoolTypeOK
    /\ ExclusiveOwnership
    /\ CleanupCovers

----------------------------------------------------------------------------
(* What the helpers do.                                                    *)

\* A set of natural numbers that is not empty has a least element: the minimum
\* that arm_cleanup and the scans over idle_ look for exists.
LEMMA LeastExists ==
    ASSUME NEW S \in SUBSET Nat, S # {}
    PROVE  \E x \in S : \A y \in S : x <= y
<1> DEFINE R == {r \in Nat \X Nat : r[1] < r[2]}
<1>1. IsWellFoundedOn(R, Nat)
  BY NatLessThanWellFounded, Zenon DEF OpToRel
<1>2. PICK x \in S : \A y \in S : ~ (<<y, x>> \in R)
  BY <1>1, WFMin, Zenon
<1>3. ASSUME NEW y \in S
      PROVE  x <= y
  <2>1. <<y, x>> \in Nat \X Nat /\ <<y, x>>[1] = y /\ <<y, x>>[2] = x
    OBVIOUS
  <2>2. ~ (y < x)
    BY <1>2, <2>1, Zenon
  <2> QED
    BY <2>2
<1> QED
  BY <1>3

\* First is that least element.
LEMMA FirstIsLeast ==
    ASSUME NEW S \in SUBSET Nat, S # {}
    PROVE  First(S) \in S /\ \A j \in S : First(S) <= j
BY LeastExists DEF First

\* Resetting the entries of `gone' takes exactly their connections out of the cache.
LEMMA ResetEntries ==
    ASSUME PoolTypeOK, ExclusiveOwnership,
           NEW gone \in SUBSET Slots, slot' = Remaining(gone)
    PROVE  /\ slot' \in [Slots -> Conn \cup {None}]
           /\ Used' = Used \ gone
           /\ \A i \in Used' : slot'[i] = slot[i]
           /\ Idle' = Idle \ {slot[j] : j \in gone \cap Used}
<1>1. slot' \in [Slots -> Conn \cup {None}]
  BY DEF Remaining, PoolTypeOK
<1>2. Used' = Used \ gone /\ \A i \in Used' : slot'[i] = slot[i]
  BY DEF Remaining, Used
<1>3. Idle' = Idle \ {slot[j] : j \in gone \cap Used}
  BY <1>2 DEF Idle, ExclusiveOwnership
<1> QED
  BY <1>1, <1>2, <1>3

\* Resetting the times of entries keeps the times in range.
LEMMA TimeLeftType ==
    ASSUME PoolTypeOK, NEW gone
    PROVE  TimeLeft(gone) \in [Slots -> 0 .. idle_timeout]
BY PoolAssumption DEF TimeLeft, PoolTypeOK

\* Only connections are cached.
LEMMA IdleAreConnections ==
    ASSUME PoolTypeOK
    PROVE  Idle \in SUBSET Conn
BY DEF Idle, Used, PoolTypeOK

\* What is expired, lendable or discarded are entries of the cache, and the
\* entry that take() lends is not one that it discards.
LEMMA TakeSets ==
    ASSUME PoolTypeOK, NEW b
    PROVE  /\ Used \in SUBSET Slots /\ Expired \in SUBSET Used
           /\ Discarded(b) \in SUBSET Used
           /\ Lendable(b) \in SUBSET Used
           /\ Lendable(b) \cap Discarded(b) = {}
           /\ Slots \in SUBSET Nat
BY PoolAssumption DEF Used, Expired, Discarded, Candidates, Lendable, Slots

\* The entry that take() lends.
LEMMA LentEntry ==
    ASSUME PoolTypeOK, NEW b \in Backend, Hit(b)
    PROVE  First(Lendable(b)) \in Lendable(b)
<1>1. Lendable(b) \in SUBSET Nat /\ Lendable(b) # {}
  BY TakeSets DEF Hit
<1> QED
  BY <1>1, FirstIsLeast

\* The entry that put() fills.
LEMMA FilledEntry ==
    ASSUME PoolTypeOK, NEW c, Cacheable(c)
    PROVE  First(Vacant) \in Vacant /\ First(Vacant) \in Slots
<1>1. Vacant \in SUBSET Slots /\ Vacant \in SUBSET Nat /\ Vacant # {}
  BY PoolAssumption DEF Vacant, Cacheable, Slots
<1> QED
  BY <1>1, FirstIsLeast

\* put() fills one entry that was free or expired: the cache gains exactly the
\* returned connection and loses exactly the expired ones.
LEMMA FillEntry ==
    ASSUME PoolTypeOK, ExclusiveOwnership, NEW c \in leased, PutCached(c)
    PROVE  /\ slot' \in [Slots -> Conn \cup {None}]
           /\ First(Vacant) \in Slots
           /\ Used' = (Used \ Expired) \cup {First(Vacant)}
           /\ slot'[First(Vacant)] = c
           /\ First(Vacant) \notin Used \ Expired
           /\ \A i \in Used \ Expired : slot'[i] = slot[i]
           /\ Idle' = (Idle \ {slot[j] : j \in Expired}) \cup {c}
<1> DEFINE v == First(Vacant)
<1>1. v \in Vacant /\ v \in Slots
  BY FilledEntry DEF PutCached
<1>2. c \in Conn /\ c # None
  BY ConnAssumption DEF PoolTypeOK
<1>3. slot' = [i \in Slots |-> IF i = v THEN c ELSE IF i \in Expired THEN None ELSE slot[i]]
  BY DEF PutCached, Remaining
<1> HIDE DEF v
<1>4. slot' \in [Slots -> Conn \cup {None}]
  BY <1>2, <1>3 DEF PoolTypeOK
<1>5. v \notin Used \ Expired
  BY <1>1 DEF Vacant, Used
<1>6. Used' = (Used \ Expired) \cup {v}
  BY <1>1, <1>2, <1>3 DEF Used, Expired
<1>7. slot'[v] = c /\ \A i \in Used \ Expired : slot'[i] = slot[i]
  BY <1>1, <1>3, <1>5 DEF Used
<1>8. Idle' = {slot'[i] : i \in (Used \ Expired) \cup {v}}
  BY <1>6 DEF Idle
<1>9. Idle' = (Idle \ {slot[j] : j \in Expired}) \cup {c}
  <2>1. Idle' = {slot[i] : i \in Used \ Expired} \cup {c}
    BY <1>7, <1>8
  <2>2. {slot[i] : i \in Used \ Expired} = Idle \ {slot[j] : j \in Expired}
    BY DEF Idle, Expired, ExclusiveOwnership
  <2> QED
    BY <2>1, <2>2
<1> QED
  BY <1>1, <1>4, <1>5, <1>6, <1>7, <1>9 DEF v

\* arm_cleanup keeps its promise over entries whose earlier wait, if one is
\* pending, ends in time: while one remains, a wait ends no later than it.
LEMMA ArmCleanupCovers ==
    ASSUME PoolTypeOK, NEW pending \in BOOLEAN,
           ttl' \in [Slots -> 0 .. idle_timeout],
           ArmCleanup(slot', ttl', pending)
    PROVE  /\ cleanup_ttl' \in 0 .. idle_timeout
           /\ timer_pending' \in BOOLEAN
           /\ pending => timer_pending' /\ cleanupOp' = cleanupOp /\ cleanup_ttl' = cleanup_ttl
           /\ ~pending /\ Used' = {} => ~timer_pending' /\ cleanupOp' = "none"
           /\ ~pending /\ Used' # {} => /\ timer_pending' /\ cleanupOp' = "armed"
                                       /\ \A i \in Used' : cleanup_ttl' <= ttl'[i]
<1>1. Used' = {i \in Slots : slot'[i] # None}
  BY DEF Used
<1>2. CASE pending \/ Used' = {}
  BY <1>1, <1>2 DEF ArmCleanup, PoolTypeOK
<1>3. CASE ~pending /\ Used' # {}
  <2> DEFINE left == {ttl'[i] : i \in Used'}
  <2>1. left # {} /\ left \in SUBSET (0 .. idle_timeout) /\ left \in SUBSET Nat
    <3>1. \A i \in Used' : ttl'[i] \in 0 .. idle_timeout
      BY <1>1
    <3> QED
      BY <1>3, <3>1, PoolAssumption
  <2>2. cleanup_ttl' = First(left) /\ timer_pending' /\ cleanupOp' = "armed"
    BY <1>1, <1>3 DEF ArmCleanup
  <2>3. First(left) \in left /\ \A j \in left : First(left) <= j
    BY <2>1, FirstIsLeast
  <2> QED
    BY <1>3, <2>1, <2>2, <2>3
<1> QED
  BY <1>2, <1>3

\* stop() empties the cache.
LEMMA StopEmpties ==
    ASSUME PoolInv, NEW o \in CleanupOps, NEW more \in SUBSET leased, StopPool(o, more),
           timer_pending' \in BOOLEAN
    PROVE  PoolInv' /\ Idle' = {}
<1> USE DEF PoolInv
<1>1. slot' \in [Slots -> Conn \cup {None}] /\ Used' = {} /\ Idle' = {}
  <2>1. slot' = Remaining(Slots) /\ Slots \in SUBSET Slots
    BY DEF StopPool
  <2>2. slot' \in [Slots -> Conn \cup {None}] /\ Used' = Used \ Slots
    BY <2>1, ResetEntries
  <2> QED
    BY <2>2 DEF Used, Idle
<1>2. PoolTypeOK'
  BY <1>1, TimeLeftType DEF PoolTypeOK, StopPool, Destroy, CleanupOps, SocketState
<1>3. ExclusiveOwnership'
  BY <1>1 DEF ExclusiveOwnership, StopPool, Destroy, PoolTypeOK
<1>4. CleanupCovers'
  BY <1>1 DEF CleanupCovers, StopPool
<1> QED
  BY <1>1, <1>2, <1>3, <1>4

\* take() with a connection to lend.
LEMMA TakeHitInv ==
    ASSUME PoolInv, NEW b \in Backend, TakeHit(b)
    PROVE  PoolInv'
<1> USE DEF PoolInv
<1> DEFINE i == First(Lendable(b))
           gone == Discarded(b) \cup {i}
<1>1. i \in Lendable(b) /\ i \in Used /\ i \notin Discarded(b)
  BY LentEntry, TakeSets DEF TakeHit
<1>2. gone \in SUBSET Slots /\ gone \in SUBSET Used /\ slot' = Remaining(gone) /\ ttl' = TimeLeft(gone)
  BY <1>1, TakeSets DEF TakeHit
<1>3. /\ leased' = leased \cup {slot[i]}
      /\ backend' = [c \in Conn |-> IF c \in {slot[j] : j \in Discarded(b)} THEN None ELSE backend[c]]
      /\ socket' = [c \in Conn |-> IF c \in {slot[j] : j \in Discarded(b)} THEN "none" ELSE socket[c]]
      /\ UNCHANGED <<timer_pending, pool_stopped, cleanupOp, cleanup_ttl>>
      /\ ~pool_stopped
  BY DEF TakeHit, Destroy, Hit
<1>4. slot[i] \in Conn
  BY <1>1 DEF PoolTypeOK, Used
<1> HIDE DEF gone, i
<1>5. /\ slot' \in [Slots -> Conn \cup {None}]
      /\ Used' = Used \ gone
      /\ \A k \in Used' : slot'[k] = slot[k]
      /\ Idle' = Idle \ {slot[j] : j \in gone \cap Used}
  BY <1>2, ResetEntries
<1>6. Idle' = Idle \ ({slot[j] : j \in Discarded(b)} \cup {slot[i]})
  BY <1>1, <1>2, <1>5, TakeSets DEF gone
<1>7. PoolTypeOK'
  BY <1>2, <1>3, <1>4, <1>5, TimeLeftType DEF PoolTypeOK, SocketState
<1>8. ExclusiveOwnership'
  <2>1. slot[i] \in Idle /\ slot[i] \notin {slot[j] : j \in Discarded(b)}
    BY <1>1, TakeSets DEF ExclusiveOwnership, Idle
  <2>2. {slot[j] : j \in Discarded(b)} \in SUBSET Idle
    BY TakeSets DEF Idle
  <2>3. \A c \in Conn : socket'[c] # "none" <=> c \in Idle' \cup leased'
    BY <1>3, <1>4, <1>6, <2>1, <2>2 DEF ExclusiveOwnership
  <2>4. Idle' \cap leased' = {}
    BY <1>3, <1>6 DEF ExclusiveOwnership
  <2>5. \A c \in Idle' : c \in Conn /\ socket'[c] \in {"open", "dirty"}
    BY <1>3, <1>6, IdleAreConnections DEF ExclusiveOwnership
  <2>6. \A j, k \in Used' : slot'[j] = slot'[k] => j = k
    BY <1>5 DEF ExclusiveOwnership
  <2> QED
    BY <2>3, <2>4, <2>5, <2>6 DEF ExclusiveOwnership
<1>9. CleanupCovers'
  <2>1. \A k \in Used' : ttl'[k] = ttl[k] /\ k \in Used
    BY <1>2, <1>5 DEF TimeLeft, Used
  <2> QED
    BY <1>3, <2>1 DEF CleanupCovers
<1> QED
  BY <1>7, <1>8, <1>9

\* take() without one, and the connection the exchange makes for itself.
LEMMA TakeMissInv ==
    ASSUME PoolInv, NEW b \in Backend, NEW c \in Conn, TakeMiss(b, c)
    PROVE  PoolInv'
<1> USE DEF PoolInv
<1> DEFINE gone == IF pool_stopped THEN {} ELSE Discarded(b)
           lost == {slot[j] : j \in gone}
<1>1. gone \in SUBSET Slots /\ gone \in SUBSET Used /\ slot' = Remaining(gone) /\ ttl' = TimeLeft(gone)
  BY TakeSets DEF TakeMiss
<1>2. /\ leased' = leased \cup {c}
      /\ backend' = [k \in Conn |-> IF k = c THEN b ELSE IF k \in lost THEN None ELSE backend[k]]
      /\ socket' = [k \in Conn |-> IF k = c THEN "unopened" ELSE IF k \in lost THEN "none" ELSE socket[k]]
      /\ UNCHANGED <<timer_pending, pool_stopped, cleanupOp, cleanup_ttl>>
      /\ socket[c] = "none"
  BY DEF TakeMiss, Free
<1> HIDE DEF gone
<1>3. /\ slot' \in [Slots -> Conn \cup {None}]
      /\ Used' = Used \ gone
      /\ \A k \in Used' : slot'[k] = slot[k]
      /\ Idle' = Idle \ lost
  BY <1>1, ResetEntries, gone \cap Used = gone
<1>4. lost \in SUBSET Idle
  BY <1>1 DEF Idle
<1> HIDE DEF lost
<1>5. PoolTypeOK'
  BY <1>1, <1>2, <1>3, TimeLeftType DEF PoolTypeOK, SocketState
<1>6. ExclusiveOwnership'
  <2>1. c \notin Idle /\ c \notin leased
    BY <1>2 DEF ExclusiveOwnership
  <2>2. \A k \in Conn : socket'[k] # "none" <=> k \in Idle' \cup leased'
    BY <1>2, <1>3, <1>4, <2>1 DEF ExclusiveOwnership
  <2>3. Idle' \cap leased' = {}
    BY <1>2, <1>3, <2>1 DEF ExclusiveOwnership
  <2>4. \A k \in Idle' : socket'[k] \in {"open", "dirty"}
    BY <1>2, <1>3, <2>1, IdleAreConnections DEF ExclusiveOwnership
  <2>5. \A j, k \in Used' : slot'[j] = slot'[k] => j = k
    BY <1>3 DEF ExclusiveOwnership
  <2> QED
    BY <2>2, <2>3, <2>4, <2>5 DEF ExclusiveOwnership
<1>7. CleanupCovers'
  <2>1. \A k \in Used' : ttl'[k] = ttl[k] /\ k \in Used
    BY <1>1, <1>3 DEF TimeLeft, Used
  <2> QED
    BY <1>2, <1>3, <2>1 DEF CleanupCovers
<1> QED
  BY <1>5, <1>6, <1>7

\* put() that caches the connection.
LEMMA PutCachedInv ==
    ASSUME PoolInv, NEW c \in leased, PutCached(c)
    PROVE  PoolInv'
<1> USE DEF PoolInv
<1> DEFINE v == First(Vacant)
           lost == {slot[j] : j \in Expired}
<1>1. /\ slot' \in [Slots -> Conn \cup {None}]
      /\ v \in Slots
      /\ Used' = (Used \ Expired) \cup {v}
      /\ slot'[v] = c
      /\ v \notin Used \ Expired
      /\ \A i \in Used \ Expired : slot'[i] = slot[i]
      /\ Idle' = (Idle \ lost) \cup {c}
  BY FillEntry, Zenon
<1>2. /\ leased' = leased \ {c}
      /\ backend' = [k \in Conn |-> IF k \in lost THEN None ELSE backend[k]]
      /\ socket' = [k \in Conn |-> IF k \in lost THEN "none" ELSE socket[k]]
      /\ ArmCleanup(slot', ttl', timer_pending)
      /\ pool_stopped' = pool_stopped /\ ~pool_stopped
      /\ socket[c] = "open"
  BY DEF PutCached, Destroy, Cacheable, Clean
<1>3. ttl' = [i \in Slots |-> IF i = v THEN idle_timeout ELSE TimeLeft(Expired)[i]]
  BY DEF PutCached, TimeLeft
<1> HIDE DEF v
<1>4. ttl' \in [Slots -> 0 .. idle_timeout]
  <2>1. TimeLeft(Expired) \in [Slots -> 0 .. idle_timeout]
    BY TimeLeftType
  <2> QED
    BY <1>3, <2>1, PoolAssumption
<1>5. lost \in SUBSET Idle
  BY DEF Idle, Expired
<1> HIDE DEF lost
<1>6. /\ cleanup_ttl' \in 0 .. idle_timeout
      /\ timer_pending' \in BOOLEAN
      /\ timer_pending => timer_pending' /\ cleanupOp' = cleanupOp /\ cleanup_ttl' = cleanup_ttl
      /\ ~timer_pending => /\ timer_pending' /\ cleanupOp' = "armed"
                           /\ \A i \in Used' : cleanup_ttl' <= ttl'[i]
  <2>1. timer_pending \in BOOLEAN /\ Used' # {}
    BY <1>1 DEF PoolTypeOK
  <2> QED
    BY <1>2, <1>4, <2>1, ArmCleanupCovers
<1>7. PoolTypeOK'
  BY <1>1, <1>2, <1>4, <1>6 DEF PoolTypeOK, SocketState, CleanupOps
<1>8. ExclusiveOwnership'
  <2>1. c \in Conn /\ c \notin Idle /\ c \notin lost
    BY <1>5 DEF ExclusiveOwnership, PoolTypeOK
  <2>2. \A k \in Conn : socket'[k] # "none" <=> k \in Idle' \cup leased'
    BY <1>1, <1>2, <1>5, <2>1 DEF ExclusiveOwnership
  <2>3. Idle' \cap leased' = {}
    BY <1>1, <1>2, <2>1 DEF ExclusiveOwnership
  <2>4. \A k \in Idle' : socket'[k] \in {"open", "dirty"}
    BY <1>1, <1>2, <2>1, IdleAreConnections DEF ExclusiveOwnership
  <2>5. \A i \in Used \ Expired : slot[i] # c /\ slot'[i] = slot[i]
    BY <1>1, <2>1 DEF Idle
  <2>6. \A j, k \in Used' : slot'[j] = slot'[k] => j = k
    BY <1>1, <2>5 DEF ExclusiveOwnership
  <2> QED
    BY <2>2, <2>3, <2>4, <2>6 DEF ExclusiveOwnership
<1>9. CleanupCovers'
  <2>1. timer_pending' /\ cleanupOp' \in {"armed", "fired", "failed"}
    BY <1>2, <1>6 DEF CleanupCovers
  <2>2. CASE ~timer_pending
    BY <1>2, <1>6, <2>1, <2>2 DEF CleanupCovers
  <2>3. CASE timer_pending
    <3>1. \A i \in Used \ Expired : ttl'[i] = ttl[i] /\ cleanup_ttl <= ttl[i]
      BY <1>1, <1>2, <1>3 DEF TimeLeft, CleanupCovers, Used
    <3>2. ttl'[v] = idle_timeout /\ cleanup_ttl <= idle_timeout
      BY <1>1, <1>3, PoolAssumption DEF PoolTypeOK
    <3> QED
      BY <1>1, <1>2, <1>6, <2>1, <2>3, <3>1, <3>2 DEF CleanupCovers
  <2> QED
    BY <2>2, <2>3
<1> QED
  BY <1>7, <1>8, <1>9

\* The cleanup handler.
LEMMA OnCleanupInv ==
    ASSUME PoolInv, OnCleanup
    PROVE  PoolInv' /\ Idle' = Idle \ {slot[i] : i \in Expired}
<1> USE DEF PoolInv
<1> DEFINE lost == {slot[j] : j \in Expired}
<1>1. Expired \in SUBSET Slots /\ Expired \in SUBSET Used /\ lost \in SUBSET Idle
  BY TakeSets DEF Idle
<1>2. /\ slot' = Remaining(Expired) /\ ttl' = TimeLeft(Expired)
      /\ leased' = leased
      /\ backend' = [k \in Conn |-> IF k \in lost THEN None ELSE backend[k]]
      /\ socket' = [k \in Conn |-> IF k \in lost THEN "none" ELSE socket[k]]
      /\ ArmCleanup(slot', ttl', FALSE)
      /\ pool_stopped' = pool_stopped /\ ~pool_stopped
  BY DEF OnCleanup, Destroy
<1>3. /\ slot' \in [Slots -> Conn \cup {None}]
      /\ Used' = Used \ Expired
      /\ \A k \in Used' : slot'[k] = slot[k]
      /\ Idle' = Idle \ lost
  BY <1>1, <1>2, ResetEntries, Expired \cap Used = Expired
<1> HIDE DEF lost
<1>4. ttl' \in [Slots -> 0 .. idle_timeout]
  BY <1>2, TimeLeftType
<1>5. /\ cleanup_ttl' \in 0 .. idle_timeout
      /\ timer_pending' \in BOOLEAN
      /\ Used' = {} => ~timer_pending' /\ cleanupOp' = "none"
      /\ Used' # {} => /\ timer_pending' /\ cleanupOp' = "armed"
                       /\ \A i \in Used' : cleanup_ttl' <= ttl'[i]
  BY <1>2, <1>4, ArmCleanupCovers
<1>6. PoolTypeOK'
  BY <1>2, <1>3, <1>4, <1>5 DEF PoolTypeOK, SocketState, CleanupOps
<1>7. ExclusiveOwnership'
  BY <1>1, <1>2, <1>3, IdleAreConnections DEF ExclusiveOwnership, PoolTypeOK
<1>8. CleanupCovers'
  BY <1>2, <1>5 DEF CleanupCovers
<1> QED
  BY <1>3, <1>6, <1>7, <1>8 DEF lost

\* A connection that leaves its exchange is destroyed; one that stays with it
\* or in the cache may change while it stays open or closed.
LEMMA LeaseStepInv ==
    ASSUME PoolInv,
           \/ \E c \in leased : PutRefused(c) \/ Drop(c) \/ Use(c)
           \/ \E c \in Conn : DataArrives(c)
    PROVE  PoolInv'
<1> USE DEF PoolInv
<1>1. Used' = Used /\ Idle' = Idle /\ UNCHANGED slotVars
  BY DEF PutRefused, Drop, Use, DataArrives, slotVars, Used, Idle
<1>2. CleanupCovers'
  BY <1>1 DEF CleanupCovers, slotVars
<1>3. ASSUME NEW c \in leased, PutRefused(c) \/ Drop(c)
      PROVE  PoolTypeOK' /\ ExclusiveOwnership'
  <2>1. /\ leased' = leased \ {c}
        /\ backend' = [k \in Conn |-> IF k \in {c} THEN None ELSE backend[k]]
        /\ socket' = [k \in Conn |-> IF k \in {c} THEN "none" ELSE socket[k]]
    BY <1>3 DEF PutRefused, Drop, Destroy
  <2>2. PoolTypeOK'
    BY <1>1, <2>1 DEF PoolTypeOK, slotVars, SocketState
  <2>3. ExclusiveOwnership'
    BY <1>1, <2>1, IdleAreConnections DEF ExclusiveOwnership, slotVars
  <2> QED
    BY <2>2, <2>3
<1>4. ASSUME NEW c \in leased, Use(c)
      PROVE  PoolTypeOK' /\ ExclusiveOwnership'
  <2>1. c \in Conn /\ c \notin Idle
    BY DEF ExclusiveOwnership, PoolTypeOK
  <2>2. PoolTypeOK'
    BY <1>1, <1>4 DEF Use, PoolTypeOK, slotVars, SocketState
  <2>3. ExclusiveOwnership'
    BY <1>1, <1>4, <2>1, IdleAreConnections DEF Use, ExclusiveOwnership, slotVars, PoolTypeOK
  <2> QED
    BY <2>2, <2>3
<1>5. ASSUME NEW c \in Conn, DataArrives(c)
      PROVE  PoolTypeOK' /\ ExclusiveOwnership'
  <2>1. PoolTypeOK'
    BY <1>1, <1>5 DEF DataArrives, PoolTypeOK, slotVars, SocketState
  <2>2. ExclusiveOwnership'
    BY <1>1, <1>5, IdleAreConnections DEF DataArrives, Clean, ExclusiveOwnership, slotVars, PoolTypeOK
  <2> QED
    BY <2>1, <2>2
<1> QED
  BY <1>2, <1>3, <1>4, <1>5

\* Time and the kernel.
LEMMA TimeStepInv ==
    ASSUME PoolInv, Tick \/ CleanupExpires \/ OnCleanupStopped
    PROVE  PoolInv'
<1> USE DEF PoolInv
<1>1. Used' = Used /\ Idle' = Idle /\ UNCHANGED <<slot, pool_stopped, timer_pending, connVars>>
  BY DEF Tick, CleanupExpires, OnCleanupStopped, connVars, Used, Idle
<1>2. ExclusiveOwnership'
  BY <1>1 DEF ExclusiveOwnership, connVars
<1>3. CASE Tick
  <2>1. \A t \in 0 .. idle_timeout : Less(t) \in 0 .. idle_timeout
    BY PoolAssumption DEF Less
  <2>2. PoolTypeOK'
    BY <1>1, <1>3, <2>1 DEF Tick, PoolTypeOK, connVars
  <2>3. \A s, t \in 0 .. idle_timeout : s <= t => Less(s) <= Less(t)
    BY PoolAssumption DEF Less
  <2>4. \A i \in Used : ttl'[i] = Less(ttl[i]) /\ ttl[i] \in 0 .. idle_timeout
    BY <1>3 DEF Tick, Used, PoolTypeOK
  <2>5. CleanupCovers'
    BY <1>1, <1>3, <2>3, <2>4 DEF Tick, CleanupCovers, PoolTypeOK
  <2> QED
    BY <1>2, <2>2, <2>5
<1>4. CASE CleanupExpires \/ OnCleanupStopped
  <2>1. PoolTypeOK'
    BY <1>1, <1>4 DEF CleanupExpires, OnCleanupStopped, PoolTypeOK, connVars, CleanupOps
  <2>2. CleanupCovers'
    BY <1>1, <1>4 DEF CleanupExpires, OnCleanupStopped, CleanupCovers
  <2> QED
    BY <1>2, <2>1, <2>2
<1> QED
  BY <1>3, <1>4

\* Every step of the pool, its callers and its environment keeps the invariant.
LEMMA PoolStepInv ==
    ASSUME PoolInv, [PoolNext]_poolVars
    PROVE  PoolInv'
<1>1. CASE Acquire
  BY <1>1, TakeHitInv, TakeMissInv DEF Acquire
<1>2. ASSUME NEW c \in leased, PutRefused(c) \/ Use(c) \/ Drop(c)
      PROVE  PoolInv'
  BY <1>2, LeaseStepInv
<1>3. ASSUME NEW c \in leased, PutCached(c)
      PROVE  PoolInv'
  BY <1>3, PutCachedInv
<1>4. ASSUME NEW c \in leased, PutThrows(c)
      PROVE  PoolInv'
  <2>1. StopPool(cleanupOp, {c}) /\ timer_pending' \in BOOLEAN
    BY <1>4 DEF PutThrows
  <2>2. cleanupOp \in CleanupOps /\ {c} \in SUBSET leased
    BY DEF PoolInv, PoolTypeOK
  <2> QED
    BY <2>1, <2>2, StopEmpties
<1>5. ASSUME NEW c \in Conn, DataArrives(c)
      PROVE  PoolInv'
  BY <1>5, LeaseStepInv
<1>6. CASE PoolStop
  <2>1. StopPool(cleanupOp, {}) /\ timer_pending' = timer_pending
    BY <1>6 DEF PoolStop
  <2>2. cleanupOp \in CleanupOps /\ {} \in SUBSET leased /\ timer_pending \in BOOLEAN
    BY DEF PoolInv, PoolTypeOK
  <2> QED
    BY <2>1, <2>2, StopEmpties
<1>7. CASE OnCleanup
  BY <1>7, OnCleanupInv
<1>8. CASE OnCleanupFails
  <2>1. StopPool("none", {})
    BY <1>8 DEF OnCleanupFails
  <2>2. timer_pending' \in BOOLEAN
    BY <1>8, Zenon DEF OnCleanupFails
  <2>3. "none" \in CleanupOps /\ {} \in SUBSET leased
    BY DEF CleanupOps
  <2> QED
    BY <2>1, <2>2, <2>3, StopEmpties
<1>9. CASE OnCleanupStopped \/ Tick \/ CleanupExpires
  BY <1>9, TimeStepInv
<1>10. CASE UNCHANGED poolVars
  BY <1>10 DEF poolVars, slotVars, connVars, PoolInv, PoolTypeOK, ExclusiveOwnership, CleanupCovers,
               Used, Idle
<1> QED
  BY <1>1, <1>2, <1>3, <1>4, <1>5, <1>6, <1>7, <1>8, <1>9, <1>10 DEF PoolNext

\* The pool starts empty.
LEMMA PoolInitInv ==
    ASSUME PoolInit
    PROVE  PoolInv /\ Idle = {}
<1>1. Used = {} /\ Idle = {}
  BY DEF PoolInit, Used, Idle
<1>2. PoolTypeOK
  <2>1. 0 \in 0 .. idle_timeout
    BY PoolAssumption
  <2>2. ttl \in [Slots -> 0 .. idle_timeout] /\ cleanup_ttl \in 0 .. idle_timeout
    BY <2>1 DEF PoolInit
  <2>3. slot \in [Slots -> Conn \cup {None}] /\ backend \in [Conn -> Backend \cup {None}]
    BY DEF PoolInit
  <2>4. socket \in [Conn -> SocketState] /\ cleanupOp \in CleanupOps
    BY DEF PoolInit, SocketState, CleanupOps
  <2> QED
    BY <2>2, <2>3, <2>4 DEF PoolInit, PoolTypeOK
<1>3. ExclusiveOwnership /\ CleanupCovers
  BY <1>1 DEF PoolInit, ExclusiveOwnership, CleanupCovers
<1> QED
  BY <1>1, <1>2, <1>3 DEF PoolInv

----------------------------------------------------------------------------
(* The theorems.                                                           *)

\* The inductive invariant holds of every behaviour of the pool.
THEOREM PoolInvariance == PoolSafety => []PoolInv
<1>1. PoolInit => PoolInv
  BY PoolInitInv
<1>2. PoolInv /\ [PoolNext]_poolVars => PoolInv'
  BY PoolStepInv
<1> QED
  BY <1>1, <1>2, PTL DEF PoolSafety

\* take(), put(), expiry, stop() and stray bytes never leave a connection with
\* two owners, nor an open socket with none, whatever the exchanges do.
THEOREM OwnershipTheorem == PoolSpec => []ExclusiveOwnership
<1>1. PoolInv => ExclusiveOwnership
  BY DEF PoolInv
<1> QED
  BY <1>1, PoolInvariance, PTL DEF PoolSpec

\* While idle_ holds a connection, the cleanup wait is pending and ends no later
\* than the earliest deadline, also after an early return of arm_cleanup().
THEOREM CleanupTheorem == PoolSpec => []CleanupCovers
<1>1. PoolInv => CleanupCovers
  BY DEF PoolInv
<1> QED
  BY <1>1, PoolInvariance, PTL DEF PoolSpec

----------------------------------------------------------------------------
(* The pool implements ConnectionLeases: take() is Lend or Create, put()   *)
(* is Cache, Drop or Halt, and what the timer and the clock do is Forget   *)
(* or a step that the exchanges do not see.                                *)

\* take() lends a connection, and forgets the stale ones it met.
LEMMA TakeHitLends ==
    ASSUME PoolInv, NEW b \in Backend, TakeHit(b)
    PROVE  Leases!LeaseNext
<1> USE DEF PoolInv
<1> DEFINE i == First(Lendable(b))
           gone == Discarded(b) \cup {i}
           D == {slot[j] : j \in Discarded(b)}
<1>1. i \in Lendable(b) /\ i \in Used /\ i \notin Discarded(b)
  BY LentEntry, TakeSets DEF TakeHit
<1>2. gone \in SUBSET Slots /\ gone \cap Used = Discarded(b) \cup {i} /\ slot' = Remaining(gone)
  BY <1>1, TakeSets DEF TakeHit
<1> HIDE DEF gone
<1>3. Idle' = Idle \ {slot[j] : j \in gone \cap Used}
  BY <1>2, ResetEntries
<1>4. /\ leased' = leased \cup {slot[i]} /\ ~pool_stopped /\ pool_stopped' = pool_stopped
      /\ backend' = [c \in Conn |-> IF c \in D THEN None ELSE backend[c]]
      /\ socket' = [c \in Conn |-> IF c \in D THEN "none" ELSE socket[c]]
  BY DEF TakeHit, Destroy, Hit
<1>5. slot[i] \in Idle \ D /\ D \in SUBSET Idle
  BY <1>1, TakeSets DEF ExclusiveOwnership, Idle
<1>6. backend[slot[i]] = b /\ socket[slot[i]] = "open"
  BY <1>1 DEF Lendable, Candidates, Matches, Clean
<1> HIDE DEF i
<1>7. Idle' = Idle \ (D \cup {slot[i]})
  BY <1>2, <1>3
<1> HIDE DEF D
<1>8. Leases!Lend(b, slot[i], D)
  BY <1>4, <1>5, <1>6, <1>7 DEF Leases!Lend, Leases!Clean, Leases!Destroy
<1>9. slot[i] \in Conn
  BY <1>5, IdleAreConnections
<1> QED
  BY <1>5, <1>8, <1>9 DEF Leases!LeaseNext

\* A miss creates a connection.
LEMMA TakeMissCreates ==
    ASSUME PoolInv, NEW b \in Backend, NEW c \in Conn, TakeMiss(b, c)
    PROVE  Leases!LeaseNext
<1> USE DEF PoolInv
<1> DEFINE gone == IF pool_stopped THEN {} ELSE Discarded(b)
           D == {slot[j] : j \in gone}
<1>1. gone \in SUBSET Slots /\ gone \cap Used = gone /\ slot' = Remaining(gone)
  BY TakeSets DEF TakeMiss
<1>2. /\ leased' = leased \cup {c} /\ pool_stopped' = pool_stopped /\ socket[c] = "none"
      /\ backend' = [k \in Conn |-> IF k = c THEN b ELSE IF k \in D THEN None ELSE backend[k]]
      /\ socket' = [k \in Conn |-> IF k = c THEN "unopened" ELSE IF k \in D THEN "none" ELSE socket[k]]
  BY DEF TakeMiss, Free
<1> HIDE DEF gone
<1>3. Idle' = Idle \ D
  BY <1>1, ResetEntries
<1>4. D \in SUBSET Idle
  BY <1>1 DEF Idle
<1> HIDE DEF D
<1>5. Leases!Create(b, c, D)
  BY <1>2, <1>3 DEF Leases!Create, Leases!Free
<1> QED
  BY <1>4, <1>5 DEF Leases!LeaseNext

\* put() that keeps the connection is Cache.
LEMMA PutCachedCaches ==
    ASSUME PoolInv, NEW c \in leased, PutCached(c)
    PROVE  Leases!LeaseNext
<1> USE DEF PoolInv
<1> DEFINE D == {slot[j] : j \in Expired}
<1>1. Idle' = (Idle \ D) \cup {c}
  BY FillEntry, Zenon
<1>2. /\ leased' = leased \ {c} /\ pool_stopped' = pool_stopped /\ ~pool_stopped
      /\ backend' = [k \in Conn |-> IF k \in D THEN None ELSE backend[k]]
      /\ socket' = [k \in Conn |-> IF k \in D THEN "none" ELSE socket[k]]
      /\ socket[c] = "open"
  BY DEF PutCached, Destroy, Cacheable, Clean
<1>3. D \in SUBSET Idle /\ c \in Conn
  BY TakeSets DEF Idle, PoolTypeOK
<1> HIDE DEF D
<1>4. Leases!Cache(c, D)
  BY <1>1, <1>2 DEF Leases!Cache, Leases!Clean, Leases!Destroy
<1> QED
  BY <1>3, <1>4 DEF Leases!LeaseNext

\* stop() is Halt.
LEMMA StopHalts ==
    ASSUME PoolInv, ~pool_stopped, NEW o \in CleanupOps, NEW more \in SUBSET leased,
           StopPool(o, more), timer_pending' \in BOOLEAN
    PROVE  Leases!Halt(more)
<1>1. Idle' = {}
  BY StopEmpties
<1> QED
  BY <1>1 DEF StopPool, Destroy, Leases!Halt, Leases!Destroy

\* Every step of the pool is a step of ConnectionLeases, or none that its
\* clients can see.
LEMMA PoolStepIsLeaseStep ==
    ASSUME PoolInv, [PoolNext]_poolVars
    PROVE  [Leases!LeaseNext]_Leases!leaseVars
<1> USE DEF PoolInv
<1>1. CASE Acquire
  BY <1>1, TakeHitLends, TakeMissCreates DEF Acquire
<1>2. ASSUME NEW c \in leased, PutRefused(c) \/ Drop(c)
      PROVE  Leases!LeaseNext
  <2>1. Idle' = Idle /\ pool_stopped' = pool_stopped /\ c \in Conn
    BY <1>2 DEF PutRefused, Drop, slotVars, Idle, Used, PoolTypeOK
  <2>2. Leases!Drop(c)
    BY <1>2, <2>1 DEF PutRefused, Drop, Destroy, Leases!Drop, Leases!Destroy
  <2> QED
    BY <2>1, <2>2 DEF Leases!LeaseNext
<1>3. ASSUME NEW c \in leased, Use(c)
      PROVE  Leases!LeaseNext
  <2>1. Idle' = Idle /\ c \in Conn
    BY <1>3 DEF Use, slotVars, Idle, Used, PoolTypeOK
  <2>2. Leases!Use(c)
    BY <1>3, <2>1 DEF Use, slotVars, Leases!Use
  <2> QED
    BY <2>1, <2>2 DEF Leases!LeaseNext
<1>4. ASSUME NEW c \in leased, PutCached(c)
      PROVE  Leases!LeaseNext
  BY <1>4, PutCachedCaches
<1>5. ASSUME NEW c \in leased, PutThrows(c)
      PROVE  Leases!LeaseNext
  <2>1. StopPool(cleanupOp, {c}) /\ timer_pending' \in BOOLEAN /\ ~pool_stopped
    BY <1>5 DEF PutThrows, Cacheable
  <2>2. cleanupOp \in CleanupOps /\ {c} \in SUBSET leased
    BY DEF PoolTypeOK
  <2>3. Leases!Halt({c})
    BY <2>1, <2>2, StopHalts
  <2> QED
    BY <2>3 DEF Leases!LeaseNext
<1>6. ASSUME NEW c \in Conn, DataArrives(c)
      PROVE  Leases!LeaseNext
  <2>1. Leases!Soil(c)
    BY <1>6 DEF DataArrives, slotVars, Idle, Used, Clean, Leases!Soil, Leases!Clean
  <2> QED
    BY <2>1 DEF Leases!LeaseNext
<1>7. CASE PoolStop
  <2>1. StopPool(cleanupOp, {}) /\ timer_pending' = timer_pending /\ ~pool_stopped
    BY <1>7 DEF PoolStop
  <2>2. cleanupOp \in CleanupOps /\ {} \in SUBSET leased /\ timer_pending \in BOOLEAN
    BY DEF PoolTypeOK
  <2>3. Leases!Halt({})
    BY <2>1, <2>2, StopHalts
  <2> QED
    BY <2>3 DEF Leases!LeaseNext
<1>8. CASE OnCleanup
  <2> DEFINE D == {slot[i] : i \in Expired}
  <2>1. Idle' = Idle \ D /\ D \in SUBSET Idle
    BY <1>8, OnCleanupInv, TakeSets DEF Idle
  <2>2. Leases!Forget(D)
    BY <1>8, <2>1 DEF OnCleanup, Destroy, Leases!Forget, Leases!Destroy
  <2> QED
    BY <2>1, <2>2 DEF Leases!LeaseNext
<1>9. CASE OnCleanupFails
  <2>1. StopPool("none", {}) /\ ~pool_stopped
    BY <1>9 DEF OnCleanupFails
  <2>2. timer_pending' \in BOOLEAN
    BY <1>9, Zenon DEF OnCleanupFails
  <2>3. "none" \in CleanupOps /\ {} \in SUBSET leased
    BY DEF CleanupOps
  <2>4. Leases!Halt({})
    BY <2>1, <2>2, <2>3, StopHalts
  <2> QED
    BY <2>4 DEF Leases!LeaseNext
<1>10. CASE OnCleanupStopped \/ Tick \/ CleanupExpires \/ UNCHANGED poolVars
  BY <1>10 DEF OnCleanupStopped, Tick, CleanupExpires, poolVars, slotVars, connVars, Idle, Used,
               Leases!leaseVars
<1> QED
  BY <1>1, <1>2, <1>3, <1>4, <1>5, <1>6, <1>7, <1>8, <1>9, <1>10 DEF PoolNext

\* The pool keeps the promise that the exchanges rely on: slots, deadlines and
\* the cleanup timer implement exclusive leases of clean connections.
THEOREM PoolImplementsLeases == PoolSpec => ImplementsLeases
<1>1. PoolInit => Leases!LeaseInit
  BY PoolInitInv DEF PoolInit, Leases!LeaseInit
<1>2. PoolInv /\ [PoolNext]_poolVars => [Leases!LeaseNext]_Leases!leaseVars
  BY PoolStepIsLeaseStep
<1> QED
  BY <1>1, <1>2, PoolInvariance, PTL DEF PoolSpec, PoolSafety, ImplementsLeases, Leases!LeaseSpec
=============================================================================
