------------------------- MODULE HealthChecksProofs -------------------------
(***************************************************************************)
(* The probe scheduler for every number of targets, every interval, every  *)
(* limit on the probes under way and all thresholds: the accounting of the *)
(* probes, the wake-ups of the scheduler, and that an upstream's           *)
(* availability follows from the results of its probes.                    *)
(***************************************************************************)
EXTENDS HealthChecks, FiniteSetTheorems, NaturalsInduction,
        WellFoundedInduction, SequenceTheorems, TLAPS

----------------------------------------------------------------------------
(* Numbers and slots.                                                      *)

\* A set of natural numbers that is not empty has a least element.
LEMMA LeastExists ==
    ASSUME NEW S \in SUBSET Nat, S # {}
    PROVE  \E x \in S : \A y \in S : x <= y
<1> DEFINE R == {r \in Nat \X Nat : r[1] < r[2]}
<1>1. IsWellFoundedOn(R, Nat)
  BY NatLessThanWellFounded, Zenon DEF OpToRel
<1>2. PICK x \in S : \A y \in S : ~ (<<y, x>> \in R)
  BY <1>1, WFMin, Zenon
<1>3. ASSUME NEW y \in S
      PROVE  x <= y
  <2>1. <<y, x>> \in Nat \X Nat /\ <<y, x>>[1] = y /\ <<y, x>>[2] = x
    OBVIOUS
  <2>2. ~ (y < x)
    BY <1>2, <2>1, Zenon
  <2> QED
    BY <2>2
<1> QED
  BY <1>3

\* Two places on a ring of n at one distance from p are one place.
LEMMA RotationIsInjective ==
    ASSUME NEW n \in Nat, NEW p \in 0 .. n - 1, NEW i \in 0 .. n - 1, NEW j \in 0 .. n - 1,
           (IF i >= p THEN i - p ELSE i - p + n) = (IF j >= p THEN j - p ELSE j - p + n)
    PROVE  i = j
OBVIOUS

\* take_due meets every slot once on its way round from the cursor.
LEMMA DistanceIsOrder ==
    ASSUME cursor \in Slots
    PROVE  /\ \A i \in Slots : Distance(i) \in 0 .. slot_count - 1
           /\ \A i, j \in Slots : Distance(i) = Distance(j) => i = j
<1>1. slot_count \in Nat /\ slot_count > 0 /\ cursor \in 0 .. slot_count - 1
  BY ScheduleAssumption DEF Slots
<1>2. ASSUME NEW i \in Slots
      PROVE  Distance(i) = IF i >= cursor THEN i - cursor ELSE i - cursor + slot_count
  <2>1. i \in 0 .. slot_count - 1
    BY DEF Slots
  <2>2. CASE i >= cursor
    BY <1>1, <2>1, <2>2 DEF Distance
  <2>3. CASE i < cursor
    BY <1>1, <2>1, <2>3 DEF Distance
  <2> QED
    BY <1>1, <2>1, <2>2, <2>3
<1>3. Slots = 0 .. slot_count - 1
  BY DEF Slots
<1>4. ASSUME NEW i \in Slots
      PROVE  Distance(i) \in 0 .. slot_count - 1
  <2>1. i \in 0 .. slot_count - 1 /\ Distance(i) = IF i >= cursor THEN i - cursor ELSE i - cursor + slot_count
    BY <1>2, <1>3
  <2> QED
    BY <1>1, <2>1
<1>5. ASSUME NEW i \in Slots, NEW j \in Slots, Distance(i) = Distance(j)
      PROVE  i = j
  <2>1. /\ i \in 0 .. slot_count - 1 /\ j \in 0 .. slot_count - 1
        /\ Distance(i) = IF i >= cursor THEN i - cursor ELSE i - cursor + slot_count
        /\ Distance(j) = IF j >= cursor THEN j - cursor ELSE j - cursor + slot_count
    BY <1>2, <1>3
  <2>2. (IF i >= cursor THEN i - cursor ELSE i - cursor + slot_count)
         = (IF j >= cursor THEN j - cursor ELSE j - cursor + slot_count)
    BY <1>5, <2>1, Zenon
  <2> QED
    BY <1>1, <2>1, <2>2, RotationIsInjective
<1> QED
  BY <1>4, <1>5

\* The slots are finitely many.
LEMMA SlotsAreFinite ==
    ASSUME NEW S \in SUBSET Slots
    PROVE  IsFiniteSet(S) /\ Cardinality(S) \in Nat
<1>1. IsFiniteSet(Slots)
  BY ScheduleAssumption, FS_Interval DEF Slots
<1> QED
  BY <1>1, FS_Subset, FS_CardinalityType

\* Of some slots one is met last.
LEMMA LastMet ==
    ASSUME cursor \in Slots, NEW S \in SUBSET Slots, S # {}
    PROVE  \E i \in S : \A j \in S : Distance(j) <= Distance(i)
<1> DEFINE far == {slot_count - Distance(i) : i \in S}
<1>1. \A i \in S : Distance(i) \in 0 .. slot_count - 1
  BY DistanceIsOrder
<1>2. far \in SUBSET Nat /\ far # {}
  BY <1>1, ScheduleAssumption
<1>3. PICK x \in far : \A y \in far : x <= y
  BY <1>2, LeastExists
<1>4. PICK i \in S : x = slot_count - Distance(i)
  BY <1>3
<1>5. \A j \in S : slot_count - Distance(i) <= slot_count - Distance(j)
  BY <1>3, <1>4
<1> QED
  BY <1>1, <1>5, ScheduleAssumption

----------------------------------------------------------------------------
(* ProbeSchedule.                                                          *)

\* take_due never takes more slots than there are places: before the last one
\* that gets a place, all the others that got one were counted.
LEMMA PlacesSuffice ==
    ASSUME cursor \in Slots, NEW flying \in SUBSET Slots, NEW count \in Nat, count <= max_in_flight,
           NEW throwing \in SUBSET Slots
    PROVE  count + Cardinality(Taken(flying, count, throwing) \ throwing) <= max_in_flight
<1> DEFINE waiting == {i \in Slots \ flying : due[i] = 0}
           before(i) == {j \in waiting \ throwing : Distance(j) < Distance(i)}
           up == Taken(flying, count, throwing) \ throwing
<1>1. up = {i \in waiting \ throwing : count + Cardinality(before(i)) < max_in_flight}
  BY DEF Taken
<1>2. up \in SUBSET Slots
  BY <1>1
<1>3. CASE up = {}
  BY <1>3, FS_EmptySet, ScheduleAssumption
<1>4. CASE up # {}
  <2>1. PICK last \in up : \A j \in up : Distance(j) <= Distance(last)
    BY <1>2, <1>4, LastMet
  <2>2. up \ {last} \subseteq before(last)
    <3>1. ASSUME NEW j \in up, j # last
          PROVE  j \in before(last)
      <4>1. Distance(j) # Distance(last) /\ Distance(j) \in Int /\ Distance(last) \in Int
        BY <1>2, <3>1, DistanceIsOrder, ScheduleAssumption
      <4>2. Distance(j) < Distance(last)
        BY <2>1, <4>1
      <4> QED
        BY <1>1, <4>2
    <3> QED
      BY <3>1
  <2>3. before(last) \in SUBSET Slots
    OBVIOUS
  <2>4. count + Cardinality(before(last)) < max_in_flight
    BY <1>1
  <2> HIDE DEF before, up, waiting
  <2>5. IsFiniteSet(before(last)) /\ Cardinality(before(last)) \in Nat
    BY <2>3, SlotsAreFinite
  <2>6. Cardinality(up \ {last}) <= Cardinality(before(last))
    BY <2>2, <2>5, FS_Subset
  <2>7. Cardinality(up \ {last}) = Cardinality(up) - 1 /\ Cardinality(up) \in Nat
    BY <1>2, SlotsAreFinite, FS_RemoveElement
  <2> QED
    BY <2>4, <2>5, <2>6, <2>7, ScheduleAssumption DEF up
<1> QED
  BY <1>3, <1>4

\* The cursor stays a slot.
LEMMA CursorStays ==
    ASSUME cursor \in Slots, NEW taken \in SUBSET Slots
    PROVE  CursorAfter(taken) \in Slots
<1>1. CASE taken = {}
  BY <1>1 DEF CursorAfter
<1>2. CASE taken # {}
  <2> DEFINE last == CHOOSE i \in taken : \A j \in taken : Distance(j) <= Distance(i)
  <2>1. last \in taken
    BY <1>2, LastMet
  <2>2. CursorAfter(taken) = (last + 1) % slot_count
    BY <1>2 DEF CursorAfter
  <2> HIDE DEF last
  <2>3. last \in Int
    BY <2>1, ScheduleAssumption DEF Slots
  <2> QED
    BY <2>2, <2>3, ScheduleAssumption DEF Slots
<1> QED
  BY <1>1, <1>2

\* next_due is the earliest of the waiting slots' times.
LEMMA NextDueIsLeast ==
    ASSUME NEW flying \in SUBSET Slots, flying # Slots, NEW left \in [Slots -> Nat]
    PROVE  NextDue(flying, left) \in Nat /\ \A i \in Slots \ flying : NextDue(flying, left) <= left[i]
<1> DEFINE times == {left[i] : i \in Slots \ flying}
<1>1. times \in SUBSET Nat /\ times # {}
  OBVIOUS
<1>2. \E t \in times : \A u \in times : t <= u
  BY <1>1, LeastExists
<1>3. NextDue(flying, left) = CHOOSE t \in times : \A u \in times : t <= u
  BY DEF NextDue
<1> HIDE DEF times
<1>4. NextDue(flying, left) \in times /\ \A u \in times : NextDue(flying, left) <= u
  BY <1>2, <1>3
<1> QED
  BY <1>1, <1>4 DEF times

----------------------------------------------------------------------------
(* Types.                                                                  *)

Health == [healthy : BOOLEAN, failures : Nat, successes : Nat]

\* record keeps the slot's type.
LEMMA RecordType ==
    ASSUME NEW s \in Health, NEW success \in BOOLEAN
    PROVE  Record(s, success) \in Health
<1>1. s.healthy \in BOOLEAN /\ s.failures \in Nat /\ s.successes \in Nat
  BY DEF Health
<1>2. /\ Lesser(s.successes + 1, healthy_threshold) \in Nat
      /\ Lesser(s.failures + 1, unhealthy_threshold) \in Nat
  BY <1>1, ThresholdAssumption DEF Lesser
<1>3. CASE success
  BY <1>1, <1>2, <1>3 DEF Record, Health
<1>4. CASE ~success
  BY <1>1, <1>2, <1>4 DEF Record, Health
<1> QED
  BY <1>3, <1>4

\* Remember keeps a sequence of results.
LEMMA RememberType ==
    ASSUME NEW r \in Seq(BOOLEAN), NEW success \in BOOLEAN
    PROVE  Remember(r, success) \in Seq(BOOLEAN)
<1> DEFINE all == Append(r, success)
<1>1. all \in Seq(BOOLEAN) /\ all # <<>>
  OBVIOUS
<1>2. Remember(r, success) = IF Len(all) > Memory THEN Tail(all) ELSE all
  BY DEF Remember
<1> HIDE DEF all
<1>3. Tail(all) \in Seq(BOOLEAN)
  BY <1>1, HeadTailProperties
<1> QED
  BY <1>1, <1>2, <1>3

----------------------------------------------------------------------------
(* The accounting and the wake-ups.                                        *)

\* The inductive invariant: the three parts need each other only through the
\* types and through ProbeAccounting, which bounds the places.
HealthInv == HealthTypeOK /\ ProbeAccounting /\ NoLostWakeup

\* The part of the invariant that pump() establishes.
Scheduled ==
    /\ due' \in [Slots -> Nat] /\ in_flight' \subseteq Slots /\ cursor' \in Slots /\ active' \in Nat
    /\ probe' \in [Slots -> Stages \cup {"none"}]
    /\ slot' \in [Slots -> Health] /\ recent' \in [Slots -> Seq(BOOLEAN)]
    /\ timer' \in {"none", "armed"} /\ timer_left' \in Nat
    /\ active' = Cardinality(in_flight') /\ active' <= max_in_flight
    /\ in_flight' = {i \in Slots : probe'[i] # "none"}
    /\ \A i \in Slots \ in_flight' :
          (timer' = "armed" /\ timer_left' <= due'[i]) \/ active' = max_in_flight

\* pump() leaves as many probes as places are counted, and a timer that is set
\* for the earliest slot unless every place or every slot is taken.
LEMMA PumpSchedules ==
    ASSUME HealthTypeOK,
           NEW flying \in SUBSET Slots, NEW count \in Nat,
           count = Cardinality(flying), count <= max_in_flight,
           NEW running \in [Slots -> Stages \cup {"none"}],
           flying = {i \in Slots : running[i] # "none"},
           NEW health \in [Slots -> Health], NEW results \in [Slots -> Seq(BOOLEAN)],
           Pump(flying, count, running, health, results)
    PROVE  Scheduled
<1> DEFINE taken(throwing) == Taken(flying, count, throwing)
           up(throwing)    == taken(throwing) \ throwing
           left(throwing)  ==
               [i \in Slots |-> IF i \in taken(throwing) THEN interval[i] ELSE due[i]]
<1>1. PICK throwing \in SUBSET Slots :
        /\ throwing \subseteq taken(throwing)
        /\ in_flight' = flying \cup up(throwing)
        /\ active' = count + Cardinality(up(throwing))
        /\ due' = left(throwing)
        /\ cursor' = CursorAfter(taken(throwing))
        /\ probe' = [i \in Slots |-> IF i \in up(throwing) THEN "resolve" ELSE running[i]]
        /\ slot' = [i \in Slots |-> IF i \in throwing THEN Record(health[i], FALSE) ELSE health[i]]
        /\ recent' = [i \in Slots |->
                        IF i \in throwing THEN Remember(results[i], FALSE) ELSE results[i]]
        /\ ArmTimer(flying \cup up(throwing), count + Cardinality(up(throwing)), left(throwing))
  BY Zenon DEF Pump
<1> DEFINE T == taken(throwing)
           U == up(throwing)
           L == left(throwing)
<1>2. T \subseteq Slots \ flying
  BY DEF Taken
<1>3. count + Cardinality(U) <= max_in_flight
  BY PlacesSuffice DEF HealthTypeOK
<1>4. U = T \ throwing /\ L = [i \in Slots |-> IF i \in T THEN interval[i] ELSE due[i]]
  OBVIOUS
<1>5. /\ in_flight' = flying \cup U
      /\ active' = count + Cardinality(U)
      /\ due' = L
      /\ cursor' = CursorAfter(T)
      /\ probe' = [i \in Slots |-> IF i \in U THEN "resolve" ELSE running[i]]
      /\ ArmTimer(flying \cup U, count + Cardinality(U), L)
  BY <1>1
<1> HIDE DEF T, U, L, taken, up, left
<1>6. L \in [Slots -> Nat]
  BY <1>4, ScheduleAssumption DEF HealthTypeOK
<1>7. U \subseteq Slots \ flying
  BY <1>2, <1>4
<1>8. in_flight' \subseteq Slots /\ due' \in [Slots -> Nat]
  BY <1>5, <1>6, <1>7
<1>9. cursor' \in Slots
  BY <1>2, <1>5, CursorStays DEF HealthTypeOK
<1>10. probe' \in [Slots -> Stages \cup {"none"}] /\ in_flight' = {i \in Slots : probe'[i] # "none"}
  BY <1>5, <1>7 DEF Stages
<1>11. slot' \in [Slots -> Health] /\ recent' \in [Slots -> Seq(BOOLEAN)]
  <2>1. \A i \in Slots : Record(health[i], FALSE) \in Health
    BY RecordType
  <2>2. \A i \in Slots : Remember(results[i], FALSE) \in Seq(BOOLEAN)
    BY RememberType
  <2> QED
    BY <1>1, <2>1, <2>2
<1>12. IsFiniteSet(flying) /\ IsFiniteSet(U) /\ Cardinality(U) \in Nat
  BY <1>7, SlotsAreFinite
<1>13. Cardinality(flying \cup U) = count + Cardinality(U)
  <2>1. flying \cap U = {}
    BY <1>7
  <2>2. Cardinality(flying \cap U) = 0
    BY <2>1, FS_EmptySet
  <2>3. Cardinality(flying \cup U) = Cardinality(flying) + Cardinality(U) - Cardinality(flying \cap U)
    BY <1>12, FS_Union
  <2> QED
    BY <1>12, <2>2, <2>3
<1>14. active' \in Nat /\ active' = Cardinality(in_flight') /\ active' <= max_in_flight
  <2>1. in_flight' = flying \cup U
    BY <1>5
  <2>2. Cardinality(in_flight') = Cardinality(flying \cup U)
    BY <2>1, Zenon
  <2>3. active' = count + Cardinality(U)
    BY <1>5
  <2>4. active' = Cardinality(in_flight')
    BY <1>13, <2>2, <2>3, Zenon
  <2>5. active' <= max_in_flight
    BY <1>3, <2>3, Zenon
  <2>6. \A m \in Nat : count + m \in Nat
    OBVIOUS
  <2> QED
    BY <1>12, <2>3, <2>4, <2>5, <2>6, Zenon
<1>15. CASE HasNextDue(in_flight', active')
  <2>1. timer' = "armed" /\ timer_left' = NextDue(in_flight', L)
    BY <1>5, <1>15 DEF ArmTimer
  <2>2. in_flight' # Slots
    BY <1>15 DEF HasNextDue
  <2>3. NextDue(in_flight', L) \in Nat /\ \A i \in Slots \ in_flight' : NextDue(in_flight', L) <= L[i]
    BY <1>6, <1>8, <2>2, NextDueIsLeast
  <2>4. timer_left' \in Nat /\ \A i \in Slots \ in_flight' : timer_left' <= due'[i]
    BY <1>5, <2>1, <2>3
  <2> QED
    BY <1>8, <1>9, <1>10, <1>11, <1>14, <2>1, <2>4 DEF Scheduled
<1>16. CASE ~HasNextDue(in_flight', active')
  <2>1. timer' = timer /\ timer_left' = timer_left
    BY <1>5, <1>16 DEF ArmTimer
  <2>2. active' = max_in_flight \/ in_flight' = Slots
    BY <1>16 DEF HasNextDue
  <2>3. timer' \in {"none", "armed"} /\ timer_left' \in Nat
    BY <2>1 DEF HealthTypeOK
  <2> QED
    BY <1>8, <1>9, <1>10, <1>11, <1>14, <2>2, <2>3 DEF Scheduled
<1> QED
  BY <1>15, <1>16

\* What pump() schedules is the invariant, once the handler has kept the rest.
LEMMA ScheduledInv ==
    ASSUME Scheduled, HealthInv, ~stopped,
           late' \subseteq Slots, posted' \in BOOLEAN, fired' \in Nat, failed' \in BOOLEAN,
           UNCHANGED <<started, stopped, reported>>
    PROVE  HealthInv'
<1>1. HealthTypeOK'
  BY DEF HealthInv, HealthTypeOK, Scheduled, Health
<1>2. ProbeAccounting'
  BY DEF ProbeAccounting, Scheduled
<1>3. NoLostWakeup'
  BY DEF NoLostWakeup, Scheduled
<1> QED
  BY <1>1, <1>2, <1>3 DEF HealthInv

\* A stop leaves no probe, and nothing to wake.
LEMMA StoppedInv ==
    ASSUME HealthInv,
           in_flight' = {}, active' = 0, timer' = "none", probe' = [i \in Slots |-> "none"],
           stopped' = TRUE, UNCHANGED <<due, cursor, started, timer_left>>,
           slot' \in [Slots -> Health], recent' \in [Slots -> Seq(BOOLEAN)], reported' \in BOOLEAN,
           late' \subseteq Slots, posted' \in BOOLEAN, fired' \in Nat, failed' \in BOOLEAN
    PROVE  HealthInv'
<1>1. HealthTypeOK'
  BY DEF HealthInv, HealthTypeOK, Health
<1>2. Cardinality(in_flight') = 0
  BY FS_EmptySet
<1>3. ProbeAccounting'
  BY <1>2, ScheduleAssumption DEF ProbeAccounting
<1>4. NoLostWakeup'
  BY DEF NoLostWakeup
<1> QED
  BY <1>1, <1>3, <1>4 DEF HealthInv

\* A handler that leaves the queue keeps the types of the queue.
LEMMA DispatchType ==
    ASSUME HealthTypeOK, Dispatch
    PROVE  posted' \in BOOLEAN /\ fired' \in Nat /\ failed' \in BOOLEAN
<1>1. posted \in BOOLEAN /\ fired \in Nat /\ failed \in BOOLEAN
  BY DEF HealthTypeOK
<1>2. CASE posted /\ posted' = FALSE /\ UNCHANGED <<fired, failed>>
  BY <1>1, <1>2
<1>3. CASE fired > 0 /\ fired' = fired - 1 /\ UNCHANGED <<posted, failed>>
  BY <1>1, <1>3
<1> QED
  BY <1>2, <1>3 DEF Dispatch

\* The types under their short names.
LEMMA SlotTypes ==
    ASSUME HealthTypeOK
    PROVE  slot \in [Slots -> Health] /\ recent \in [Slots -> Seq(BOOLEAN)]
BY DEF HealthTypeOK, Health

\* One result of one slot keeps the types.
LEMMA ResultType ==
    ASSUME HealthTypeOK, NEW i \in Slots, NEW success \in BOOLEAN
    PROVE  /\ [slot EXCEPT ![i] = Record(@, success)] \in [Slots -> Health]
           /\ [recent EXCEPT ![i] = Remember(@, success)] \in [Slots -> Seq(BOOLEAN)]
<1>1. slot \in [Slots -> Health] /\ recent \in [Slots -> Seq(BOOLEAN)]
  BY SlotTypes
<1>2. Record(slot[i], success) \in Health /\ Remember(recent[i], success) \in Seq(BOOLEAN)
  BY <1>1, RecordType, RememberType
<1> QED
  BY <1>1, <1>2

\* A pump() that throws stops everything; the results it recorded keep the types.
LEMMA PumpThrowsInv ==
    ASSUME HealthInv, NEW flying, NEW count,
           NEW health \in [Slots -> Health], NEW results \in [Slots -> Seq(BOOLEAN)],
           PumpThrows(flying, count, health, results),
           posted' \in BOOLEAN, fired' \in Nat, failed' \in BOOLEAN
    PROVE  HealthInv'
<1>1. PICK throwing \in SUBSET Slots, begun \in SUBSET Slots :
        /\ slot' = [j \in Slots |-> IF j \in throwing THEN Record(health[j], FALSE) ELSE health[j]]
        /\ recent' = [j \in Slots |->
                        IF j \in throwing THEN Remember(results[j], FALSE) ELSE results[j]]
        /\ Fail(Running \cup (begun \ throwing))
  <2>1. PICK throwing \in SUBSET Slots, reach \in 0..slot_count :
          LET begun == {i \in Taken(flying, count, throwing) : Distance(i) < reach} IN
          /\ slot' = [j \in Slots |-> IF j \in throwing THEN Record(health[j], FALSE) ELSE health[j]]
          /\ recent' = [j \in Slots |->
                          IF j \in throwing THEN Remember(results[j], FALSE) ELSE results[j]]
          /\ Fail(Running \cup (begun \ throwing))
    BY Zenon DEF PumpThrows
  <2>2. {i \in Taken(flying, count, throwing) : Distance(i) < reach} \in SUBSET Slots
    BY DEF Taken
  <2> QED
    BY <2>1, <2>2, Zenon
<1>2. slot' \in [Slots -> Health] /\ recent' \in [Slots -> Seq(BOOLEAN)]
  <2>1. \A j \in Slots : Record(health[j], FALSE) \in Health /\ Remember(results[j], FALSE) \in Seq(BOOLEAN)
    BY RecordType, RememberType
  <2> QED
    BY <1>1, <2>1
<1> QED
  BY <1>1, <1>2, StoppedInv DEF Fail, StopChecks, Running, HealthInv, HealthTypeOK

\* completed() gives its place back before it pumps.
LEMMA CompletedSchedules ==
    ASSUME HealthInv, NEW i \in Slots, NEW success \in BOOLEAN, probe[i] # "none",
           Completed(i, success)
    PROVE  Scheduled
<1> DEFINE flying == in_flight \ {i}
           running == [probe EXCEPT ![i] = "none"]
           health == [slot EXCEPT ![i] = Record(@, success)]
           results == [recent EXCEPT ![i] = Remember(@, success)]
<1>1. HealthTypeOK /\ ProbeAccounting
  BY DEF HealthInv
<1>2. i \in in_flight /\ in_flight \in SUBSET Slots
  BY <1>1 DEF HealthTypeOK, ProbeAccounting
<1>3. Pump(flying, active - 1, running, health, results)
  BY <1>2 DEF Completed
<1>4. health \in [Slots -> Health] /\ results \in [Slots -> Seq(BOOLEAN)]
  BY <1>1, ResultType
<1>5. IsFiniteSet(in_flight) /\ Cardinality(in_flight) \in Nat
  BY <1>2, SlotsAreFinite
<1>6. Cardinality(flying) = active - 1
  BY <1>1, <1>2, <1>5, FS_RemoveElement DEF ProbeAccounting
<1>7. Cardinality(flying) \in Nat
  BY <1>2, SlotsAreFinite
<1>8. active - 1 \in Nat /\ active - 1 <= max_in_flight
  BY <1>1, <1>6, <1>7, ScheduleAssumption DEF HealthTypeOK, ProbeAccounting
<1>9. running \in [Slots -> Stages \cup {"none"}] /\ flying = {j \in Slots : running[j] # "none"}
  BY <1>1 DEF HealthTypeOK, ProbeAccounting
<1>10. flying \in SUBSET Slots
  BY <1>2
<1> HIDE DEF flying, running, health, results
<1> QED
  BY <1>1, <1>3, <1>4, <1>6, <1>8, <1>9, <1>10, PumpSchedules

\* Every step of the scheduler keeps the invariant.
LEMMA HealthStepInv ==
    ASSUME HealthInv, [HealthNext]_healthVars
    PROVE  HealthInv'
<1>1. HealthTypeOK /\ ProbeAccounting /\ NoLostWakeup
  BY DEF HealthInv
<1>2. /\ late \subseteq Slots /\ posted \in BOOLEAN /\ fired \in Nat /\ failed \in BOOLEAN
      /\ reported \in BOOLEAN
  BY <1>1 DEF HealthTypeOK
<1>3. slot \in [Slots -> Health] /\ recent \in [Slots -> Seq(BOOLEAN)]
  BY <1>1, SlotTypes
<1>4. CASE StartChecks
  <2>1. HealthTypeOK'
    BY <1>1, <1>4 DEF StartChecks, HealthTypeOK, scheduleVars
  <2>2. ProbeAccounting'
    BY <1>1, <1>4 DEF StartChecks, ProbeAccounting, scheduleVars
  <2>3. NoLostWakeup'
    BY <1>4 DEF StartChecks, NoLostWakeup, Alerted
  <2> QED
    BY <2>1, <2>2, <2>3 DEF HealthInv
<1>5. CASE Stop
  BY <1>2, <1>3, <1>5, StoppedInv DEF Stop, StopChecks, Running
<1>6. CASE OnPump
  <2>1. ~stopped /\ Dispatch /\ Pump(in_flight, active, probe, slot, recent) /\ late' = late
    BY <1>6 DEF OnPump
  <2>2. UNCHANGED <<started, stopped, reported>>
    BY <2>1 DEF Pump
  <2>3. Scheduled
    BY <1>1, <1>3, <2>1, PumpSchedules DEF HealthTypeOK, ProbeAccounting
  <2> QED
    BY <1>1, <1>2, <2>1, <2>2, <2>3, DispatchType, ScheduledInv
<1>7. CASE OnPumpThrows
  <2>1. Dispatch /\ PumpThrows(in_flight, active, slot, recent)
    BY <1>7 DEF OnPumpThrows
  <2>2. posted' \in BOOLEAN /\ fired' \in Nat /\ failed' \in BOOLEAN
    BY <1>1, <2>1, DispatchType
  <2> QED
    BY <1>3, <2>1, <2>2, PumpThrowsInv
<1>8. CASE OnTimerFails
  BY <1>2, <1>3, <1>8, StoppedInv DEF OnTimerFails, Fail, StopChecks, Running
<1>9. CASE OnStopped
  <2>1. posted' \in BOOLEAN /\ fired' \in Nat /\ failed' \in BOOLEAN
    <3>1. CASE Dispatch
      BY <1>1, <3>1, DispatchType
    <3>2. CASE failed /\ failed' = FALSE /\ UNCHANGED <<posted, fired>>
      BY <1>2, <3>2
    <3> QED
      BY <1>9, <3>1, <3>2 DEF OnStopped
  <2>2. HealthTypeOK'
    BY <1>1, <1>9, <2>1 DEF OnStopped, HealthTypeOK, scheduleVars
  <2>3. ProbeAccounting'
    BY <1>1, <1>9 DEF OnStopped, ProbeAccounting, scheduleVars
  <2>4. NoLostWakeup'
    BY <1>9 DEF OnStopped, NoLostWakeup
  <2> QED
    BY <2>2, <2>3, <2>4 DEF HealthInv
<1>10. ASSUME NEW i \in Slots, ProbeSteps(i)
       PROVE  HealthInv'
  <2>1. CASE ProbeAdvances(i)
    <3>1. probe[i] \in {"resolve", "connect", "handshake", "write"}
      BY <2>1 DEF ProbeAdvances, Stages
    <3>2. NextStage(i) \in Stages
      BY <3>1 DEF NextStage, Stages
    <3>3. HealthTypeOK'
      BY <1>1, <2>1, <3>2 DEF ProbeAdvances, HealthTypeOK, scheduleVars, timerVars
    <3>4. ProbeAccounting'
      <4>1. {j \in Slots : probe'[j] # "none"} = {j \in Slots : probe[j] # "none"}
        BY <1>1, <2>1, <3>1, <3>2 DEF ProbeAdvances, HealthTypeOK, Stages
      <4> QED
        BY <1>1, <2>1, <4>1 DEF ProbeAdvances, ProbeAccounting, scheduleVars, timerVars
    <3>5. NoLostWakeup'
      BY <1>1, <2>1 DEF ProbeAdvances, NoLostWakeup, Alerted, scheduleVars, timerVars
    <3> QED
      BY <3>3, <3>4, <3>5 DEF HealthInv
  <2>2. ASSUME NEW success \in BOOLEAN, probe[i] \in Stages, Completed(i, success),
               late' = late \cup {i}, UNCHANGED <<posted, fired, failed>>
        PROVE  HealthInv'
    <3>1. probe[i] # "none"
      BY <2>2 DEF Stages
    <3>2. ~stopped
      BY <1>1, <3>1 DEF ProbeAccounting
    <3>3. Scheduled
      BY <2>2, <3>1, CompletedSchedules
    <3>4. UNCHANGED <<started, stopped, reported>>
      BY <2>2 DEF Completed, Pump
    <3> QED
      BY <1>2, <2>2, <3>2, <3>3, <3>4, ScheduledInv
  <2>3. CASE ProbeAnswered(i)
    <3>1. PICK success \in BOOLEAN : Completed(i, success)
      BY <2>3 DEF ProbeAnswered
    <3> QED
      BY <2>2, <2>3, <3>1 DEF ProbeAnswered, Stages
  <2>4. CASE ProbeFails(i)
    BY <2>2, <2>4 DEF ProbeFails
  <2>5. CASE ProbeEndsInFailure(i)
    <3>1. PICK success \in BOOLEAN : CompletedThrows(i, success)
      BY <2>5 DEF ProbeEndsInFailure
    <3> DEFINE health == [slot EXCEPT ![i] = Record(@, success)]
               results == [recent EXCEPT ![i] = Remember(@, success)]
               count == IF i \in in_flight THEN active - 1 ELSE active
    <3>2. health \in [Slots -> Health] /\ results \in [Slots -> Seq(BOOLEAN)]
      BY <1>1, ResultType
    <3>3. PumpThrows(in_flight \ {i}, count, health, results)
      BY <3>1 DEF CompletedThrows
    <3>4. posted' \in BOOLEAN /\ fired' \in Nat /\ failed' \in BOOLEAN
      BY <1>2, <2>5 DEF ProbeEndsInFailure
    <3> HIDE DEF health, results, count
    <3> QED
      BY <3>2, <3>3, <3>4, PumpThrowsInv
  <2>6. CASE LateProbe(i)
    <3>1. HealthTypeOK'
      BY <1>1, <2>6 DEF LateProbe, HealthTypeOK, scheduleVars, timerVars
    <3>2. ProbeAccounting'
      BY <1>1, <2>6 DEF LateProbe, ProbeAccounting, scheduleVars, timerVars
    <3>3. NoLostWakeup'
      BY <1>1, <2>6 DEF LateProbe, NoLostWakeup, Alerted, scheduleVars, timerVars
    <3> QED
      BY <3>1, <3>2, <3>3 DEF HealthInv
  <2> QED
    BY <1>10, <2>1, <2>3, <2>4, <2>5, <2>6 DEF ProbeSteps
<1>11. CASE Tick
  <2>1. \A t \in Nat : Down(t) \in Nat
    BY DEF Down
  <2>2. \A t, u \in Nat : t <= u => Down(t) <= Down(u)
    BY DEF Down
  <2>3. HealthTypeOK'
    BY <1>1, <1>11, <2>1 DEF Tick, HealthTypeOK
  <2>4. ProbeAccounting'
    BY <1>1, <1>11 DEF Tick, ProbeAccounting
  <2>5. NoLostWakeup'
    BY <1>1, <1>11, <2>2 DEF Tick, NoLostWakeup, Alerted, HealthTypeOK
  <2> QED
    BY <2>3, <2>4, <2>5 DEF HealthInv
<1>12. CASE TimerExpires
  <2>1. HealthTypeOK'
    BY <1>1, <1>12 DEF TimerExpires, HealthTypeOK, scheduleVars
  <2>2. ProbeAccounting'
    BY <1>1, <1>12 DEF TimerExpires, ProbeAccounting, scheduleVars
  <2>3. NoLostWakeup'
    BY <1>2, <1>12 DEF TimerExpires, NoLostWakeup, Alerted
  <2> QED
    BY <2>1, <2>2, <2>3 DEF HealthInv
<1>13. CASE TimerErrs
  <2>1. HealthTypeOK'
    BY <1>1, <1>13 DEF TimerErrs, HealthTypeOK, scheduleVars
  <2>2. ProbeAccounting'
    BY <1>1, <1>13 DEF TimerErrs, ProbeAccounting, scheduleVars
  <2>3. NoLostWakeup'
    BY <1>13 DEF TimerErrs, NoLostWakeup, Alerted
  <2> QED
    BY <2>1, <2>2, <2>3 DEF HealthInv
<1>14. CASE UNCHANGED healthVars
  BY <1>14 DEF HealthInv, HealthTypeOK, ProbeAccounting, NoLostWakeup, Alerted, healthVars,
               scheduleVars, timerVars
<1> QED
  BY <1>4, <1>5, <1>6, <1>7, <1>8, <1>9, <1>10, <1>11, <1>12, <1>13, <1>14 DEF HealthNext

\* The scheduler's invariant holds in every state, for all constants.
THEOREM HealthInvariance == HealthSafety => []HealthInv
<1>1. HealthInit => HealthInv
  <2> SUFFICES ASSUME HealthInit PROVE HealthInv
    OBVIOUS
  <2>1. HealthTypeOK
    <3>1. 0 \in Slots
      BY ScheduleAssumption DEF Slots
    <3>2. <<>> \in Seq(BOOLEAN)
      OBVIOUS
    <3> QED
      BY <3>1, <3>2 DEF HealthInit, HealthTypeOK
  <2>2. Cardinality({}) = 0
    BY FS_EmptySet
  <2>3. ProbeAccounting
    BY <2>2, ScheduleAssumption DEF HealthInit, ProbeAccounting
  <2>4. NoLostWakeup
    BY DEF HealthInit, NoLostWakeup
  <2> QED
    BY <2>1, <2>3, <2>4 DEF HealthInv
<1>2. HealthInv /\ [HealthNext]_healthVars => HealthInv'
  BY HealthStepInv
<1> QED
  BY <1>1, <1>2, PTL DEF HealthSafety

\* ProbeSchedule's in_flight_, the probes of HealthChecks::Impl and active_ agree
\* and never exceed max_in_flight, for any number of targets.
THEOREM ProbeAccountingTheorem == HealthSpec => []ProbeAccounting
<1>1. HealthInv => ProbeAccounting
  BY DEF HealthInv
<1> QED
  BY <1>1, HealthInvariance, PTL DEF HealthSpec

\* No waiting slot is forgotten: pump() will be called by the time it is due, for
\* all intervals and any number of targets and places.
THEOREM WakeupTheorem == HealthSpec => []NoLostWakeup
<1>1. HealthInv => NoLostWakeup
  BY DEF HealthInv
<1> QED
  BY <1>1, HealthInvariance, PTL DEF HealthSpec

----------------------------------------------------------------------------
(* Availability.                                                           *)

\* Remember appends the result and forgets at most the oldest one.
LEMMA RememberIs ==
    ASSUME NEW r \in Seq(BOOLEAN), Len(r) <= Memory, NEW success \in BOOLEAN
    PROVE  LET q == Remember(r, success)
               d == Len(r) + 1 - Len(q) IN
           /\ q \in Seq(BOOLEAN) /\ q # <<>> /\ Len(q) \in 1 .. Memory /\ q[Len(q)] = success
           /\ d \in {0, 1} /\ (d = 1 => Len(q) = Memory)
           /\ \A k \in 1 .. Len(q) - 1 : q[k] = r[k + d]
<1> DEFINE all == Append(r, success)
           q == Remember(r, success)
<1>1. Memory \in Nat /\ Memory >= 2
  BY ThresholdAssumption DEF Memory
<1>2. /\ all \in Seq(BOOLEAN) /\ all # <<>> /\ Len(all) = Len(r) + 1 /\ all[Len(r) + 1] = success
      /\ \A k \in 1 .. Len(r) : all[k] = r[k]
  OBVIOUS
<1>3. q = IF Len(all) > Memory THEN Tail(all) ELSE all
  BY DEF Remember
<1> HIDE DEF all, q
<1>4. Len(r) \in Nat
  OBVIOUS
<1>5. CASE Len(all) > Memory
  <2>1. /\ q \in Seq(BOOLEAN) /\ Len(q) = Len(r)
        /\ \A k \in 1 .. Len(q) : q[k] = all[k + 1]
    BY <1>2, <1>3, <1>5, HeadTailProperties
  <2>2. Len(q) = Memory
    BY <1>1, <1>2, <1>4, <1>5, <2>1
  <2>3. q[Len(q)] = success
    BY <1>1, <1>2, <2>1, <2>2
  <2>4. ASSUME NEW k \in 1 .. Len(q) - 1
        PROVE  q[k] = r[k + 1]
    BY <1>2, <1>4, <2>1
  <2>5. q # <<>>
    BY <1>1, <2>2
  <2> QED
    BY <1>1, <2>1, <2>2, <2>3, <2>4, <2>5 DEF q
<1>6. CASE Len(all) <= Memory
  <2>1. q = all
    BY <1>1, <1>2, <1>3, <1>4, <1>6
  <2> QED
    BY <1>1, <1>2, <1>4, <1>6, <2>1 DEF q
<1> QED
  BY <1>1, <1>2, <1>4, <1>5, <1>6

\* One more result: a run of equal results grows by one or begins anew.
LEMMA RunAfterRemember ==
    ASSUME NEW r \in Seq(BOOLEAN), Len(r) <= Memory, NEW success \in BOOLEAN, NEW value \in BOOLEAN,
           NEW n \in 0 .. Memory - 1
    PROVE  LastAre(Remember(r, success), n + 1, value) <=> success = value /\ LastAre(r, n, value)
<1> DEFINE q == Remember(r, success)
           d == Len(r) + 1 - Len(q)
<1>1. /\ q \in Seq(BOOLEAN) /\ Len(q) \in 1 .. Memory /\ q[Len(q)] = success
      /\ d \in {0, 1} /\ (d = 1 => Len(q) = Memory)
      /\ \A k \in 1 .. Len(q) - 1 : q[k] = r[k + d]
  BY RememberIs
<1>2. Memory \in Nat /\ Len(r) \in Nat /\ d = Len(r) + 1 - Len(q)
  BY ThresholdAssumption DEF Memory
<1> HIDE DEF q, d
<1>3. ASSUME LastAre(q, n + 1, value)
      PROVE  success = value /\ LastAre(r, n, value)
  <2>1. Len(q) >= n + 1 /\ \A k \in Len(q) - n .. Len(q) : q[k] = value
    BY <1>1, <1>2, <1>3 DEF LastAre
  <2>2. ASSUME NEW k \in Len(r) - n + 1 .. Len(r)
        PROVE  r[k] = value
    <3>1. k - d \in 1 .. Len(q) - 1 /\ k - d \in Len(q) - n .. Len(q) /\ (k - d) + d = k
      BY <1>1, <1>2, <2>1
    <3> QED
      BY <1>1, <2>1, <3>1
  <2>3. Len(r) >= n
    BY <1>1, <1>2, <2>1
  <2>4. Len(q) \in Len(q) - n .. Len(q)
    BY <1>1, <2>1
  <2> QED
    BY <1>1, <2>1, <2>2, <2>3, <2>4 DEF LastAre
<1>4. ASSUME success = value, LastAre(r, n, value)
      PROVE  LastAre(q, n + 1, value)
  <2>1. Len(r) >= n /\ \A k \in Len(r) - n + 1 .. Len(r) : r[k] = value
    BY <1>4 DEF LastAre
  <2>2. Len(q) >= n + 1
    BY <1>1, <1>2, <2>1
  <2>3. ASSUME NEW k \in Len(q) - (n + 1) + 1 .. Len(q)
        PROVE  q[k] = value
    <3>1. CASE k = Len(q)
      BY <1>1, <1>4, <3>1
    <3>2. CASE k # Len(q)
      <4>1. k \in 1 .. Len(q) - 1 /\ k + d \in Len(r) - n + 1 .. Len(r)
        BY <1>1, <1>2, <2>2, <3>2
      <4> QED
        BY <1>1, <2>1, <4>1
    <3> QED
      BY <3>1, <3>2
  <2> QED
    BY <2>2, <2>3 DEF LastAre
<1> QED
  BY <1>3, <1>4 DEF q

\* What a prefix of some results is.
LEMMA PrefixIs ==
    ASSUME NEW q \in Seq(BOOLEAN), NEW n \in Nat, n <= Len(q)
    PROVE  Len(SubSeq(q, 1, n)) = n /\ \A k \in 1 .. n : SubSeq(q, 1, n)[k] = q[k]
<1>1. Len(SubSeq(q, 1, n)) = n
  OBVIOUS
<1>2. \A k \in 1 .. n : SubSeq(q, 1, n)[k] = q[k]
  OBVIOUS
<1> QED
  BY <1>1, <1>2

\* Without the last result, the runs are those of before.
LEMMA RunWithoutLast ==
    ASSUME NEW r \in Seq(BOOLEAN), Len(r) <= Memory, NEW success \in BOOLEAN, NEW value \in BOOLEAN,
           NEW n \in 0 .. Memory - 1
    PROVE  LastAre(WithoutLast(Remember(r, success)), n, value) <=> LastAre(r, n, value)
<1> DEFINE q == Remember(r, success)
           p == WithoutLast(q)
           d == Len(r) + 1 - Len(q)
<1>1. /\ q \in Seq(BOOLEAN) /\ q # <<>> /\ Len(q) \in 1 .. Memory
      /\ d \in {0, 1} /\ (d = 1 => Len(q) = Memory)
      /\ \A k \in 1 .. Len(q) - 1 : q[k] = r[k + d]
  BY RememberIs
<1>2. Memory \in Nat /\ Len(r) \in Nat /\ d = Len(r) + 1 - Len(q)
  BY ThresholdAssumption DEF Memory
<1>3. p = SubSeq(q, 1, Len(q) - 1)
  BY <1>1 DEF WithoutLast
<1> HIDE DEF p, q, d
<1>4. Len(p) = Len(q) - 1 /\ \A k \in 1 .. Len(q) - 1 : p[k] = q[k]
  <2>1. Len(q) - 1 \in Nat /\ Len(q) - 1 <= Len(q)
    BY <1>1, <1>2
  <2> QED
    BY <1>1, <1>3, <2>1, PrefixIs
<1>5. \A k \in 1 .. Len(p) : p[k] = r[k + d]
  BY <1>1, <1>4
<1>6. ASSUME LastAre(p, n, value)
      PROVE  LastAre(r, n, value)
  <2>1. Len(p) >= n /\ \A k \in Len(p) - n + 1 .. Len(p) : p[k] = value
    BY <1>6 DEF LastAre
  <2>2. ASSUME NEW k \in Len(r) - n + 1 .. Len(r)
        PROVE  r[k] = value
    <3>1. k - d \in 1 .. Len(p) /\ k - d \in Len(p) - n + 1 .. Len(p) /\ (k - d) + d = k
      BY <1>1, <1>2, <1>4, <2>1
    <3> QED
      BY <1>5, <2>1, <3>1
  <2>3. Len(r) >= n
    BY <1>1, <1>2, <1>4, <2>1
  <2> QED
    BY <2>2, <2>3 DEF LastAre
<1>7. ASSUME LastAre(r, n, value)
      PROVE  LastAre(p, n, value)
  <2>1. Len(r) >= n /\ \A k \in Len(r) - n + 1 .. Len(r) : r[k] = value
    BY <1>7 DEF LastAre
  <2>2. Len(p) >= n
    BY <1>1, <1>2, <1>4, <2>1
  <2>3. ASSUME NEW k \in Len(p) - n + 1 .. Len(p)
        PROVE  p[k] = value
    <3>1. k \in 1 .. Len(p) /\ k + d \in Len(r) - n + 1 .. Len(r)
      BY <1>1, <1>2, <1>4, <2>2
    <3> QED
      BY <1>5, <2>1, <3>1
  <2> QED
    BY <2>2, <2>3 DEF LastAre
<1> QED
  BY <1>6, <1>7 DEF p, q

\* A run contains the shorter ones.
LEMMA ShorterRun ==
    ASSUME NEW r \in Seq(BOOLEAN), NEW value \in BOOLEAN, NEW n \in Nat, NEW m \in 0 .. n,
           LastAre(r, n, value)
    PROVE  LastAre(r, m, value)
BY DEF LastAre

\* The slot's counters are the lengths of the runs its last results end in, up to
\* the thresholds, and its availability is settled by them.
CountsAreRuns(s, r) ==
    /\ Len(r) <= Memory
    /\ s.failures \in 0 .. unhealthy_threshold /\ LastAre(r, s.failures, FALSE)
    /\ s.failures < unhealthy_threshold => ~LastAre(r, s.failures + 1, FALSE)
    /\ s.successes \in 0 .. healthy_threshold /\ LastAre(r, s.successes, TRUE)
    /\ s.successes < healthy_threshold => ~LastAre(r, s.successes + 1, TRUE)
Settled(s, r) ==
    /\ LastAre(r, unhealthy_threshold, FALSE) => ~s.healthy
    /\ LastAre(r, healthy_threshold, TRUE) => s.healthy
SettledBefore(s, r) ==
    LET p == WithoutLast(r) IN
    \/ LastAre(r, unhealthy_threshold, FALSE) \/ LastAre(r, healthy_threshold, TRUE)
    \/ Settled(s, p)
EvidenceOK(s, r) == CountsAreRuns(s, r) /\ Settled(s, r) /\ SettledBefore(s, r)
Evidence == \A i \in Slots : EvidenceOK(slot[i], recent[i])

\* No results are evidence for nothing.
LEMMA NoEvidence ==
    EvidenceOK([healthy |-> TRUE, failures |-> 0, successes |-> 0], <<>>)
<1> DEFINE s == [healthy |-> TRUE, failures |-> 0, successes |-> 0]
<1>1. Len(<<>>) = 0 /\ <<>> \in Seq(BOOLEAN)
  OBVIOUS
<1>2. \A n \in Nat \ {0} : \A v \in BOOLEAN : ~LastAre(<<>>, n, v)
  BY <1>1 DEF LastAre
<1>3. \A v \in BOOLEAN : LastAre(<<>>, 0, v)
  BY <1>1 DEF LastAre
<1>4. s.healthy = TRUE /\ s.failures = 0 /\ s.successes = 0
  OBVIOUS
<1> HIDE DEF s
<1>5. CountsAreRuns(s, <<>>)
  <2>1. Len(<<>>) <= Memory /\ 0 \in 0 .. unhealthy_threshold /\ 0 \in 0 .. healthy_threshold
    BY <1>1, ThresholdAssumption DEF Memory
  <2>2. 0 + 1 \in Nat \ {0}
    OBVIOUS
  <2> QED
    BY <1>2, <1>3, <1>4, <2>1, <2>2, Zenon DEF CountsAreRuns
<1>6. Settled(s, <<>>)
  BY <1>2, ThresholdAssumption, <1>4 DEF Settled
<1>7. SettledBefore(s, <<>>)
  BY <1>6, Zenon DEF SettledBefore, WithoutLast
<1> QED
  BY <1>5, <1>6, <1>7 DEF EvidenceOK, s

\* The last results are not both all failures and all successes.
LEMMA RunsExclude ==
    ASSUME NEW r \in Seq(BOOLEAN)
    PROVE  ~(LastAre(r, unhealthy_threshold, FALSE) /\ LastAre(r, healthy_threshold, TRUE))
<1> SUFFICES ASSUME LastAre(r, unhealthy_threshold, FALSE), LastAre(r, healthy_threshold, TRUE)
             PROVE  FALSE
  OBVIOUS
<1>1. Len(r) \in Len(r) - unhealthy_threshold + 1 .. Len(r)
  BY ThresholdAssumption
<1>2. Len(r) \in Len(r) - healthy_threshold + 1 .. Len(r)
  BY ThresholdAssumption
<1> QED
  BY <1>1, <1>2 DEF LastAre

\* A counter has reached its threshold exactly when that many last results agree.
LEMMA CountsDecide ==
    ASSUME NEW s \in Health, NEW r \in Seq(BOOLEAN), CountsAreRuns(s, r)
    PROVE  /\ LastAre(r, unhealthy_threshold, FALSE) <=> s.failures = unhealthy_threshold
           /\ LastAre(r, healthy_threshold, TRUE) <=> s.successes = healthy_threshold
<1>1. unhealthy_threshold \in Nat /\ healthy_threshold \in Nat
  BY ThresholdAssumption
<1>2. ASSUME LastAre(r, unhealthy_threshold, FALSE), s.failures # unhealthy_threshold
      PROVE  FALSE
  <2>1. s.failures + 1 \in 0 .. unhealthy_threshold /\ s.failures < unhealthy_threshold
    BY <1>1, <1>2 DEF CountsAreRuns
  <2>2. LastAre(r, s.failures + 1, FALSE)
    BY <1>1, <1>2, <2>1, ShorterRun
  <2> QED
    BY <2>1, <2>2 DEF CountsAreRuns
<1>3. ASSUME LastAre(r, healthy_threshold, TRUE), s.successes # healthy_threshold
      PROVE  FALSE
  <2>1. s.successes + 1 \in 0 .. healthy_threshold /\ s.successes < healthy_threshold
    BY <1>1, <1>3 DEF CountsAreRuns
  <2>2. LastAre(r, s.successes + 1, TRUE)
    BY <1>1, <1>3, <2>1, ShorterRun
  <2> QED
    BY <2>1, <2>2 DEF CountsAreRuns
<1> QED
  BY <1>2, <1>3, Zenon DEF CountsAreRuns

\* record keeps the counters at the lengths of the runs.
LEMMA RecordCounts ==
    ASSUME NEW s \in Health, NEW r \in Seq(BOOLEAN), CountsAreRuns(s, r), NEW success \in BOOLEAN
    PROVE  CountsAreRuns(Record(s, success), Remember(r, success))
<1> DEFINE q == Remember(r, success)
           t == Record(s, success)
<1>1. q \in Seq(BOOLEAN) /\ Len(q) \in 1 .. Memory /\ q[Len(q)] = success
  BY RememberIs DEF CountsAreRuns
<1>2. /\ unhealthy_threshold \in Nat \ {0} /\ healthy_threshold \in Nat \ {0} /\ Memory \in Nat
      /\ unhealthy_threshold < Memory /\ healthy_threshold < Memory
  BY ThresholdAssumption DEF Memory
<1>3. /\ s.failures \in 0 .. unhealthy_threshold /\ s.successes \in 0 .. healthy_threshold
      /\ Len(r) <= Memory
  BY DEF CountsAreRuns
<1>4. \A v \in BOOLEAN : \A n \in 0 .. Memory - 1 :
         LastAre(q, n + 1, v) <=> success = v /\ LastAre(r, n, v)
  BY <1>3, RunAfterRemember
<1>5. \A v \in BOOLEAN : LastAre(q, 0, v)
  BY <1>1 DEF LastAre
<1>6. \A v \in BOOLEAN : \A n \in Nat : \A m \in 0 .. n : LastAre(q, n, v) => LastAre(q, m, v)
  BY <1>1, ShorterRun
<1>7. CASE success = TRUE
  <2>1. t.failures = 0 /\ t.successes = Lesser(s.successes + 1, healthy_threshold)
    BY <1>7 DEF Record
  <2> HIDE DEF q, t
  <2>2. ~LastAre(q, 1, FALSE)
    <3>1. 0 \in 0 .. Memory - 1 /\ 0 + 1 = 1
      BY <1>2
    <3>2. LastAre(q, 0 + 1, FALSE) <=> success = FALSE /\ LastAre(r, 0, FALSE)
      BY <1>4, <3>1
    <3> QED
      BY <1>7, <3>1, <3>2
  <2>3. LastAre(q, s.successes + 1, TRUE)
    <3>1. s.successes \in 0 .. Memory - 1
      BY <1>2, <1>3
    <3>2. LastAre(q, s.successes + 1, TRUE) <=> success = TRUE /\ LastAre(r, s.successes, TRUE)
      BY <1>4, <3>1, Zenon
    <3> QED
      BY <1>7, <3>2, Zenon DEF CountsAreRuns
  <2>4. t.successes \in 0 .. healthy_threshold /\ t.successes \in 0 .. s.successes + 1
    BY <1>2, <1>3, <2>1 DEF Lesser
  <2>5. LastAre(q, t.successes, TRUE)
    <3>1. s.successes + 1 \in Nat
      BY <1>3
    <3> QED
      BY <1>6, <2>3, <2>4, <3>1, Zenon
  <2>6. ASSUME t.successes < healthy_threshold
        PROVE  ~LastAre(q, t.successes + 1, TRUE)
    <3>1. t.successes = s.successes + 1 /\ s.successes < healthy_threshold
      BY <1>2, <1>3, <2>1, <2>6 DEF Lesser
    <3>2. ~LastAre(r, t.successes, TRUE)
      BY <3>1 DEF CountsAreRuns
    <3>3. t.successes \in 0 .. Memory - 1
      BY <1>2, <2>4
    <3> QED
      BY <1>4, <3>2, <3>3
  <2>7. Len(q) <= Memory
    BY <1>1
  <2>8. t.failures \in 0 .. unhealthy_threshold /\ t.failures + 1 = 1
    BY <1>2, <2>1
  <2>9. LastAre(q, t.failures, FALSE) /\ ~LastAre(q, t.failures + 1, FALSE)
    BY <1>5, <2>1, <2>2, <2>8
  <2>10. CountsAreRuns(t, q)
    BY <2>4, <2>5, <2>6, <2>7, <2>8, <2>9 DEF CountsAreRuns
  <2> QED
    BY <2>10 DEF q, t
<1>8. CASE success = FALSE
  <2>1. t.successes = 0 /\ t.failures = Lesser(s.failures + 1, unhealthy_threshold)
    BY <1>8 DEF Record
  <2> HIDE DEF q, t
  <2>2. ~LastAre(q, 1, TRUE)
    <3>1. 0 \in 0 .. Memory - 1 /\ 0 + 1 = 1
      BY <1>2
    <3>2. LastAre(q, 0 + 1, TRUE) <=> success = TRUE /\ LastAre(r, 0, TRUE)
      BY <1>4, <3>1
    <3> QED
      BY <1>8, <3>1, <3>2
  <2>3. LastAre(q, s.failures + 1, FALSE)
    <3>1. s.failures \in 0 .. Memory - 1
      BY <1>2, <1>3
    <3>2. LastAre(q, s.failures + 1, FALSE) <=> success = FALSE /\ LastAre(r, s.failures, FALSE)
      BY <1>4, <3>1, Zenon
    <3> QED
      BY <1>8, <3>2, Zenon DEF CountsAreRuns
  <2>4. t.failures \in 0 .. unhealthy_threshold /\ t.failures \in 0 .. s.failures + 1
    BY <1>2, <1>3, <2>1 DEF Lesser
  <2>5. LastAre(q, t.failures, FALSE)
    <3>1. s.failures + 1 \in Nat
      BY <1>3
    <3> QED
      BY <1>6, <2>3, <2>4, <3>1, Zenon
  <2>6. ASSUME t.failures < unhealthy_threshold
        PROVE  ~LastAre(q, t.failures + 1, FALSE)
    <3>1. t.failures = s.failures + 1 /\ s.failures < unhealthy_threshold
      BY <1>2, <1>3, <2>1, <2>6 DEF Lesser
    <3>2. ~LastAre(r, t.failures, FALSE)
      BY <3>1 DEF CountsAreRuns
    <3>3. t.failures \in 0 .. Memory - 1
      BY <1>2, <2>4
    <3> QED
      BY <1>4, <3>2, <3>3
  <2>7. Len(q) <= Memory
    BY <1>1
  <2>8. t.successes \in 0 .. healthy_threshold /\ t.successes + 1 = 1
    BY <1>2, <2>1
  <2>9. LastAre(q, t.successes, TRUE) /\ ~LastAre(q, t.successes + 1, TRUE)
    BY <1>5, <2>1, <2>2, <2>8
  <2>10. CountsAreRuns(t, q)
    BY <2>4, <2>5, <2>6, <2>7, <2>8, <2>9 DEF CountsAreRuns
  <2> QED
    BY <2>10 DEF q, t
<1> QED
  BY <1>7, <1>8

\* What one more result does to the availability: exactly what the results say.
LEMMA RecordVerdict ==
    ASSUME NEW s \in Health, NEW r \in Seq(BOOLEAN), CountsAreRuns(s, r), NEW success \in BOOLEAN
    PROVE  Record(s, success).healthy = Verdict(s.healthy, Remember(r, success))
<1> DEFINE q == Remember(r, success)
           t == Record(s, success)
<1>1. q \in Seq(BOOLEAN) /\ t \in Health
  BY RememberType, RecordType
<1>2. CountsAreRuns(t, q)
  BY RecordCounts
<1>3. /\ LastAre(q, unhealthy_threshold, FALSE) <=> t.failures = unhealthy_threshold
      /\ LastAre(q, healthy_threshold, TRUE) <=> t.successes = healthy_threshold
  BY <1>1, <1>2, CountsDecide
<1>4. s.healthy \in BOOLEAN
  BY DEF Health
<1>5. CASE success
  <2>1. /\ t.failures = 0
        /\ t.healthy = (s.healthy \/ t.successes = healthy_threshold)
    BY <1>5 DEF Record
  <2> HIDE DEF q, t
  <2>2. t.failures # unhealthy_threshold
    BY <2>1, ThresholdAssumption
  <2>3. Verdict(s.healthy, q) = (LastAre(q, healthy_threshold, TRUE) \/ s.healthy)
    BY <1>3, <2>2, Zenon DEF Verdict
  <2>4. (LastAre(q, healthy_threshold, TRUE) \/ s.healthy)
           = (s.healthy \/ t.successes = healthy_threshold)
    BY <1>3, <1>4
  <2>5. t.healthy = Verdict(s.healthy, q)
    BY <2>1, <2>3, <2>4, Zenon
  <2> QED
    BY <2>5, Zenon DEF q, t
<1>6. CASE ~success
  <2>1. /\ t.successes = 0
        /\ t.healthy = (s.healthy /\ t.failures # unhealthy_threshold)
    BY <1>6 DEF Record
  <2> HIDE DEF q, t
  <2>2. ~LastAre(q, healthy_threshold, TRUE)
    BY <1>3, <2>1, ThresholdAssumption
  <2>3. CASE t.failures = unhealthy_threshold
    <3>1. t.healthy = FALSE
      BY <2>1, <2>3
    <3>2. Verdict(s.healthy, q) = FALSE
      BY <1>3, <2>3, Zenon DEF Verdict
    <3> QED
      BY <3>1, <3>2, Zenon DEF q, t
  <2>4. CASE t.failures # unhealthy_threshold
    <3>1. t.healthy = s.healthy
      BY <1>4, <2>1, <2>4
    <3>2. Verdict(s.healthy, q) = (LastAre(q, healthy_threshold, TRUE) \/ s.healthy)
      BY <1>3, <2>4, Zenon DEF Verdict
    <3>3. (LastAre(q, healthy_threshold, TRUE) \/ s.healthy) = s.healthy
      BY <1>4, <2>2
    <3> QED
      BY <3>1, <3>2, <3>3, Zenon DEF q, t
  <2> QED
    BY <2>3, <2>4
<1> QED
  BY <1>5, <1>6

\* Without the last result, the verdict is that of before.
LEMMA VerdictWithoutLast ==
    ASSUME NEW r \in Seq(BOOLEAN), Len(r) <= Memory, NEW success \in BOOLEAN, NEW healthy \in BOOLEAN
    PROVE  Verdict(healthy, WithoutLast(Remember(r, success))) = Verdict(healthy, r)
<1> DEFINE p == WithoutLast(Remember(r, success))
<1>1. unhealthy_threshold \in 0 .. Memory - 1 /\ healthy_threshold \in 0 .. Memory - 1
  BY ThresholdAssumption DEF Memory
<1>2. LastAre(p, unhealthy_threshold, FALSE) <=> LastAre(r, unhealthy_threshold, FALSE)
  BY <1>1, RunWithoutLast
<1>3. LastAre(p, healthy_threshold, TRUE) <=> LastAre(r, healthy_threshold, TRUE)
  BY <1>1, RunWithoutLast
<1> HIDE DEF p
<1>4. Verdict(healthy, p) = Verdict(healthy, r)
  BY <1>2, <1>3 DEF Verdict
<1> QED
  BY <1>4 DEF p

\* Settled results do not change a verdict that follows them.
LEMMA SettledVerdict ==
    ASSUME NEW s \in Health, NEW r, Settled(s, r)
    PROVE  Verdict(s.healthy, r) = s.healthy
<1>1. s.healthy \in BOOLEAN
  BY DEF Health
<1> QED
  BY <1>1 DEF Settled, Verdict

\* A result leaves evidence as it found it.
LEMMA RecordEvidence ==
    ASSUME NEW s \in Health, NEW r \in Seq(BOOLEAN), EvidenceOK(s, r), NEW success \in BOOLEAN
    PROVE  EvidenceOK(Record(s, success), Remember(r, success))
<1> DEFINE q == Remember(r, success)
           t == Record(s, success)
           F(x) == LastAre(x, unhealthy_threshold, FALSE)
           T(x) == LastAre(x, healthy_threshold, TRUE)
<1>1. CountsAreRuns(s, r) /\ Settled(s, r) /\ Len(r) <= Memory
  BY DEF EvidenceOK, CountsAreRuns
<1>2. q \in Seq(BOOLEAN) /\ s.healthy \in BOOLEAN
  BY RememberType DEF Health
<1>3. CountsAreRuns(t, q)
  BY <1>1, RecordCounts
<1>4. t.healthy = Verdict(s.healthy, q)
  BY <1>1, RecordVerdict
<1>5. ~(F(q) /\ T(q))
  BY <1>2, RunsExclude
<1>6. unhealthy_threshold \in 0 .. Memory - 1 /\ healthy_threshold \in 0 .. Memory - 1
  BY ThresholdAssumption DEF Memory
<1>7. /\ F(WithoutLast(q)) <=> F(r)
      /\ T(WithoutLast(q)) <=> T(r)
  BY <1>1, <1>6, RunWithoutLast
<1> HIDE DEF q, t
<1>8. Verdict(s.healthy, q) = IF F(q) THEN FALSE ELSE T(q) \/ s.healthy
  BY DEF Verdict
<1>9. (F(r) => ~s.healthy) /\ (T(r) => s.healthy)
  BY <1>1 DEF Settled
<1> HIDE DEF F, T
<1>10. CASE F(q)
  <2>1. ~t.healthy
    BY <1>4, <1>8, <1>10
  <2>2. Settled(t, q) /\ SettledBefore(t, q)
    BY <1>5, <1>10, <2>1 DEF Settled, SettledBefore, F, T
  <2> QED
    BY <1>3, <2>2 DEF EvidenceOK, q, t
<1>11. CASE T(q)
  <2>1. t.healthy
    BY <1>4, <1>5, <1>8, <1>11
  <2>2. Settled(t, q) /\ SettledBefore(t, q)
    BY <1>5, <1>11, <2>1 DEF Settled, SettledBefore, F, T
  <2> QED
    BY <1>3, <2>2 DEF EvidenceOK, q, t
<1>12. CASE ~F(q) /\ ~T(q)
  <2>1. t.healthy = s.healthy
    BY <1>2, <1>4, <1>8, <1>12
  <2>2. Settled(t, q)
    BY <1>12 DEF Settled, F, T
  <2>3. (F(WithoutLast(q)) => ~t.healthy) /\ (T(WithoutLast(q)) => t.healthy)
    BY <1>7, <1>9, <2>1
  <2>4. SettledBefore(t, q)
    BY <2>3, Zenon DEF Settled, SettledBefore, F, T
  <2> QED
    BY <1>3, <2>2, <2>4 DEF EvidenceOK, q, t
<1> QED
  BY <1>10, <1>11, <1>12

\* What one step may do to the results of a slot: none, one, or two of which the
\* second is a failure.
SlotStep(i) ==
    \/ slot'[i] = slot[i] /\ recent'[i] = recent[i]
    \/ \E x \in BOOLEAN :
          slot'[i] = Record(slot[i], x) /\ recent'[i] = Remember(recent[i], x)
    \/ \E x \in BOOLEAN :
          /\ slot'[i] = Record(Record(slot[i], x), FALSE)
          /\ recent'[i] = Remember(Remember(recent[i], x), FALSE)

\* In each case the availability follows the evidence, and evidence is kept.
LEMMA SlotStepFollows ==
    ASSUME HealthTypeOK, NEW i \in Slots, EvidenceOK(slot[i], recent[i]), SlotStep(i)
    PROVE  /\ EvidenceOK(slot'[i], recent'[i])
           /\ slot'[i].healthy =
                 Verdict(Verdict(slot[i].healthy, WithoutLast(recent'[i])), recent'[i])
<1> DEFINE s == slot[i]
           r == recent[i]
           s1 == slot'[i]
           r1 == recent'[i]
           Goal == EvidenceOK(s1, r1) /\ s1.healthy = Verdict(Verdict(s.healthy, WithoutLast(r1)), r1)
<1> SUFFICES Goal
  OBVIOUS
<1>1. s \in Health /\ r \in Seq(BOOLEAN)
  BY SlotTypes
<1>2. EvidenceOK(s, r)
  OBVIOUS
<1>3. \/ s1 = s /\ r1 = r
      \/ \E x \in BOOLEAN : s1 = Record(s, x) /\ r1 = Remember(r, x)
      \/ \E x \in BOOLEAN : s1 = Record(Record(s, x), FALSE) /\ r1 = Remember(Remember(r, x), FALSE)
  BY DEF SlotStep
<1> HIDE DEF s, r, s1, r1
<1>4. s.healthy \in BOOLEAN /\ CountsAreRuns(s, r) /\ Settled(s, r) /\ Len(r) <= Memory
  BY <1>1, <1>2 DEF Health, EvidenceOK, CountsAreRuns
<1>5. ASSUME s1 = s, r1 = r
      PROVE  Goal
  <2>1. CASE LastAre(r, unhealthy_threshold, FALSE)
    <3>1. s.healthy = FALSE
      BY <1>4, <2>1 DEF Settled
    <3>2. \A h : Verdict(h, r) = FALSE
      BY <2>1, Zenon DEF Verdict
    <3> QED
      BY <1>2, <1>5, <3>1, <3>2, Zenon
  <2>2. CASE LastAre(r, healthy_threshold, TRUE)
    <3>1. s.healthy = TRUE
      BY <1>4, <2>2 DEF Settled
    <3>2. ~LastAre(r, unhealthy_threshold, FALSE)
      BY <1>1, <2>2, RunsExclude
    <3>3. \A h : Verdict(h, r) = TRUE
      BY <2>2, <3>2, Zenon DEF Verdict
    <3> QED
      BY <1>2, <1>5, <3>1, <3>3, Zenon
  <2>3. CASE Settled(s, WithoutLast(r))
    <3>1. Verdict(s.healthy, WithoutLast(r)) = s.healthy
      BY <1>1, <2>3, SettledVerdict
    <3>2. Verdict(s.healthy, r) = s.healthy
      BY <1>1, <1>4, SettledVerdict
    <3> QED
      BY <1>2, <1>5, <3>1, <3>2, Zenon
  <2> QED
    BY <1>2, <2>1, <2>2, <2>3 DEF EvidenceOK, SettledBefore
<1>6. ASSUME NEW x \in BOOLEAN, s1 = Record(s, x), r1 = Remember(r, x)
      PROVE  Goal
  <2>1. EvidenceOK(s1, r1)
    BY <1>1, <1>2, <1>6, RecordEvidence
  <2>2. s1.healthy = Verdict(s.healthy, r1)
    BY <1>1, <1>4, <1>6, RecordVerdict
  <2>3. Verdict(s.healthy, WithoutLast(r1)) = Verdict(s.healthy, r)
    BY <1>1, <1>4, <1>6, VerdictWithoutLast
  <2>4. Verdict(s.healthy, r) = s.healthy
    BY <1>1, <1>4, SettledVerdict
  <2> QED
    BY <2>1, <2>2, <2>3, <2>4, Zenon
<1>7. ASSUME NEW x \in BOOLEAN,
             s1 = Record(Record(s, x), FALSE), r1 = Remember(Remember(r, x), FALSE)
      PROVE  Goal
  <2> DEFINE t == Record(s, x)
             q == Remember(r, x)
  <2>1. t \in Health /\ q \in Seq(BOOLEAN)
    BY <1>1, RecordType, RememberType
  <2>2. EvidenceOK(t, q)
    BY <1>1, <1>2, RecordEvidence
  <2>3. t.healthy = Verdict(s.healthy, q)
    BY <1>1, <1>4, RecordVerdict
  <2>4. s1 = Record(t, FALSE) /\ r1 = Remember(q, FALSE)
    BY <1>7
  <2> HIDE DEF t, q
  <2>5. EvidenceOK(s1, r1)
    BY <2>1, <2>2, <2>4, RecordEvidence
  <2>6. CountsAreRuns(t, q) /\ Len(q) <= Memory
    BY <2>2 DEF EvidenceOK, CountsAreRuns
  <2>7. s1.healthy = Verdict(t.healthy, r1)
    BY <2>1, <2>4, <2>6, RecordVerdict
  <2>8. Verdict(s.healthy, WithoutLast(r1)) = Verdict(s.healthy, q)
    BY <1>4, <2>1, <2>4, <2>6, VerdictWithoutLast
  <2> QED
    BY <2>3, <2>5, <2>7, <2>8, Zenon
<1> HIDE DEF Goal
<1> QED
  BY <1>3, <1>5, <1>6, <1>7, Zenon

\* A slot's results after pump(), which found it with health `s' and results `r'.
Pumped(i, s, r) ==
    \/ slot'[i] = s /\ recent'[i] = r
    \/ slot'[i] = Record(s, FALSE) /\ recent'[i] = Remember(r, FALSE)

\* What pump() adds to the results it is given.
LEMMA PumpResults ==
    ASSUME NEW flying \in SUBSET Slots, NEW count \in Int,
           NEW running \in [Slots -> Stages \cup {"none"}],
           NEW health \in [Slots -> Health], NEW results \in [Slots -> Seq(BOOLEAN)],
           Pump(flying, count, running, health, results)
    PROVE  \A i \in Slots : Pumped(i, health[i], results[i])
<1>1. PICK throwing \in SUBSET Slots :
        /\ slot' = [j \in Slots |-> IF j \in throwing THEN Record(health[j], FALSE) ELSE health[j]]
        /\ recent' = [j \in Slots |->
                        IF j \in throwing THEN Remember(results[j], FALSE) ELSE results[j]]
  BY Zenon DEF Pump
<1> QED
  BY <1>1 DEF Pumped

\* ... and when it throws, too.
LEMMA PumpThrowsResults ==
    ASSUME NEW flying, NEW count,
           NEW health \in [Slots -> Health], NEW results \in [Slots -> Seq(BOOLEAN)],
           PumpThrows(flying, count, health, results)
    PROVE  \A i \in Slots : Pumped(i, health[i], results[i])
<1>1. PICK throwing \in SUBSET Slots :
        /\ slot' = [j \in Slots |-> IF j \in throwing THEN Record(health[j], FALSE) ELSE health[j]]
        /\ recent' = [j \in Slots |->
                        IF j \in throwing THEN Remember(results[j], FALSE) ELSE results[j]]
  BY Zenon DEF PumpThrows
<1> QED
  BY <1>1 DEF Pumped

\* Every step is such a step of every slot.
LEMMA HealthStepResults ==
    ASSUME HealthInv, [HealthNext]_healthVars, NEW i \in Slots
    PROVE  SlotStep(i)
<1>1. HealthTypeOK /\ ProbeAccounting
  BY DEF HealthInv
<1>2. slot \in [Slots -> Health] /\ recent \in [Slots -> Seq(BOOLEAN)]
  BY <1>1, SlotTypes
<1>3. ASSUME UNCHANGED <<slot, recent>>
      PROVE  SlotStep(i)
  BY <1>3 DEF SlotStep
<1>4. CASE OnPump
  <2>1. Pump(in_flight, active, probe, slot, recent)
    BY <1>4 DEF OnPump
  <2>2. Pumped(i, slot[i], recent[i])
    <3>1. in_flight \in SUBSET Slots /\ active \in Int /\ probe \in [Slots -> Stages \cup {"none"}]
      BY <1>1 DEF HealthTypeOK
    <3> QED
      BY <1>2, <2>1, <3>1, PumpResults
  <2> QED
    BY <2>2, Zenon DEF Pumped, SlotStep
<1>5. ASSUME NEW j \in Slots, NEW success \in BOOLEAN,
             Completed(j, success) \/ CompletedThrows(j, success)
      PROVE  SlotStep(i)
  <2> DEFINE health == [slot EXCEPT ![j] = Record(@, success)]
             results == [recent EXCEPT ![j] = Remember(@, success)]
             count == IF j \in in_flight THEN active - 1 ELSE active
             running == [probe EXCEPT ![j] = "none"]
  <2>1. \/ Pump(in_flight \ {j}, count, running, health, results)
        \/ PumpThrows(in_flight \ {j}, count, health, results)
    BY <1>5 DEF Completed, CompletedThrows
  <2>2. IF i = j THEN health[i] = Record(slot[i], success) /\ results[i] = Remember(recent[i], success)
                 ELSE health[i] = slot[i] /\ results[i] = recent[i]
    BY <1>2
  <2>4. /\ in_flight \ {j} \in SUBSET Slots /\ count \in Int
        /\ running \in [Slots -> Stages \cup {"none"}]
    BY <1>1, SMTT(30) DEF HealthTypeOK
  <2>5. health \in [Slots -> Health] /\ results \in [Slots -> Seq(BOOLEAN)]
    BY <1>1, <1>5, ResultType
  <2> HIDE DEF health, results, count, running
  <2>3. Pumped(i, health[i], results[i])
    BY <2>1, <2>4, <2>5, PumpResults, PumpThrowsResults
  <2> QED
    BY <1>5, <2>2, <2>3, Zenon DEF Pumped, SlotStep
<1>6. ASSUME NEW j \in Slots, ProbeSteps(j)
      PROVE  SlotStep(i)
  <2>1. CASE ProbeAdvances(j)
    BY <1>3, <2>1 DEF ProbeAdvances
  <2>2. CASE ProbeAnswered(j)
    BY <1>5, <2>2 DEF ProbeAnswered
  <2>3. CASE ProbeFails(j)
    BY <1>5, <2>3 DEF ProbeFails
  <2>4. CASE ProbeEndsInFailure(j)
    <3>1. PICK success \in BOOLEAN : CompletedThrows(j, success)
      BY <2>4 DEF ProbeEndsInFailure
    <3> QED
      BY <1>5, <3>1
  <2>5. CASE LateProbe(j)
    BY <1>3, <2>5 DEF LateProbe
  <2> QED
    BY <1>6, <2>1, <2>2, <2>3, <2>4, <2>5 DEF ProbeSteps
<1>7. CASE OnPumpThrows
  <2>1. PumpThrows(in_flight, active, slot, recent)
    BY <1>7 DEF OnPumpThrows
  <2>2. Pumped(i, slot[i], recent[i])
    BY <1>2, <2>1, PumpThrowsResults
  <2> QED
    BY <2>2, Zenon DEF Pumped, SlotStep
<1>8. CASE StartChecks \/ Stop \/ OnTimerFails \/ OnStopped \/ Tick \/ TimerExpires
           \/ TimerErrs \/ UNCHANGED healthVars
  <2>1. UNCHANGED <<slot, recent>>
    BY <1>8 DEF StartChecks, Stop, OnTimerFails, OnStopped, Tick,
                TimerExpires, TimerErrs, healthVars
  <2> QED
    BY <1>3, <2>1
<1> QED
  BY <1>4, <1>6, <1>7, <1>8 DEF HealthNext

\* UpstreamHealthState's counters are the runs of results in every state, whatever
\* the thresholds.
THEOREM EvidenceInvariance == HealthSafety => []Evidence
<1>1. HealthInit => Evidence
  BY NoEvidence DEF HealthInit, Evidence
<1>2. HealthInv /\ Evidence /\ [HealthNext]_healthVars => Evidence'
  <2> SUFFICES ASSUME HealthInv, Evidence, [HealthNext]_healthVars, NEW i \in Slots
               PROVE  EvidenceOK(slot'[i], recent'[i])
    BY DEF Evidence
  <2> QED
    BY HealthStepResults, SlotStepFollows, Zenon DEF Evidence, HealthInv
<1> QED
  BY <1>1, <1>2, HealthInvariance, PTL DEF HealthSafety

\* An upstream is taken out and put back exactly by the runs of results its
\* thresholds ask for, for all thresholds and any number of targets.
THEOREM AvailabilityTheorem == HealthSpec => AvailabilityFollowsEvidence
<1> DEFINE Follows ==
        \A i \in Slots :
            slot'[i].healthy =
                Verdict(Verdict(slot[i].healthy, WithoutLast(recent'[i])), recent'[i])
<1>1. HealthInv /\ Evidence /\ [HealthNext]_healthVars => Follows
  <2> SUFFICES ASSUME HealthInv, Evidence, [HealthNext]_healthVars, NEW i \in Slots
               PROVE  slot'[i].healthy =
                          Verdict(Verdict(slot[i].healthy, WithoutLast(recent'[i])), recent'[i])
    OBVIOUS
  <2> QED
    BY HealthStepResults, SlotStepFollows, Zenon DEF Evidence, HealthInv
<1>2. HealthInv /\ Evidence /\ [HealthNext]_healthVars => [Follows]_healthVars
  BY <1>1
<1> HIDE DEF Follows
<1>3. HealthSafety => [][Follows]_healthVars
  BY <1>2, HealthInvariance, EvidenceInvariance, PTL DEF HealthSafety
<1> QED
  BY <1>3 DEF HealthSpec, AvailabilityFollowsEvidence, Follows
=============================================================================
