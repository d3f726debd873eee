--------------------------- MODULE MCHealthChecks ---------------------------
(* Model checking of the probe scheduler.                                  *)
EXTENDS HealthChecks

Intervals == [i \in Slots |-> IF i = 0 THEN 1 ELSE 2]
TlsSlots  == {0}
=============================================================================
