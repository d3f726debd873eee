--------------------------- MODULE MCUpstreamPool ---------------------------
(* Model checking of the pool under arbitrary exchanges.                   *)
EXTENDS UpstreamPool

CONSTANTS c1, c2, c3, b1, b2

ThreeConns  == {c1, c2, c3}
TwoBackends == {b1, b2}
=============================================================================
