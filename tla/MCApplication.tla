--------------------------- MODULE MCApplication ---------------------------
(* Model checking of the whole process: owner, signals and server.         *)
EXTENDS Application

CONSTANTS s1, s2

TwoSessions == {s1, s2}
=============================================================================
