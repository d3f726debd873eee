----------------------------- MODULE MCStartup -----------------------------
(* Model checking of the configuration loader and of main().               *)
EXTENDS Startup

\* The values around each limit, in the loader and in the constructors.
MCNumbers(field) ==
    CASE field = "rate"      -> {-1, 0, 1, 1000000, 1000001}
      [] field = "interval"  -> {Absent, -1, 0, 50, 99, 100, 999, 60000, 60001}
      [] field = "timeout"   -> {Absent, -1, 0, 49, 50, 100, 60000, 60001}
      [] field = "threshold" -> {Absent, -1, 0, 1, 10, 11}
=============================================================================
