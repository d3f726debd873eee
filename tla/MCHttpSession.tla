--------------------------- MODULE MCHttpSession ---------------------------
(* Model values for HttpSession; the bounds are in the configurations.     *)
EXTENDS HttpSession, TLC

\* The sessions are interchangeable, and so are the exchange objects.
Symmetric == Permutations(Session) \cup Permutations(Exchange)
=============================================================================
