------------------------ MODULE MCHttpProxyExchange ------------------------
(* Model checking of exchanges and of the leases they use.                 *)
EXTENDS HttpProxyExchange, TLC

CONSTANTS e1, e2, c1, c2, plain, secure

OneExchange  == {e1}
TwoExchanges == {e1, e2}
TwoConns     == {c1, c2}
OneBackend   == {plain}
TwoBackends  == {plain, secure}
Secure       == {secure}
Buffered     == {FALSE}
AnyMode      == BOOLEAN
Nothing      == {}

\* A response without a flaw, and one with each flaw alone: a test that misses
\* any of them shows.
OneFlaw     == {{}} \cup {{flaw} : flaw \in Flaws}
Flawless    == {{}}

\* For the safety of two exchanges: no definition tells them, or connections, apart.
Symmetric == Permutations(TwoExchanges) \cup Permutations(TwoConns)
=============================================================================
