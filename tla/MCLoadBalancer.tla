--------------------------- MODULE MCLoadBalancer ---------------------------
(***************************************************************************)
(* LoadBalancer for TLC.                                                   *)
(***************************************************************************)
EXTENDS LoadBalancer, AddressIndex

CONSTANTS s1, s2, i1, i2

\* No annotation, one address of the pool, one of the pool and one outside of
\* it, one that does not parse.
SomeRequests == {{}, {i1}, {i1, i2}, BadRequest}
NoRequests == {{}}

\* What can be drawn from a network of two bits. The odd hosts never are.
Host(i) == CASE i = 0 -> i1 [] i = 2 -> i2
Drawn == {Host(Index(t, r)) : t \in 0..1, r \in {0, 1, RandSpan - 2}}
=============================================================================
