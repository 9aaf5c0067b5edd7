----------------------------- MODULE MCEndpoint -----------------------------
(***************************************************************************)
(* Endpoint for TLC: the keys, addresses and specs of small instances.     *)
(***************************************************************************)
EXTENDS Endpoint, TLC

CONSTANTS p1, p2, r1, k1, k2, s1, s2, a1, a2

\* Two peers may have one of these each, or share one, or be edited from one to
\* the other.
SharedKey == [pub |-> k1, psk |-> s1]
OwnKey == [pub |-> k2, psk |-> s1]
TwoSpecs == {SharedKey, OwnKey}
OwnSpec == {OwnKey}

BothFamilies == {{a1, a2}, {}}
TwoAddresses == {{a1, a2}}
OneAddress == {{a1}}
Ipv4Only == {{}}

\* TwoSpecs names both keys alike, and the addresses of a pool are alike.
Symmetry == Permutations({k1, k2}) \cup Permutations({a1, a2})

\* Bound: user writes and failures taken together.
Disturbances == edits + faults <= 2
=============================================================================
