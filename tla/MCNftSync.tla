----------------------------- MODULE MCNftSync -----------------------------
(***************************************************************************)
(* NftSync for TLC: configurations of one peer with one IPv6 address.      *)
(***************************************************************************)
EXTENDS NftSync

CONSTANTS w1, w2, p1, r1, r2, a6, n4, n6, m6

\* Every address and destination has a comment of its own.
Own == [x \in Addrs \X Nets |-> x]
Pairs == Addrs \X Nets

Peer(access, dns) == [p \in Peers |-> [ips |-> {a6}, access |-> access, dns |-> dns]]
Rules(d1, d2) == [r \in AccessRules |-> IF r = r1 THEN d1 ELSE d2]

\* A peer without a status; a peer with a DNS server, its access rule still
\* empty; the same peer without the server, its rule with destinations of both
\* families. Between two Lists any of these peers meets any of the rules.
Changing ==
  {[peers |-> [p \in Peers |-> NoStatus], rules |-> Rules({n6, n4}, {})],
   [peers |-> Peer({r1}, m6), rules |-> Rules({}, {})],
   [peers |-> Peer({r1}, NoServer), rules |-> Rules({n6, n4}, {})]}

\* Two access rules with one destination; the peer has both, or none.
Doubled ==
  {[peers |-> Peer(access, NoServer), rules |-> Rules({n6}, {n6})] : access \in {{r1, r2}, {}}}
=============================================================================
