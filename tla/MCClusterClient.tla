-------------------------- MODULE MCClusterClient --------------------------
(***************************************************************************)
(* ClusterClient for TLC.                                                  *)
(***************************************************************************)
EXTENDS ClusterClient

CONSTANTS n1, n2, w1, w2, k1, k2, k3, k4, shared, sv1, sv2, d1, d2, a1, a2

Names == Refs \cup (Clients \X Nodes)
Own == [x \in Clients \X Nodes |-> x]
NoSecrets == [r \in Refs |-> NoKey]

Spec1(sources, server, routes, addr, flaw) ==
  [source |-> sources, server |-> server, routes |-> routes, addr |-> addr, flaw |-> flaw]

\* Two nodes: with one Secret for both; with a Secret each; one of them unlisted.
\* The tunnel is only made with the first.
NodeSpecs ==
  {Spec1([n \in Nodes |-> shared], sv1, {}, a1, "none"),
   Spec1([n \in Nodes |-> Default], sv1, {}, a1, "server"),
   Spec1([n \in Nodes |-> IF n = n1 THEN k1 ELSE Unlisted], sv1, {}, a1, "server")}

\* One node: two good tunnels, which share a network, two that break off, and
\* one for other nodes.
TunnelSpecs ==
  {Spec1([n \in Nodes |-> Default], sv1, {d1}, a1, "none"),
   Spec1([n \in Nodes |-> k1], sv2, {d1, d2}, a2, "none"),
   Spec1([n \in Nodes |-> k1], sv2, {d2}, a1, "address"),
   Spec1([n \in Nodes |-> BadKey], sv1, {d1}, a1, "none"),
   Spec1([n \in Nodes |-> Unlisted], sv1, {d1}, a1, "none")}
=============================================================================
