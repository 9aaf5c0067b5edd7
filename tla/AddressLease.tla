---------------------------- MODULE AddressLease ----------------------------
(***************************************************************************)
(* What the peer controller promises to whoever creates a                  *)
(* WireguardAccessPeer, and nothing of how: a peer starts without          *)
(* addresses, is given them once, in one piece, and has them until it is   *)
(* deleted; only users change its spec. Caches, queues, refused and        *)
(* repeated updates, and restarts are Endpoint's, which implements this    *)
(* (Endpoint!ImplementsLease). PeerCli is a client of it.                  *)
(***************************************************************************)
CONSTANTS
  Peers,     \* names of peers
  Specs,     \* what users ask for
  Addrs,     \* addresses of the client networks
  Moved,     \* peers of an older release, which the migration addresses twice
  NoLease

VARIABLE lease    \* the peers that exist, with their addresses

Leases == [spec : Specs, addrs : SUBSET Addrs]

Held(p) == lease[p] # NoLease
Answered(p) == Held(p) /\ lease[p].addrs # {}

-----------------------------------------------------------------------------
Init == lease \in {l \in [Peers -> Leases \cup {NoLease}] :
                     \A p \in Peers : l[p] # NoLease => p \in Moved /\ l[p].addrs = {}}

Request(p, spec) ==
  /\ ~Held(p)
  /\ lease' = [lease EXCEPT ![p] = [spec |-> spec, addrs |-> {}]]

Amend(p, spec) == Held(p) /\ lease' = [lease EXCEPT ![p].spec = spec]

End(p) == Held(p) /\ lease' = [lease EXCEPT ![p] = NoLease]

Assign(p, a) ==
  /\ Held(p)
  /\ Answered(p) => p \in Moved
  /\ lease' = [lease EXCEPT ![p].addrs = {a}]

Next ==
  \E p \in Peers :
    \/ \E spec \in Specs : Request(p, spec) \/ Amend(p, spec)
    \/ End(p)
    \/ \E a \in Addrs : Assign(p, a)

Spec == Init /\ [][Next]_lease
=============================================================================
