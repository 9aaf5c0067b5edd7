------------------------------ MODULE WgDevice ------------------------------
(***************************************************************************)
(* The peers of the WireGuard device "wga", and the three computations     *)
(* wgaSync (operator/wga.go) makes: the peers that should be there, the    *)
(* difference to the peers that are, and the effect of applying it.        *)
(*                                                                         *)
(* A peer's allowed IPs are a set of addresses: the code turns each        *)
(* address into a /32 or /128, so masks carry no further information.      *)
(***************************************************************************)
EXTENDS Naturals

CONSTANTS
  Peers,     \* names of WireguardAccessPeer objects
  Keys,      \* WireGuard public keys that parse
  Psks,      \* preshared keys that parse, the zero key among them
  Addrs,     \* IP addresses that parse
  NoAddr,    \* the empty address string
  NoStatus,  \* the nil Status pointer
  Absent,    \* there is no such object
  NoPeer     \* the device has no peer with this key

\* status.address and status.addresses of a peer. The list is kept as a set:
\* the reconciler never writes more than one address.
Statuses == {NoStatus} \cup
            [address : Addrs \cup {NoAddr}, addresses : SUBSET Addrs]

Entries == [psk : Psks, ips : SUBSET Addrs]
Devices == [Keys -> Entries \cup {NoPeer}]

\* The allowed IPs of a peer: status.addresses or, when that is empty, the
\* deprecated status.address; a string that does not parse is skipped.
Ips(status) ==
  IF status = NoStatus THEN {}
  ELSE IF status.addresses # {} THEN status.addresses
  ELSE {status.address} \cap Addrs

\* The peers of a fetched configuration that end up under key k: those with
\* a status and with keys that parse.
Claimants(cfg, k) ==
  {p \in Peers : /\ cfg[p] # Absent
                 /\ cfg[p].status # NoStatus
                 /\ cfg[p].spec.psk \in Psks
                 /\ cfg[p].spec.pub = k}

EntryOf(peer) == [psk |-> peer.spec.psk, ips |-> Ips(peer.status)]

\* shouldPeers. Of several peers with one public key the last in the list
\* wins, and a list from the cache is in no particular order.
LastOf(cfg) ==
  {last \in [Keys -> Peers] :
     \A k \in Keys : Claimants(cfg, k) # {} => last[k] \in Claimants(cfg, k)}

\* Mutant: allowedIPs is declared outside the loop and keeps growing.
Should_Accumulating(cfg, last) ==
  [k \in Keys |-> IF Claimants(cfg, k) = {} THEN NoPeer
                  ELSE [EntryOf(cfg[last[k]]) EXCEPT
                          !.ips = UNION {Ips(cfg[p].status) : p \in {q \in Peers : cfg[q] # Absent}}]]

Should(cfg, last) ==
  [k \in Keys |-> IF Claimants(cfg, k) = {} THEN NoPeer ELSE EntryOf(cfg[last[k]])]

-----------------------------------------------------------------------------
\* nuconfig.Peers, one operation per key; "keep" stands for no entry.
Plans == [Keys -> [op : {"keep"}, entry : Entries \cup {NoPeer}]
                  \cup [op : {"remove"}, entry : {NoPeer}]
                  \cup [op : {"update", "add"}, entry : Entries]]

\* Mutant: peers that are gone from the configuration are left alone.
OpFor_NoRemove(have, should) ==
  IF have = NoPeer THEN IF should = NoPeer THEN "keep" ELSE "add"
  ELSE IF should = NoPeer \/ should = have THEN "keep" ELSE "update"

OpFor(have, should) ==
  IF have # NoPeer
  THEN IF should = NoPeer THEN "remove" ELSE IF should = have THEN "keep" ELSE "update"
  ELSE IF should = NoPeer THEN "keep" ELSE "add"

Diff(have, should) ==
  [k \in Keys |-> [op |-> OpFor(have[k], should[k]), entry |-> should[k]]]

-----------------------------------------------------------------------------
\* wg.ConfigureDevice, in the kernel: UpdateOnly skips a peer that is gone,
\* an address moves from whoever held it to the peer it is configured for.
\* The operations come in the order of a Go map, so when two of them name one
\* address either may be the last: owner says which one was.
Touched(dev, plan) ==
  {k \in Keys : plan[k].op = "add" \/ (plan[k].op = "update" /\ dev[k] # NoPeer)}

Wanting(dev, plan, a) == {k \in Touched(dev, plan) : a \in plan[k].entry.ips}

Owners(dev, plan) ==
  {owner \in [Addrs -> Keys] :
     \A a \in Addrs : Wanting(dev, plan, a) # {} => owner[a] \in Wanting(dev, plan, a)}

Configured(dev, plan, owner) ==
  [k \in Keys |->
     IF plan[k].op = "remove" \/ (k \notin Touched(dev, plan) /\ dev[k] = NoPeer)
     THEN NoPeer
     ELSE IF k \in Touched(dev, plan)
     THEN [psk |-> plan[k].entry.psk, ips |-> {a \in plan[k].entry.ips : owner[a] = k}]
     ELSE [psk |-> dev[k].psk, ips |-> {a \in dev[k].ips : Wanting(dev, plan, a) = {}}]]

-----------------------------------------------------------------------------
\* The device shows a configuration: a peer for exactly the keys that are
\* claimed, with the entry of one of the claimants. Only an address that two
\* peers share may be missing, because the other one holds it.
Shows(dev, cfg) ==
  \A k \in Keys :
    IF Claimants(cfg, k) = {} THEN dev[k] = NoPeer
    ELSE /\ dev[k] # NoPeer
         /\ \E p \in Claimants(cfg, k) :
              LET entry == EntryOf(cfg[p])
              IN /\ dev[k].psk = entry.psk
                 /\ dev[k].ips \subseteq entry.ips
                 /\ \A a \in entry.ips \ dev[k].ips :
                      \E j \in Keys \ {k} : dev[j] # NoPeer /\ a \in dev[j].ips
=============================================================================
