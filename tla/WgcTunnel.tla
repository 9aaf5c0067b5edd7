----------------------------- MODULE WgcTunnel -----------------------------
(***************************************************************************)
(* What wgcSync (operator/wgc.go) does to one interface of a node, and the *)
(* kernel's part in it. One worker syncs, one interface after the other,   *)
(* and nobody else touches them, so all that can be seen of the calls for  *)
(* an interface is how far they came: a phase of Phases.                   *)
(***************************************************************************)
EXTENDS Naturals, Sequences, SequenceOps

CONSTANTS
  Clients,        \* names of WireguardClusterClient objects
  Keys,           \* key pairs
  BadKey,         \* a key that does not parse
  NoKey,          \* no key
  Servers,        \* public keys of servers
  Nets, Addrs,    \* networks to route, addresses of interfaces
  NoLink, NoPeer

ASSUME NoneApart == NoLink \notin Clients /\ \A nets \in SUBSET Nets : NoPeer # nets

\* wgPeer. A flaw is the field that does not parse.
Tunnels == [name : Clients, key : Keys, server : Servers, routes : SUBSET Nets,
            addr : Addrs, flaw : {"none", "endpoint", "address"}]

\* A wireguard interface: its key, and of each peer the networks it may use.
Links == [key : Keys \cup {NoKey}, peers : [Servers -> (SUBSET Nets) \cup {NoPeer}],
          addrs : SUBSET Addrs]
ASSUME LinksApart == NoLink \notin Links

NewLink == [key |-> NoKey, peers |-> [s \in Servers |-> NoPeer], addrs |-> {}]

\* Mutant: the peer of the tunnel goes to the front of the global list.
Remember_First(conf, t) ==
  LET pc == [server |-> t.server, routes |-> t.routes]
  IN <<pc>> \o Without(conf, {pc})

\* WGConfig.Peers is global, and each sync of each interface appends to it. Of
\* equal entries only the last one makes a difference to a device (it replaces
\* the networks of the peer, and no other peer keeps any of them), so only the
\* last is kept here.
Remember(conf, t) ==
  LET pc == [server |-> t.server, routes |-> t.routes]
  IN Append(Without(conf, {pc}), pc)

\* The kernel takes a list of peers one by one. A network belongs to one peer
\* of an interface; a peer of an interface stays if it is not mentioned.
WithPeer(peers, pc) ==
  [s \in Servers |-> IF s = pc.server THEN pc.routes
                     ELSE IF peers[s] = NoPeer THEN NoPeer ELSE peers[s] \ pc.routes]
\* after[i] is what the first i of them make of the peers.
Configured(peers, conf) ==
  LET after[i \in 0..Len(conf)] == IF i = 0 THEN peers ELSE WithPeer(after[i - 1], conf[i])
  IN after
ConfigureDevice(link, key, conf) ==
  [link EXCEPT !.key = key, !.peers = Configured(@, conf)[Len(conf)]]

-----------------------------------------------------------------------------
Phases == <<"start", "add", "append", "configure", "address", "route", "end">>
Reached(phase, last) ==
  \E i, j \in DOMAIN Phases : i <= j /\ Phases[i] = phase /\ Phases[j] = last

\* How far a sync comes if no call fails.
LastPhase(t) ==
  CASE t.flaw = "endpoint" -> "add"
    [] t.flaw = "address" -> "configure"
    [] OTHER -> "end"

ConfAt(phase, t, conf) ==
  IF Reached("append", phase) THEN Remember(conf, t) ELSE conf

\* AddrReplace adds the address; then the others are deleted one by one.
AddrsAt(phase, t, addrs) ==
  CASE phase = "address" -> {{t.addr} \cup left : left \in SUBSET addrs}
    [] Reached("route", phase) -> {{t.addr}}
    [] OTHER -> {addrs}

\* The interface after a sync that came to the phase, if it had got that far
\* with the addresses and the list of peers given.
LinkAt(phase, t, link, addrs, conf) ==
  LET made == IF link = NoLink THEN NewLink ELSE link
      configured == ConfigureDevice(made, t.key, conf)
  IN CASE phase = "start" -> link
       [] phase \in {"add", "append"} -> made
       [] OTHER -> [configured EXCEPT !.addrs = addrs]

\* RouteReplace takes a network away from whatever interface had it. Then the
\* routes of this interface to other networks are deleted.
Routed(table, t, nets) == [d \in Nets |-> IF d \in nets THEN t.name ELSE table[d]]
Unrouted(table, w, nets) ==
  [d \in Nets |-> IF table[d] = w /\ d \in nets THEN NoLink ELSE table[d]]

TablesAt(phase, t, table) ==
  CASE phase = "route" ->
         {Routed(table, t, nets) : nets \in SUBSET t.routes} \cup
         {Unrouted(Routed(table, t, t.routes), t.name, nets) : nets \in SUBSET (Nets \ t.routes)}
    [] phase = "end" -> {Unrouted(Routed(table, t, t.routes), t.name, Nets \ t.routes)}
    [] OTHER -> {table}

\* The tunnel as its object asks for it, whatever other peers the interface has.
Carries(link, t) ==
  /\ link # NoLink
  /\ link.key = t.key
  /\ link.peers[t.server] = t.routes
  /\ link.addrs = {t.addr}
=============================================================================
