# wga, specified

TLA+ specifications of wga (`operator/`, `peers.go`, `main.go`): what its controllers do to the
Kubernetes objects, the WireGuard device, the packet filter and the addresses of Services, checked
with TLC on small instances and, where it matters most, proved with TLAPS for all of them.

## The system

`wga ep` is one process with one controller-runtime manager and three controllers. Each controller has
one worker goroutine and a work queue; all share one cached client. `wga clusterclient` is a process
with one controller, running on every node. `wga peers` is a command that ends.

| Component | Code | State it keeps | Operations |
|---|---|---|---|
| Peer controller | `wga.go` `PeerReconciler` | `WireguardAccessPeer.status` | assign an address, migrate a deprecated one, `WGASync` |
| Rule controller | `wga.go` `RulesReconciler` | none | `WGASync` |
| Device sync | `wga.go` `wgaInit`, `wgaSync` | peers of the device `wga` in the kernel | empty it at start; fetch, diff, configure |
| Packet filter sync | `nft.go` `nftInit`, `nftSync` | chain `wga` in the kernel | add missing rules one by one, delete unknown ones in a batch |
| Service controller | `lbc.go` | `Service.status.loadBalancer` | assign requested or generated addresses, report a conflict once |
| Address generation | `wga.go` `generateIndex` | none | a host number from time and chance |
| Cluster client | `wgc.go` | Secrets, `WireguardClusterClient.status`, interfaces `wgc-*`, node labels, the global `WGConfig` | make keys, publish public keys, sync interfaces |
| Peer commands | `peers.go`, `format.go` | none | create a peer and wait for its status; print a configuration |

How they interact:

- **Objects.** Users, `wga peers` and the controllers write objects at the API server. A controller
  reads them from its informer's cache, which follows the server with a delay, and is queued by the
  events the cache receives. An `Update` carries the version it was read with. No resource of the group
  has a status subresource, so `PeerReconciler` writes the whole object, spec included.
- **Kernel.** The peer worker and the rule worker both run `WGASync`, with no lock between them, on
  one device and one chain. A restart deletes the device.
- **Errors.** What `Reconcile` returns as an error is queued again; `WGASync` logs its errors and
  returns nil.

What is hard about it: stale caches (every decision is made on one), lost and refused updates, two
unsynchronised workers on kernel state that is read, compared and written in separate steps, syncs
that are not retried and are triggered by some events only, batches and command sequences that fail in
the middle, restarts. PROJECT.json lists each such place as a hazard, with the properties that cover it.

What makes the components correct:

- Peer controller: a peer keeps its address; no user edit is undone; every peer gets an address.
- Device: holds only what some peer asked for, in one piece; settles on the stored peers.
- Packet filter: rules do not pile up; settles on what the access rules allow, and on no more.
- Service controller: an assigned address stays; it is the one asked for; no two Services share one;
  a Service that can be served is.
- Cluster client: a node's key is published before it is used, once, and stays; no daemon drops another's;
  an interface has the key, peer and address its object names when the node is labelled Ready; what is
  left of deleted objects and broken-off syncs goes.
- Peer commands: a printed peer exists with the printed keys; an answer is not missed; commands end.

## Modules

| Module | Models | Lines of the code |
|---|---|---|
| `Kube` | one kind of object: server, watch stream, cache, queue | client-go and controller-runtime (external) |
| `WgDevice` | the three computations of `wgaSync`, and the kernel applying a configuration | `wga.go` 374-524 |
| `Endpoint` | both controllers of the endpoint, address assignment, `WGASync` on the device, restarts | `wga.go` 52-372 |
| `LoadBalancer` | the Service controller | `lbc.go` |
| `NftSync` | `nftSync` run by several workers | `nft.go` |
| `AddressIndex` | the host number in a network | `wga.go` 527-561 |
| `AddressLease` | what the peer controller promises (abstract) | `wga.go` 161-239 |
| `PeerCli` | `wga peers add` and `wga peers wgc`, as clients of `AddressLease` | `peers.go` 36-208 |
| `WgcTunnel` | one turn of `wgcSync`, and the kernel's part in it | `wgc.go` 329-498 |
| `ClusterClient` | the daemons of several nodes | `wgc.go` 34-508 |
| `SequenceOps` | a sequence without some of its elements | |
| `MC*` | instances for TLC | |
| `KubeProofs`, `EndpointProofs`, `LoadBalancerProofs`, `NftSyncProofs`, `ClusterClientProofs`, `AddressIndexProofs`, `PeerCliProofs` | theorems about the module each is named after | |
| `SequenceFacts` | lemmas about sequences and finite sets, for these | |

`Endpoint` uses two instances of `Kube` (peers and rules) and extends `WgDevice`; `LoadBalancer` uses
one instance of `Kube`; `NftSync` takes the configuration in the cache as a variable that changes.
`Endpoint` implements `AddressLease` (`ImplementsLease`, the stored peers being the leases), and `PeerCli`
is checked against `AddressLease` alone. `ClusterClient` extends `WgcTunnel`; all its daemons share one
store, and each has a stream, a cache and a queue of its own, typed by an instance of `Kube`. `NftSync` and `WgcTunnel` take their deletions from `SequenceOps`,
whose definition the proofs can look into.

**Kube.** `store` maps names to a content with a version, `stream` are the watch events on their way,
`cache` is what `mgr.GetClient()` reads, `queue` the names waiting for the worker. The version counts
deletions as well, which stands for the resource version and the UID of an object together.

**Endpoint.** `pc[w]` says what worker `w` does next: `migrate` and `status` are the two calls of
`client.Update` in `PeerReconciler.Reconcile`, `fetch`, `read` and `configure` the three steps of
`WGASync` between which the other worker may act. `obj` is the peer in memory across those calls,
`cfg[w]` the fetched configuration, `plan[w]` the `nuconfig` computed from it. One action per call:
`TakePeer`, `Migrate`, `SetStatus`, `TakeRule`, `Fetch`, `ReadDevice`, `Configure`; `Restart` and
`Panic` start a new process (`Boot`). `UpdatePeer` has the four outcomes of an Update: accepted,
refused because the object changed, failed on the way there, failed on the way back. `pool` is the set
of addresses the IPv6 client networks give; it is empty if all networks are IPv4. `issued` is a history
variable: every entry a stored peer ever asked of the device.

**WgDevice.** An address stands for its /32 or /128. `LastOf` and `Owners` choose what the order of a
list from the cache and of Go's map iteration leave open: which of several peers with one key wins,
which of several peers gets an address.

**AddressLease.** A peer that exists has a spec and a set of addresses, empty until `Assign`. Peers of an
older release (`Moved`) may be assigned another address, which is what their migration does.

**PeerCli.** Each name of a command is a goroutine with a `step`: `create`, `created`, `watch`, then `got`
or `failed`. `log` has the events of each name at the API server, in order (`Record`), and `next` is the place in
it a goroutine's watch has come to. The watch of the code names no version, for which Kubernetes promises
no more than that it begins at some version and then leaves nothing out: `Starts` are the places it may begin at,
old ones included. The loop takes the first event with a status (`See`), whoever's peer it is. A command ends
when all its goroutines have (`Finish`), and prints if all were answered. `Expire` is the deadline they share;
after it calls fail and watches close, though an event that has arrived may still be read. `touched` is a history variable: the
goroutines whose peer another user has deleted or edited since.

**ClusterClient.** `work[n]` is the worker of node `n`: `list` is the call of List, `resolve` the loop up to
the private key (`Resolve`), `publish` the Update of the object and the parsing behind it (`Publish`), and
`resolve` with nothing left to do is `wgcSync` (`SyncLink` for each interface, then `Finish`). `todo` is a set,
as a list from the cache is in no order. A key stands for its pair. Secrets are read from a cache
(`seen`) that is empty before its informer has synced; to Reconcile, a Get that times out and a Secret
that does not exist are the same. Each Update and Create may be refused, fail on the way there, or on the
way back. Not an action of its own is the Patch for the label Failed: its context is cancelled before it
runs, so it never has an effect. `published` is a history variable: every key that was ever in a status.
A key a daemon generates is one that is nowhere yet (`InUse`), which is what a random key is; `Keys` is finite
for TLC, so it is a bound too: no Secret is made while all of them are in use.

**WgcTunnel.** Only the one worker of a node touches the interfaces, so a turn of `wgcSync` is one action
that comes to some phase of `Phases`, with all that was done until there. `Remember` is the append to the
global `WGConfig.Peers`; of equal entries only the last is kept, as the others make no difference to the
device a list is applied to. `TablesAt` is the routing table of the node, in which `RouteReplace` takes a
network away from whatever interface had it. The calls leave out what is only copied (preshared key,
keepalive) and what the kernel does by itself for the network of an address.

**AddressIndex.** `Index` is the arithmetic of `generateIndex`; `HostSpan` is 2^`maskBits`, `RandSpan` the
range of the random bits. `LoadBalancer` draws from a pool; `MCLoadBalancer` computes that pool with
`Index`, for a network of two bits, of whose four addresses two are ever drawn.

**LoadBalancer.** `check`, `report` and `assign` are the List and the two `Status().Update` calls. The
predicate `Passes` is applied where the code applies it, to events. The status is a subresource of
Service, but an update of it is refused on a version conflict like any other.

**NftSync.** A configuration is what `Fetch` returns, destinations already parsed. Its two Lists are two steps
(`ListPeers`, `ListRules`), so the rules may be newer than the peers they are applied to. `Loop` are the turns
of the nested loops, `ruleMap` what a worker read and has not recognised. Commands of `nft` take effect
one at a time, deletions in one transaction that fails as a whole. Comments are abstract: `CommentFor`
gives them, `Within` says which is contained in which. A destination listed twice in one rule is
listed once here; two rules with one destination are two turns (`via`).

## Runs

| Run | Question | Distinct states |
|---|---|---|
| `endpoint_safety` | Do stale copies, two workers, failures and restarts break the device, a lease or an edit? No; the stored peers behave as `AddressLease` | 1.3 million |
| `endpoint_live` | Does every peer get an address and the device settle? Yes, while a rule exists | 89 thousand |
| `skipped_peer` | Is a peer skipped by a sync reconciled later? No | violation |
| `ipv4_only` | Does an IPv4 client range serve peers? No | violation |
| `lb_assign` | Are addresses of Services assigned once, as asked, and always when possible? Yes | 158 thousand |
| `lb_unique` | Are they unique? No | violation |
| `nft_sync` | Does the chain stay bounded under two workers, and settle if only one of them goes on? Yes | 0.4 million |
| `nft_stale` | Does a sync delete the stale rules? No | violation |
| `wgc_publish` | Do daemons of two nodes undo each other's writes or make a second key? No; each key is published in the end | 96 thousand |
| `wgc_tunnels` | Are keys published before they are used, is Ready true, do interfaces and routes settle? Yes | 141 thousand |
| `peer_cli` | Does a printed peer exist with its keys, is an answer ever missed, do commands end? Yes, no, yes | 218 thousand |
| `reused_name` | Are the printed addresses those of the peer with the printed keys? No | violation |

Bounds. All instances have two of what can conflict (peers, Services, workers, keys, addresses) and one
of the rest. `endpoint_safety` has one peer of an older release and one new peer, specs with one or two
keys, pools of two addresses or none, and at most two disturbances (user writes, failing calls, restarts
together: `Disturbances`); the workers, the watch streams and resyncs are not bounded. Two disturbances
are what each hazard needs: an edit and a lost answer, a deletion and a creation, an edit under each of
the two workers. The keys are symmetric because `TwoSpecs` names them alike, and so are the addresses.
`endpoint_live` has one address, so that two peers get the same one, and three disturbances; it uses no
symmetry. `lb_assign` has three user writes, which allow a Service to be created, annotated and
deleted, or two to contend for the two addresses; of the annotations one names an address outside the
network and one does not parse. `nft_sync` has three configurations of one peer (no status; a DNS server and a rule
without destinations; no server and a rule with destinations of both families), one change, which may fall between
the two Lists of a `Fetch`, and two failures. What has to settle after the last change is a chain, and workers, that
are wrong in some way; two failures make them so in more ways than a second change would. That rules do not
pile up is proved for any number of changes. The configurations name no
destination twice; `nft_stale` shows what happens if they do.

`wgc_publish` has two nodes and one object, which is what two daemons can conflict on: one Secret for both,
a Secret each, or one node that is not listed; one user write makes the object, one call or daemon fails.
The tunnel is only made in the first case: the other two end at the public key of the server, behind the
Update, which keeps the interleavings of two `wgcSync`s, on two hosts, out of them. `wgc_tunnels` has one
node and two objects, two user writes and one failure. Its contents are two good tunnels that share a
network and have different servers, one whose address does not parse, one with a bad key and one for other
nodes, so an interface can be left over while its object still exists. A user's edit or deletion against a
stale write of a daemon is met there (`OthersKept` is checked in both); two nodes, an edit and a failure together are
beyond the time of a run. `peer_cli` has two commands that share one of two names, one write of another
user and one failure; that a name is deleted and made anew while a command waits takes that write and
the other command. Two addresses, so that a peer that is made anew can get another one. `reused_name` has one
command, run twice.

Deadlock is not checked: after its last allowed edit the system may have nothing left to do.

Fairness. `Fairness` of `Endpoint` and `LoadBalancer`: events that are under way are delivered and a
worker that has begun goes on, because Go schedules every goroutine again and again; and a name in the
queue is taken in the end, even if other names keep coming (strong fairness for each name), because the
work queue is first in, first out. For a Service without a request strong fairness is for each address,
as the address is drawn at random at each try. Users, failures and restarts are never fair. The
resyncs (`Resyncs`) are not part of the specification but a premise of the properties that need them:
they come every ten hours. `NftSync` does not say what begins a sync; `Repeats`, that some worker
begins one again and again, is a premise in the same way. It holds of the rule worker as long as there is a
rule, because resyncs come back to it (`wga.go` 147-149). Nothing is assumed of the other: the peer worker syncs
only after it has assigned an address, and otherwise returns (`wga.go` 163). It may stop for good, or begin again
whenever it likes, with what it read before.

`Fairness` of `ClusterClient` is the same for each daemon, with strong fairness for each object of the
list (`ResolveOf`): the list is in random order at every try, so an object behind one that cannot be served
is in front of it in the end. `Resyncs` is a premise again: nothing is enqueued for a Secret. `Fairness` of
`PeerCli` says that a goroutine that can go on without a failure does. That the deadline passes
(`Deadlines`) and that the controller answers (`Answers`, which is `EveryPeerAddressed` of `Endpoint`) are
premises of the properties that need them, so that neither stands in for the other.

What the convergence properties do not promise: `Converges` needs a rule to exist, since peers that
have addresses reconcile nothing; without one, the device stays as the last sync left it
(`skipped_peer`). `RoutesConverge` is about access rules: the rules for port 53 and for 80 and 443 of a
DNS server share a comment, so if one of them is missing the other counts for both, and the pair is
never completed. `TunnelsSettle` needs an object to exist in the end: the deletion of the last one reconciles
nothing, and its interface stays. It says nothing of peers of other tunnels, which an interface gets from
`WGConfig` and keeps; `Carries` only asks that they do not take a network from its own. `PrintedIsHeld` says
nothing of a peer another user has deleted or edited since it was made; and of a name that is not new it leaves
open whether the addresses are those of the peer, since they need not be (`reused_name`).

## Proofs

`KubeProofs` proves for one kind of object that every copy, wherever it is, is `Faithful`: not newer
than the store, and equal to the store's copy if it has its version (`CopiesStayFaithful`). The invariant
is inductive over the union of store, stream and cache (`CopiesGrow`: a step adds only the store's new
copy). Its lemma `FaithfulStep` says the same of a copy kept anywhere else.

`EndpointProofs` proves of `Endpoint`, for all values of the constants:

| Theorem | Says |
|---|---|
| `TypeCorrect` | `TypeOK` is an invariant |
| `NothingForged` | copies of peers, and the worker's object, stay faithful |
| `AddressesKept` | `LeaseStable` |
| `EditsKept` | `NoLostEdit` |
| `DeviceSound` | `DeviceOnlyIssued` is an invariant |
| `LeaseImplemented` | `ImplementsLease`: every behaviour of `Endpoint` is one of `AddressLease` |
| `UndisturbedSync` | `Diff`, applied to the device it was computed from, gives exactly the wanted peers if no two share an address |

The argument has three layers. `TypeOK` with `ObjPhase` is inductive by itself. `ObjectsInv` adds that
copies are faithful, that those of new peers have addresses or no status at all (`CopiesPlain`), and
that the object in hand is a faithful copy without addresses (`ObjFaithful`). From it, `WorkerReplaces`:
a write of the worker that is accepted replaces exactly the copy it has read. So it cannot undo an edit, and
cannot give a second address, since the copy it replaces has none: the cache may be stale when the peer is
taken, but not when the write is accepted. `IssuedInv` says that every copy of a peer, every fetched
configuration and every computed plan asks only for what `issued` records; the device follows, whichever
plan is applied to whatever it holds by then. Plain invariance of `DeviceOnlyIssued` would not be
inductive, as it says nothing of the plans still in flight.

The refinement rests on the same invariant: a user's write changes one lease as `Request`, `Amend` or `End`
do (`UserRefines`), and a write of the worker replaces the copy it has read, which for a new peer has no
addresses, so it is an `Assign` (`WorkerRefines`). Every other step leaves the leases alone.

`AddressIndexProofs` proves of `generateIndex`, "used to generate a unique ip", that indices drawn at least two
nanoseconds apart differ, as long as the time in the index has not come round (`MomentsDiffer`); in
a network of 80 bits or more it never does, in one of 64 bits it does after 2^48 ns, some 78 hours.
`NeighboursMeet` shows why one nanosecond is not enough. The prover does not compute with powers, so
that the hosts are a multiple of the random range is a premise (`Split`).

`PeerCliProofs` proves `TypeOK` and `PrintedIsHeld` (`PrintedHeld`) of `PeerCli`, for any number of commands, names
and failures, and wherever the watches begin. The invariant says what is so of a goroutine's peer (`Mine`) from
the answer to its Create until a user touches the peer (`Own`): it exists with the goroutine's keys, each event with
these keys is older than the status or is the peer as it is, and what the goroutine got are the peer's addresses or
those of an event with other keys. So it does not matter which event the watch comes to first. The controller's
answer keeps this because `AddressLease` answers once: when it comes, no event with these keys has an answer
already. Another command's Create keeps it because it succeeds only where nobody holds the peer, and a goroutine's
own Create begins it because no earlier event has its keys (`Unused`).

`LoadBalancerProofs` proves `TypeOK`, `AssignedOnce` (`AddressesKept`) and `HonoursAnnotation`
(`AnnotationHonoured`) of `LoadBalancer`, from the lemmas of `KubeProofs`. The invariant `IInv` adds to the types
that every copy of a Service, the one in the controller's hand included, is faithful. An update that is accepted
therefore replaces the very Service `Reconcile` has read; that one had no address, and its annotation is
the one the addresses were taken from. Without the refusal of stale updates both would fail, as the
cache may lack an address that was assigned and an annotation that was changed.

`NftSyncProofs` proves `TypeOK` and `CopiesBounded` (`CopiesStayBounded`) of `NftSync` for any finite number of
workers. That a rule has at most one copy per worker is not inductive: it says nothing of the workers that
have looked and found none. `Room` counts these (`Adders`) together with the copies in the chain
(`Places`): their sum is at most the number of workers. It starts at zero; a worker that reads the chain becomes an
adder only of what is missing there, and then nobody has a copy; an adder that adds a rule becomes
a copy, once, since no other turn it has left is for that rule (`TurnsApart`). Both parts need
`CommentsApart`, the premise of the property: no comment is contained in another, whichever peers and rules
are listed together. That a worker has listed no others is an invariant too (`Listing`).

`ClusterClientProofs` proves of `ClusterClient`, for any number of nodes, objects, keys and Secrets:

| Theorem | Says |
|---|---|
| `TypeCorrect` | `TypeOK` is an invariant |
| `WritesKept` | `OthersKept`: a step of a daemon changes nothing in the objects but one node's entry in one status |
| `KeysPublishedFirst` | `PublishedFirst` is an invariant |
| `ReadyTunnels` | `ReadyIsUsable`: when a node is labelled Ready, the interfaces are what the objects ask for |
| `KeysStay` | `OneKey`: a key that its Secret still has is not replaced |

`CopiesGood` is for this system what `Faithful` is for `Kube`: each copy on a stream, in a cache, in the list of a
worker or in its hand is not newer than the object, equal to it at the same version, and shows only keys
that are in `published`. `WritesKept` follows from it at once. `PeersShown` says that the tunnels a worker
will make have keys that were published: a tunnel is put on the list behind the accepted Update, or where
the copy read showed the key already. `KeysPublishedFirst` follows, since an interface gets its key from that
list and from nowhere else.

For `ReadyTunnels`, a list from the cache names an object once, and so do the tunnels made of it (`Apart`).
Then the turns of `wgcSync` that are done stay done (`MadeSoFar`): a later turn touches another interface, and
`EndCarries` shows that a turn that comes to its end leaves the peer, the key and the address of its tunnel
and no network of it with another peer, whatever the global `WGConfig` held before and whichever peers of other
tunnels it applied: the own peer is the last of the list. This is an induction over that list.

For `KeysStay`, a worker may hold a key of a Secret that was deleted and made anew since, and its cache
of Secrets may show one that is gone. `StaleIsNew` says that then the node has not met the new key:
it is in no status, in no cache and in no hand of that node, because a daemon generates a key that is in none
(`UnusedIsNew`), and because it becomes known to a node only by the delivery that ends the staleness.
`KeyAgrees` is the consequence for the worker about to publish: if the status has the key of the Secret as
it is, that is the key it publishes.

`SequenceFacts` has what these need of sequences. The provers cannot use a theorem that takes an operator as a
parameter, as the library's for induction do, so induction is stated for a set of numbers (`Induction`) and
definition by recursion for a sequence of functions (`Recursion`); from these come what
`Kept` and `Configured` compute, step by step.

Assumptions: the named ASSUMEs of the modules. Specs, requests, pools, configurations, names and bounds have their
types; the values that stand for nothing are different from the values they replace
(`SentinelsApart` of several modules, `NoneApart`, `LinksApart`, `NoObjApart`); the workers of `NftSync` are finitely many
(`WorkersFinite`); in `ClusterClient` a name of a Secret is not a key. TLC evaluates them on each run.

Only model-checked: the properties of liveness (`EveryPeerAddressed`, `Converges`, `ServiceServed`,
`RoutesConverge`, `StaleGone`, `KeysSettle`, `TunnelsSettle`, `AnswerIsSeen`, `CommandsEnd`), which the
prover does not handle under fairness. Every invariant, every action property and the refinement
that a passing run checks are theorems.

## Findings

1. A new peer can stay without its entry on the device and in the filter although both syncs say it
   "will be reconciled later" (`nft.go` 97): `WGASync` after the assignment reads a cache that lacks it,
   and the event of the assignment returns early. (`skipped_peer`)
2. With IPv4 client ranges only, the first peer panics the process again and again (`wga.go` 220).
   (`ipv4_only`)
3. Two Services can get one address, as the check for conflicts reads a cache (`lbc.go` 144-187).
   (`lb_unique`)
4. `nftSync` leaves stale rules: it knows one rule per comment, but makes several (`nft.go` 88, 182-189).
   (`nft_stale`)
5. A peer command can print addresses of an older peer that had the name: its watch may begin with that one, and
   the loop does not compare keys (`peers.go` 179-201). (`reused_name`)

No run of its own has what `Migrate` and `SetStatus` show as they stand: the branch that migrates a deprecated address
(`wga.go` 167-177) does not return, so the peer is given a new one by the code below. It is why `AddressLease`
has `Moved`.

## Not modelled

- `wgaInit`'s routes, the masquerade rule, sysctl, keepalive: written once, read by nothing here.
- Text: log lines, the configuration file (`FormatPeerIni`, whose error `wga peers add` drops), conditions'
  messages.
- A Service that leaves the load balancer class while it is queued; ports and families of Services. An
  ingress without an IP, which only somebody else can have written: it passes `lbcPredicate` (`lbc.go` 78), and
  Reconcile returns at once (`lbc.go` 114), so it changes nothing.
- `Endpoint` and `NftSync` composed: the syncs share the fetched configuration, but neither reads what the
  other writes. Rules whose comments contain each other: `NftSync` has the relation, the instances do not.
- The label Failed of a node, which is never written, and with it a label Ready that is out of date.
- Two `wga` daemons on one node, or two endpoint processes: leader election is not enabled, and neither is
  a supported deployment.
- Command line parsing, generated code, the Helm chart, the DNS server's configuration, the web dashboard.

## Plan

The order is that of importance. All three groups exist.

1. Core: `Kube`, `WgDevice`, `Endpoint`, `LoadBalancer`, `NftSync` with their runs, `KubeProofs`,
   `EndpointProofs`.
2. `ClusterClient` with `WgcTunnel`; `AddressLease` with its refinement; `PeerCli` with `PeerCliProofs`;
   `AddressIndex`.
3. `LoadBalancerProofs`, `NftSyncProofs`, `ClusterClientProofs`, with `SequenceFacts`.

What would come next are results about single operations left to themselves, as `UndisturbedSync` is for
the device, which are the safety half of what the convergence properties say: a run of `nftSync` without
another worker and without failures leaves, for each access rule whose comments are not contained in others,
a rule with that comment, and no rule with a comment nothing asks for; a `wgcSync` without failures leaves
no interface but those of its list.
