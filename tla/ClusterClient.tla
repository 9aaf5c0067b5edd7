--------------------------- MODULE ClusterClient ---------------------------
(***************************************************************************)
(* The cluster client (operator/wgc.go): a daemon on every node brings up  *)
(* a WireGuard interface for each WireguardClusterClient that lists the    *)
(* node. It takes the node's private key from the object or from a Secret, *)
(* which it creates if it finds none, and publishes the public key in the  *)
(* status of the object, where the daemons of all nodes write.             *)
(*                                                                         *)
(* A key stands for the pair: the status shows the public half of it. The  *)
(* interfaces are in the network of the host and outlive the daemon.       *)
(***************************************************************************)
EXTENDS WgcTunnel, FiniteSets

CONSTANTS
  Nodes,      \* Kubernetes nodes, one daemon on each
  SecretNames,
  DefaultName,  \* formatSecretName: the Secret for an object and a node
  Refs,       \* names of Secrets that users choose
  Given,      \* the Secrets users have made under these names
  Default,    \* a reference without a name
  Unlisted,   \* the object does not list this node
  Specs,      \* contents users give an object, see SpecsTyped
              \* (a bound is also in Keys: only so many can be in use at once)
  Absent, NoCur,
  MaxEdits,   \* bound: writes by users
  MaxFaults   \* bound: failing calls and restarts of daemons

ASSUME NamesTyped == Refs \subseteq SecretNames /\ DefaultName \in [Clients \X Nodes -> SecretNames]

Sources == Keys \cup Refs \cup {Default, BadKey, Unlisted}
Flaws == {"none", "server", "endpoint", "address"}

\* flaw: the first field of the object that does not parse.
ASSUME SpecsTyped ==
  Specs \subseteq [source : [Nodes -> Sources], server : Servers, routes : SUBSET Nets,
                   addr : Addrs, flaw : Flaws]
\* keys: status.nodes, the public key of each node that has an entry.
Values == [spec : Specs, keys : [Nodes -> Keys \cup {NoKey}]]

ASSUME GivenTyped == Given \in [Refs -> Keys \cup {BadKey, NoKey}]
ASSUME BoundsTyped == MaxEdits \in Nat /\ MaxFaults \in Nat
ASSUME SentinelsApart ==
  /\ SecretNames \cap Keys = {} /\ {Default, BadKey, Unlisted, NoKey} \cap (SecretNames \cup Keys) = {}
  /\ Default \notin {BadKey, Unlisted, NoKey} /\ BadKey \notin {Unlisted, NoKey} /\ Unlisted # NoKey
  /\ NoCur \notin Clients
  /\ NoCur \notin [name : Clients, copy : [ver : Nat, val : Values], key : Keys]
  /\ Absent \notin Values

VARIABLES
  store,      \* the objects at the API server
  stream,     \* of each daemon: the watch events under way to it
  cache,      \* of each daemon: the informer's cache
  queue,      \* of each daemon: the names waiting for its worker
  secret,     \* the Secrets at the API server
  seen,       \* of each daemon: its cache of the Secrets
  work,       \* of each daemon: where its worker is, see Works
  conf,       \* of each daemon: the peers in the global WGConfig
  links,      \* of each node: the interfaces wgc-*
  table,      \* of each node: the interface each network is routed to
  ready,      \* of each node: the objects it has a label Ready for
  published,  \* history: every key a node has published for an object
  edits, faults

objVars == <<store, stream, cache, queue>>
keyVars == <<secret, seen>>
hostVars == <<conf, links, table>>
vars == <<objVars, keyVars, hostVars, work, ready, published, edits, faults>>

NoKeys == [n \in Nodes |-> NoKey]

API(n) == INSTANCE Kube WITH
  Names <- Clients, stream <- stream[n], cache <- cache[n], queue <- queue[n]

SecretName(w, n, source) == IF source = Default THEN DefaultName[<<w, n>>] ELSE source
IsRef(source) == source \in Refs \cup {Default}

\* The worker: the object it reconciles; the objects it has listed and not
\* looked at yet; the one it looks at, with the key it found; the tunnels it
\* is going to make, and which of them is next.
Works ==
  [pc : {"idle", "list", "resolve", "publish"}, name : Clients \cup {NoCur},
   todo : SUBSET [name : Clients, copy : [ver : Nat, val : Values]],
   cur : [name : Clients, copy : [ver : Nat, val : Values], key : Keys] \cup {NoCur},
   peers : Seq(Tunnels), turn : Nat]
Idle == [pc |-> "idle", name |-> NoCur, todo |-> {}, cur |-> NoCur, peers |-> <<>>, turn |-> 1]

\* The informer for Secrets starts with the first Get, which may time out before
\* it has listed them; to Reconcile that is the same as a Secret not found.
Unsynced == [s \in SecretNames |-> NoKey]

Published(objects) ==
  UNION {{<<w, n, objects[w].val.keys[n]>> :
           n \in {m \in Nodes : objects[w].val.keys[m] # NoKey}} :
          w \in {v \in Clients : objects[v].val # Absent}}

-----------------------------------------------------------------------------
Init ==
  /\ store = [w \in Clients |-> [ver |-> 0, val |-> Absent]]
  /\ stream = [n \in Nodes |-> <<>>]
  /\ cache = [n \in Nodes |-> store]
  /\ queue = [n \in Nodes |-> {}]
  /\ secret = [s \in SecretNames |-> IF s \in Refs THEN Given[s] ELSE NoKey]
  /\ seen = [n \in Nodes |-> Unsynced]
  /\ work = [n \in Nodes |-> Idle]
  /\ conf = [n \in Nodes |-> <<>>]
  /\ links = [n \in Nodes |-> [w \in Clients |-> NoLink]]
  /\ table = [n \in Nodes |-> [d \in Nets |-> NoLink]]
  /\ ready = [n \in Nodes |-> {}]
  /\ published = {}
  /\ edits = 0
  /\ faults = 0

\* A write at the API server sends an event to every daemon.
Write(w, val) ==
  LET copy == [ver |-> store[w].ver + 1, val |-> val]
  IN /\ store' = [store EXCEPT ![w] = copy]
     /\ stream' = [n \in Nodes |-> Append(stream[n], [name |-> w, copy |-> copy])]
     /\ published' = published \cup Published(store')

-----------------------------------------------------------------------------
\* Users.
Edit ==
  /\ edits < MaxEdits
  /\ edits' = edits + 1
  /\ UNCHANGED <<cache, queue, seen, work, hostVars, ready, faults>>

CreateClient(w, spec) ==
  /\ Edit
  /\ store[w].val = Absent
  /\ Write(w, [spec |-> spec, keys |-> NoKeys])
  /\ UNCHANGED secret

EditClient(w, spec) ==
  /\ Edit
  /\ store[w].val # Absent /\ store[w].val.spec # spec
  /\ Write(w, [store[w].val EXCEPT !.spec = spec])
  /\ UNCHANGED secret

DeleteClient(w) ==
  /\ Edit
  /\ store[w].val # Absent
  /\ Write(w, Absent)
  /\ UNCHANGED secret

DeleteSecret(s) ==
  /\ Edit
  /\ secret[s] # NoKey
  /\ secret' = [secret EXCEPT ![s] = NoKey]
  /\ UNCHANGED <<store, stream, published>>

-----------------------------------------------------------------------------
\* The informers of a daemon. clientPredicate lets every event pass; nothing
\* is enqueued for a Secret.
cacheOthers == <<store, secret, work, hostVars, ready, published, edits, faults>>

Deliver(n) ==
  /\ stream[n] # <<>>
  /\ LET e == Head(stream[n])
     IN /\ cache' = [cache EXCEPT ![n][e.name] = e.copy]
        /\ queue' = [queue EXCEPT ![n] = @ \cup {e.name}]
  /\ stream' = [stream EXCEPT ![n] = Tail(@)]
  /\ UNCHANGED <<seen, cacheOthers>>

Resync(n) ==
  /\ queue' = [queue EXCEPT ![n] = @ \cup {w \in Clients : cache[n][w].val # Absent}]
  /\ queue' # queue
  /\ UNCHANGED <<stream, cache, seen, cacheOthers>>

SeeSecrets(n) ==
  /\ seen[n] # secret
  /\ seen' = [seen EXCEPT ![n] = secret]
  /\ UNCHANGED <<stream, cache, queue, cacheOthers>>

-----------------------------------------------------------------------------
\* AsReconciler ends without a call for an object that is not there.
Take(n, w) ==
  /\ work[n].pc = "idle"
  /\ w \in queue[n]
  /\ queue' = [queue EXCEPT ![n] = @ \ {w}]
  /\ work' = IF cache[n][w].val = Absent THEN work
             ELSE [work EXCEPT ![n] = [Idle EXCEPT !.pc = "list", !.name = w]]
  /\ UNCHANGED <<store, stream, cache, keyVars, hostVars, ready, published, edits, faults>>

\* A call that fails although nothing is wrong with its arguments.
Fault == faults < MaxFaults /\ faults' = faults + 1

\* Mutant: the lists a Reconcile has built are left for the next one.
GiveUp_KeepsLists(n) ==
  /\ work' = [work EXCEPT ![n].pc = "idle", ![n].cur = NoCur]
  /\ queue' = [queue EXCEPT ![n] = @ \cup {work[n].name}]

\* Reconcile returns an error and the name is tried again. The deferred Patch
\* for the label Failed has no effect: its context is cancelled before it runs.
GiveUp(n) ==
  /\ work' = [work EXCEPT ![n] = Idle]
  /\ queue' = [queue EXCEPT ![n] = @ \cup {work[n].name}]

\* The objects that list the node; the others are passed over.
Listing(n) ==
  {[name |-> w, copy |-> cache[n][w]] :
     w \in {v \in Clients : cache[n][v].val # Absent /\ cache[n][v].val.spec.source[n] # Unlisted}}

List(n) ==
  /\ work[n].pc = "list"
  /\ \/ /\ work' = [work EXCEPT ![n].pc = "resolve", ![n].todo = Listing(n)]
        /\ UNCHANGED <<queue, faults>>
     \/ Fault /\ GiveUp(n)
  /\ UNCHANGED <<store, stream, cache, keyVars, hostVars, ready, published, edits>>
-----------------------------------------------------------------------------
Found(n, e, key) ==
  work' = [work EXCEPT ![n].pc = "publish", ![n].todo = @ \ {e},
                       ![n].cur = [name |-> e.name, copy |-> e.copy, key |-> key]]

\* GenerateKey: a key that is nowhere yet; which one makes no difference.
InUse ==
  {secret[s] : s \in SecretNames} \cup (UNION {{seen[n][s] : s \in SecretNames} : n \in Nodes})
    \cup {x[3] : x \in published} \cup (UNION {{spec.source[n] : n \in Nodes} : spec \in Specs})
    \cup {work[n].cur.key : n \in {m \in Nodes : work[m].cur # NoCur}}
GeneratedKey == CHOOSE k \in Keys : k \notin InUse

\* Mutant: an existing Secret is overwritten.
CreateSecret_Overwrites(s, key) == Keys \ InUse # {} /\ secret' = [secret EXCEPT ![s] = key]

CreateSecret(s, key) ==
  /\ secret[s] = NoKey
  /\ Keys \ InUse # {}
  /\ secret' = [secret EXCEPT ![s] = key]

\* A Secret that could not be read, for whatever reason, is created. Creation
\* fails if there is one.
MakeSecret(n, e, s) ==
  \/ /\ CreateSecret(s, GeneratedKey) /\ Found(n, e, GeneratedKey)
     /\ UNCHANGED queue
  \/ secret[s] # NoKey /\ GiveUp(n) /\ UNCHANGED secret

\* One turn of the loop over the objects, up to the private key. The objects
\* come from the cache in no particular order.
Resolve(n, e) ==
  LET source == e.copy.val.spec.source[n]
      s == SecretName(e.name, n, source)
      key == IF IsRef(source) THEN seen[n][s] ELSE source
  IN /\ work[n].pc = "resolve"
     /\ e \in work[n].todo
     /\ \/ key \in Keys /\ Found(n, e, key) /\ UNCHANGED <<secret, queue, faults>>
        \/ key = BadKey /\ GiveUp(n) /\ UNCHANGED <<secret, faults>>
        \/ key = NoKey /\ MakeSecret(n, e, s) /\ UNCHANGED faults
        \/ IsRef(source) /\ Fault /\ GiveUp(n) /\ CreateSecret(s, GeneratedKey)
        \/ IsRef(source) /\ Fault /\ GiveUp(n) /\ UNCHANGED secret
     /\ UNCHANGED <<store, stream, cache, seen, hostVars, ready, published, edits>>

ResolveOf(n, w) == \E e \in work[n].todo : e.name = w /\ Resolve(n, e)

-----------------------------------------------------------------------------
\* Mutant: an entry the node has already is left as it is.
WithKey_Once(val, n, key) == IF val.keys[n] = NoKey THEN [val EXCEPT !.keys[n] = key] ELSE val

\* Mutant: an entry is only added to an empty list.
WithKey_First(val, n, key) == IF val.keys = NoKeys THEN [val EXCEPT !.keys[n] = key] ELSE val

\* The node's own entry in status.nodes, added or corrected.
WithKey(val, n, key) == [val EXCEPT !.keys[n] = key]

\* Mutant: the write does not carry the version that was read.
Accepted_AnyVersion(e) == store[e.name].val # Absent

Accepted(e) == store[e.name].val # Absent /\ store[e.name].ver = e.copy.ver

\* client.Update. One that changes nothing leaves version and events alone.
Save(e, val) ==
  /\ Accepted(e)
  /\ IF val = store[e.name].val THEN UNCHANGED <<store, stream, published>> ELSE Write(e.name, val)

\* After the Update the public key of the server and the routes are parsed.
Proceed(n) ==
  LET w == work[n].cur.name
      spec == work[n].cur.copy.val.spec
      t == [name |-> w, key |-> work[n].cur.key, server |-> spec.server,
            routes |-> spec.routes, addr |-> spec.addr, flaw |-> spec.flaw]
  IN IF spec.flaw = "server" THEN GiveUp(n)
     ELSE /\ work' = [work EXCEPT ![n].pc = "resolve", ![n].cur = NoCur, ![n].peers = Append(@, t)]
          /\ UNCHANGED queue

\* Objects with a reference to a Secret are updated each time.
Publish(n) ==
  LET cur == work[n].cur
      e == [name |-> cur.name, copy |-> cur.copy]
      val == WithKey(cur.copy.val, n, cur.key)
      objVersion == <<store, stream, published>>
  IN /\ work[n].pc = "publish"
     /\ IF IsRef(cur.copy.val.spec.source[n]) \/ val # cur.copy.val
        THEN \/ Save(e, val) /\ Proceed(n) /\ UNCHANGED faults
             \/ ~Accepted(e) /\ GiveUp(n) /\ UNCHANGED <<objVersion, faults>>
             \/ Fault /\ GiveUp(n) /\ UNCHANGED objVersion
             \/ Fault /\ GiveUp(n) /\ Save(e, val)
        ELSE Proceed(n) /\ UNCHANGED <<objVersion, faults>>
     /\ UNCHANGED <<cache, keyVars, hostVars, ready, edits>>

-----------------------------------------------------------------------------
\* After the last object comes wgcSync; nothing else looks at the interfaces.
Syncing(n) == work[n].pc = "resolve" /\ work[n].todo = {}

\* One turn of its loop, as far as it comes.
SyncLink(n) ==
  LET t == work[n].peers[work[n].turn]
      link == links[n][t.name]
  IN /\ Syncing(n)
     /\ work[n].turn <= Len(work[n].peers)
     /\ \E i \in DOMAIN Phases :
          LET phase == Phases[i]
          IN /\ Reached(phase, LastPhase(t))
             /\ conf' = [conf EXCEPT ![n] = ConfAt(phase, t, @)]
             /\ \E addrs \in AddrsAt(phase, t, IF link = NoLink THEN {} ELSE link.addrs) :
                  links' = [links EXCEPT ![n][t.name] = LinkAt(phase, t, link, addrs, conf'[n])]
             /\ \E x \in TablesAt(phase, t, table[n]) : table' = [table EXCEPT ![n] = x]
             /\ \/ /\ phase = "end"
                   /\ work' = [work EXCEPT ![n].turn = @ + 1]
                   /\ UNCHANGED <<queue, faults>>
                \/ phase # "end" /\ phase = LastPhase(t) /\ GiveUp(n) /\ UNCHANGED faults
                \/ phase # "end" /\ Fault /\ GiveUp(n)
     /\ UNCHANGED <<store, stream, cache, keyVars, ready, published, edits>>

\* Mutant: only interfaces of objects that are gone are deleted.
Leftovers_Gone(n) == {w \in Clients : links[n][w] # NoLink /\ cache[n][w].val = Absent}

Leftovers(n) ==
  {w \in Clients : links[n][w] # NoLink /\ \A i \in DOMAIN work[n].peers : work[n].peers[i].name # w}

DeleteLinks(n, gone) ==
  /\ links' = [links EXCEPT ![n] = [w \in Clients |-> IF w \in gone THEN NoLink ELSE @[w]]]
  /\ table' = [table EXCEPT ![n] = [d \in Nets |-> IF @[d] \in gone THEN NoLink ELSE @[d]]]

\* The leftovers are deleted. Then the label Ready of the object that was to be
\* reconciled is set; nobody looks whether that has worked.
Finish(n) ==
  /\ Syncing(n)
  /\ work[n].turn > Len(work[n].peers)
  /\ \/ /\ DeleteLinks(n, Leftovers(n))
        /\ work' = [work EXCEPT ![n] = Idle]
        /\ \/ ready' = [ready EXCEPT ![n] = @ \cup {work[n].name}] /\ UNCHANGED faults
           \/ Fault /\ UNCHANGED ready
        /\ UNCHANGED queue
     \/ /\ Fault
        /\ \E gone \in SUBSET Leftovers(n) : DeleteLinks(n, gone)
        /\ GiveUp(n)
        /\ UNCHANGED ready
  /\ UNCHANGED <<store, stream, cache, keyVars, conf, published, edits>>

-----------------------------------------------------------------------------
\* A new daemon: WGConfig is empty again, the interfaces are still there.
Restart(n) ==
  /\ Fault
  /\ cache' = [cache EXCEPT ![n] = store]
  /\ stream' = [stream EXCEPT ![n] = <<>>]
  /\ queue' = [queue EXCEPT ![n] = {w \in Clients : store[w].val # Absent}]
  /\ seen' = [seen EXCEPT ![n] = Unsynced]
  /\ work' = [work EXCEPT ![n] = Idle]
  /\ conf' = [conf EXCEPT ![n] = <<>>]
  /\ UNCHANGED <<store, secret, links, table, ready, published, edits>>

Work(n) == List(n) \/ Publish(n) \/ SyncLink(n) \/ Finish(n)

Next ==
  \/ \E w \in Clients, spec \in Specs : CreateClient(w, spec) \/ EditClient(w, spec)
  \/ \E w \in Clients : DeleteClient(w)
  \/ \E s \in SecretNames : DeleteSecret(s)
  \/ \E n \in Nodes :
       \/ Deliver(n) \/ Resync(n) \/ SeeSecrets(n)
       \/ \E w \in Clients : Take(n, w) \/ ResolveOf(n, w)
       \/ Work(n) \/ Restart(n)

\* As in Endpoint; and since a list from the cache comes in random order, each
\* object that is listed again and again is in front of the others in the end.
Fairness ==
  \A n \in Nodes :
    /\ WF_vars(Deliver(n)) /\ WF_vars(SeeSecrets(n)) /\ WF_vars(Work(n))
    /\ \A w \in Clients : SF_vars(Take(n, w)) /\ SF_vars(ResolveOf(n, w))

Resyncs == \A n \in Nodes : WF_vars(Resync(n))

Spec == Init /\ [][Next]_vars
FairSpec == Spec /\ Fairness

-----------------------------------------------------------------------------
\* Every variable has its type; a worker has something in hand only while it
\* reconciles; a network is only routed to an interface that exists.
TypeOK ==
  /\ \A n \in Nodes : API(n)!TypeOK
  /\ secret \in [SecretNames -> Keys \cup {BadKey, NoKey}]
  /\ seen \in [Nodes -> [SecretNames -> Keys \cup {BadKey, NoKey}]]
  /\ work \in [Nodes -> Works]
  /\ \A n \in Nodes : work[n].pc = "idle" => work[n] = Idle
  /\ \A n \in Nodes : work[n].pc = "publish" <=> work[n].cur # NoCur
  /\ conf \in [Nodes -> Seq([server : Servers, routes : SUBSET Nets])]
  /\ links \in [Nodes -> [Clients -> Links \cup {NoLink}]]
  /\ table \in [Nodes -> [Nets -> Clients \cup {NoLink}]]
  /\ \A n \in Nodes, d \in Nets : table[n][d] # NoLink => links[n][table[n][d]] # NoLink
  /\ ready \in [Nodes -> SUBSET Clients]
  /\ published \subseteq Clients \X Nodes \X Keys
  /\ edits \in 0..MaxEdits
  /\ faults \in 0..MaxFaults

\* The daemons of all nodes write the whole of one object, spec included, from
\* copies they read earlier. None undoes what a user or another daemon wrote:
\* a step of a daemon leaves every spec alone, creates and deletes no object,
\* and changes at most one entry of one status.
Entries == {x \in Clients \X Nodes :
              /\ store[x[1]].val # Absent /\ store'[x[1]].val # Absent
              /\ store[x[1]].val.keys[x[2]] # store'[x[1]].val.keys[x[2]]}
OthersKept ==
  [][edits' = edits =>
       /\ \A w \in Clients :
            /\ store[w].val = Absent <=> store'[w].val = Absent
            /\ store[w].val # Absent => store'[w].val.spec = store[w].val.spec
       /\ \A x, y \in Entries : x = y]_vars

\* A key is published before it is used: whatever of copies, Secrets and caches
\* was stale when Reconcile read it, and wherever an earlier sync or daemon
\* broke off, no interface ever has a key the status has not shown for the node.
PublishedFirst ==
  \A n \in Nodes, w \in Clients :
    links[n][w] # NoLink /\ links[n][w].key # NoKey => <<w, n, links[n][w].key>> \in published

\* A Secret that "could not be read" is made anew (Reconcile), but as long as
\* nobody deletes it its key stays, and the node whose public key it is goes on
\* showing that one: errors, stale caches, two nodes that make one Secret at the
\* same time and restarts give no node a second key.
ShowsKeyOf(w, n, s) ==
  store[w].val # Absent /\ store[w].val.keys[n] = secret[s] /\ secret[s] # NoKey
    /\ SecretName(w, n, store[w].val.spec.source[n]) = s
OneKey ==
  [][edits' = edits =>
       /\ \A s \in SecretNames : secret[s] # NoKey => secret'[s] = secret[s]
       /\ \A w \in Clients, n \in Nodes, s \in SecretNames :
            ShowsKeyOf(w, n, s) => store'[w].val.keys[n] = secret[s]]_vars

\* "if sync passed, update node labels to reflect we can use wgc" (Reconcile):
\* when the label is set for an object that lists the node, the tunnel is there
\* as the object asked, with its key, its own peer in spite of the peers of
\* other tunnels in the global WGConfig, its only address.
ReadyIsUsable ==
  [][\A n \in Nodes :
       ready'[n] # ready[n] =>
         \A i \in DOMAIN work[n].peers :
           work[n].peers[i].name \in ready'[n] \ ready[n]
             => Carries(links'[n][work[n].peers[i].name], work[n].peers[i])]_vars

\* Each daemon publishes its key: once nobody edits, the status of an object
\* shows for each node that has a private key the public half of it, though
\* daemons refuse each other's writes, and though another object in the list,
\* which ends every Reconcile with an error, cannot be served.
WantedKey(w, n) ==
  LET source == store[w].val.spec.source[n]
  IN IF IsRef(source) THEN secret[SecretName(w, n, source)] ELSE source
HasSource(w, n) ==
  store[w].val # Absent /\ store[w].val.spec.source[n] # Unlisted /\ WantedKey(w, n) # BadKey
KeysSettle ==
  Resyncs => \A w \in Clients, n \in Nodes :
    <>[](HasSource(w, n) => WantedKey(w, n) # NoKey /\ store[w].val.keys[n] = WantedKey(w, n))

\* If in the end some object exists, and all that exist can be served, then
\* every node settles on exactly the interfaces the objects ask for, each with
\* the key the status shows, and on a routing table that leads each network to
\* an interface that asks for it: interfaces of deleted objects, syncs that
\* broke off and the peers of earlier syncs in WGConfig leave no trace.
TunnelOf(w, n) ==
  LET val == store[w].val
  IN [name |-> w, key |-> val.keys[n], server |-> val.spec.server, routes |-> val.spec.routes,
      addr |-> val.spec.addr, flaw |-> "none"]
Listers(n) == {w \in Clients : store[w].val # Absent /\ store[w].val.spec.source[n] # Unlisted}
Claims(n, d) == {w \in Listers(n) : d \in store[w].val.spec.routes}
AllServable ==
  /\ \E w \in Clients : store[w].val # Absent
  /\ \A n \in Nodes : \A w \in Listers(n) : HasSource(w, n) /\ store[w].val.spec.flaw = "none"
Settled ==
  \A n \in Nodes :
    /\ \A w \in Listers(n) : Carries(links[n][w], TunnelOf(w, n))
    /\ \A w \in Clients \ Listers(n) : links[n][w] = NoLink
    /\ \A d \in Nets : IF Claims(n, d) = {} THEN table[n][d] = NoLink ELSE table[n][d] \in Claims(n, d)
TunnelsSettle == Resyncs /\ <>[]AllServable => <>[]Settled
=============================================================================
