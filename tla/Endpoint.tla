------------------------------ MODULE Endpoint ------------------------------
(***************************************************************************)
(* The endpoint process (operator/wga.go): two controllers, one for        *)
(* WireguardAccessPeer and one for WireguardAccessRule objects, each with  *)
(* one worker. The peer worker gives a new peer an address; both workers   *)
(* bring the WireGuard device in line with the objects (WGASync), and      *)
(* nothing keeps the two from doing so at the same time.                   *)
(*                                                                         *)
(* The nftables half of WGASync comes after the WireGuard half and touches *)
(* none of this state: here it is part of the time a worker may take       *)
(* before its next object.                                                 *)
(***************************************************************************)
EXTENDS WgDevice, Sequences, FiniteSets

CONSTANTS
  Rules,        \* names of WireguardAccessRule objects
  RuleSpecs,    \* contents of a rule; the device does not depend on them
  Specs,        \* specs a user may give a peer: [pub, psk]
  BadKey,       \* a key that does not parse
  Pools,        \* each: the addresses the IPv6 client networks can hand out
  LegacyPeers,  \* peers of an older release: status.address, no addresses
  NoObj,        \* the worker holds no object
  MaxEdits,     \* bound: writes by users
  MaxFaults     \* bound: failing calls and process restarts

ASSUME SpecsTyped ==
  Specs \subseteq [pub : Keys \cup {BadKey}, psk : Psks \cup {BadKey}]
ASSUME LegacyNamed == LegacyPeers \subseteq Peers
ASSUME PoolsTyped == \A pool \in Pools : pool \subseteq Addrs
ASSUME BoundsTyped == MaxEdits \in Nat /\ MaxFaults \in Nat
ASSUME SentinelsApart ==
  /\ Absent \notin [spec : Specs, status : Statuses]
  /\ Absent \notin [spec : Specs, addrs : SUBSET Addrs]
  /\ Absent \notin RuleSpecs
  /\ NoStatus \notin [address : Addrs \cup {NoAddr}, addresses : SUBSET Addrs]
  /\ NoAddr \notin Addrs
  /\ BadKey \notin Keys \cup Psks
  /\ NoPeer \notin Entries

VARIABLES
  peerStore, peerStream, peerCache, peerQueue,   \* see Kube
  ruleStore, ruleStream, ruleCache, ruleQueue,
  pool,      \* the addresses this installation hands out; {} if IPv4 only
  pc,        \* what each worker does next
  obj,       \* the peer the peer worker holds in memory
  cfg,       \* the configuration each worker fetched
  plan,      \* the device operations each worker computed
  device,    \* the peers of the WireGuard device
  issued,    \* history: every device entry any stored peer ever asked for
  edits, faults

peerVars == <<peerStore, peerStream, peerCache, peerQueue>>
ruleVars == <<ruleStore, ruleStream, ruleCache, ruleQueue>>
workVars == <<pc, obj, cfg, plan>>
vars == <<peerVars, ruleVars, workVars, pool, device, issued, edits, faults>>

PeerValues == [spec : Specs, status : Statuses]

PeerAPI == INSTANCE Kube WITH
  Names <- Peers, Values <- PeerValues,
  store <- peerStore, stream <- peerStream, cache <- peerCache, queue <- peerQueue

RuleAPI == INSTANCE Kube WITH
  Names <- Rules, Values <- RuleSpecs,
  store <- ruleStore, stream <- ruleStream, cache <- ruleCache, queue <- ruleQueue

ASSUME NoObjApart == NoObj \notin PeerAPI!Event

Workers == {"peer", "rule"}

EmptyDevice == [k \in Keys |-> NoPeer]
NoConfig == [p \in Peers |-> Absent]
NoPlan == [k \in Keys |-> [op |-> "keep", entry |-> NoPeer]]

Addressed(val) == val.status # NoStatus /\ val.status.addresses # {}
OldAddress(val) == val.status # NoStatus /\ val.status.address # NoAddr

\* What a peer asks the device for; a history of it is kept in issued.
Issue(val) ==
  [key |-> val.spec.pub, psk |-> val.spec.psk, ips |-> Ips(val.status)]

-----------------------------------------------------------------------------
LegacyValues ==
  [spec : Specs, status : [address : Addrs, addresses : {{}}]]

Init ==
  /\ PeerAPI!Init
  /\ \A p \in Peers : IF p \in LegacyPeers THEN peerStore[p].val \in LegacyValues
                                           ELSE peerStore[p].val = Absent
  /\ peerQueue = LegacyPeers
  /\ RuleAPI!Init
  /\ ruleQueue = {r \in Rules : ruleStore[r].val # Absent}
  /\ pool \in Pools
  /\ pc = [w \in Workers |-> "idle"]
  /\ obj = NoObj
  /\ cfg = [w \in Workers |-> NoConfig]
  /\ plan = [w \in Workers |-> NoPlan]
  /\ device = EmptyDevice
  /\ issued = {Issue(peerStore[p].val) : p \in LegacyPeers}
  /\ edits = 0
  /\ faults = 0

-----------------------------------------------------------------------------
\* Users, through kubectl or "wga peers".
Edit == edits < MaxEdits /\ edits' = edits + 1

CreatePeer(p, spec) ==
  LET val == [spec |-> spec, status |-> NoStatus]
  IN /\ Edit
     /\ PeerAPI!Create(p, val)
     /\ issued' = issued \cup {Issue(val)}
     /\ UNCHANGED <<peerCache, peerQueue, ruleVars, workVars, pool, device, faults>>

EditPeer(p, spec) ==
  LET old == peerStore[p]
      val == [spec |-> spec, status |-> old.val.status]
  IN /\ Edit
     /\ old.val # Absent /\ old.val.spec # spec
     /\ PeerAPI!Update(p, old.ver, val)
     /\ issued' = issued \cup {Issue(val)}
     /\ UNCHANGED <<peerCache, peerQueue, ruleVars, workVars, pool, device, faults>>

DeletePeer(p) ==
  /\ Edit
  /\ PeerAPI!Delete(p)
  /\ UNCHANGED <<peerCache, peerQueue, ruleVars, workVars, pool, device, issued, faults>>

PutRule(r, spec) ==
  /\ Edit
  /\ RuleAPI!Create(r, spec) \/ RuleAPI!Update(r, ruleStore[r].ver, spec)
  /\ UNCHANGED <<ruleCache, ruleQueue, peerVars, workVars, pool, device, issued, faults>>

DeleteRule(r) ==
  /\ Edit
  /\ RuleAPI!Delete(r)
  /\ UNCHANGED <<ruleCache, ruleQueue, peerVars, workVars, pool, device, issued, faults>>

-----------------------------------------------------------------------------
\* The informers. peerPredicate lets create, update and delete events of both
\* kinds pass, so every event enqueues its object.
others == <<workVars, pool, device, issued, edits, faults>>

DeliverPeer == PeerAPI!Deliver /\ UNCHANGED <<ruleVars, others>>
DeliverRule == RuleAPI!Deliver /\ UNCHANGED <<peerVars, others>>
ResyncPeers == PeerAPI!Resync /\ UNCHANGED <<ruleVars, others>>
ResyncRules == RuleAPI!Resync /\ UNCHANGED <<peerVars, others>>

-----------------------------------------------------------------------------
\* Mutant: without the early return for a peer that has addresses.
FirstStep_NoReturn(val) ==
  IF val = Absent THEN "idle" ELSE "status"

\* PeerReconciler. AsReconciler reads the object from the cache and ends
\* without a call when it is not there: a deleted peer reconciles nothing.
FirstStep(val) ==
  IF val = Absent \/ Addressed(val) THEN "idle"
  ELSE IF OldAddress(val) THEN "migrate" ELSE "status"

TakePeer(p) ==
  LET step == FirstStep(peerCache[p].val)
  IN /\ pc["peer"] = "idle"
     /\ PeerAPI!Take(p)
     /\ pc' = [pc EXCEPT !["peer"] = step]
     /\ obj' = IF step = "idle" THEN NoObj ELSE [name |-> p, copy |-> peerCache[p]]
     /\ UNCHANGED <<peerStore, peerStream, peerCache, ruleVars, cfg, plan,
                    pool, device, issued, edits, faults>>

\* A call that fails although nothing is wrong with its arguments.
Fault == faults < MaxFaults /\ faults' = faults + 1

\* Mutants: the error is swallowed; the object outlives the call.
GiveUp_Swallowed ==
  /\ pc' = [pc EXCEPT !["peer"] = "idle"]
  /\ obj' = NoObj
  /\ UNCHANGED peerQueue

GiveUp_KeepsObject ==
  /\ PeerAPI!Requeue(obj.name)
  /\ pc' = [pc EXCEPT !["peer"] = "idle"]
  /\ UNCHANGED obj

\* Reconcile returns an error: the name goes back into the queue.
GiveUp ==
  /\ PeerAPI!Requeue(obj.name)
  /\ pc' = [pc EXCEPT !["peer"] = "idle"]
  /\ obj' = NoObj

\* Mutant: the write does not carry the version that was read.
Save_AnyVersion(val) ==
  /\ PeerAPI!Update(obj.name, peerStore[obj.name].ver, val)
  /\ issued' = issued \cup {Issue(val)}

Save(val) ==
  /\ PeerAPI!Update(obj.name, obj.copy.ver, val)
  /\ issued' = issued \cup {Issue(val)}

\* client.Update(peer): accepted; refused because the object has changed; or
\* failing on the way there or on the way back.
UpdatePeer(val, step) ==
  /\ \/ /\ Save(val)
        /\ pc' = [pc EXCEPT !["peer"] = step]
        /\ obj' = IF step = "fetch" THEN NoObj
                  ELSE [name |-> obj.name, copy |-> [ver |-> obj.copy.ver + 1, val |-> val]]
        /\ UNCHANGED <<peerQueue, faults>>
     \/ /\ ~PeerAPI!Accepts(obj.name, obj.copy.ver)
        /\ GiveUp
        /\ UNCHANGED <<peerStore, peerStream, issued, faults>>
     \/ /\ Fault
        /\ GiveUp
        /\ UNCHANGED <<peerStore, peerStream, issued>>
     \/ /\ Fault
        /\ Save(val)
        /\ GiveUp
  /\ UNCHANGED <<peerCache, ruleVars, cfg, plan, pool, device, edits>>

\* Mutant: the address is added to those there are.
WithAddress_Added(val, a) ==
  [spec |-> val.spec, status |-> [address |-> a,
     addresses |-> {a} \cup (IF Addressed(val) THEN val.status.addresses ELSE {})]]

WithAddress(val, a) ==
  [spec |-> val.spec, status |-> [address |-> a, addresses |-> {a}]]

\* "migrating peer status Address -> Addresses"; the code then goes on to
\* assign an address all the same.
Migrate ==
  /\ pc["peer"] = "migrate"
  /\ UpdatePeer(WithAddress(obj.copy.val, obj.copy.val.status.address), "status")

SetStatus ==
  /\ pc["peer"] = "status"
  /\ \E a \in pool : UpdatePeer(WithAddress(obj.copy.val, a), "fetch")

-----------------------------------------------------------------------------
\* RulesReconciler: any rule that exists stands for a full WGASync.
TakeRule(r) ==
  /\ pc["rule"] = "idle"
  /\ RuleAPI!Take(r)
  /\ pc' = [pc EXCEPT !["rule"] = IF ruleCache[r].val = Absent THEN "idle" ELSE "fetch"]
  /\ UNCHANGED <<ruleStore, ruleStream, ruleCache, peerVars, obj, cfg, plan,
                 pool, device, issued, edits, faults>>

\* WGASync. Its errors are logged and forgotten: Reconcile returns nil, so the
\* name is not queued again.
Abort(w) ==
  /\ Fault
  /\ pc' = [pc EXCEPT ![w] = "idle"]
  /\ cfg' = [cfg EXCEPT ![w] = NoConfig]
  /\ plan' = [plan EXCEPT ![w] = NoPlan]
  /\ UNCHANGED device

Fetch(w) ==
  /\ pc[w] = "fetch"
  /\ \/ /\ cfg' = [cfg EXCEPT ![w] = [p \in Peers |-> peerCache[p].val]]
        /\ pc' = [pc EXCEPT ![w] = "read"]
        /\ UNCHANGED <<plan, device, faults>>
     \/ Abort(w)
  /\ UNCHANGED <<peerVars, ruleVars, obj, pool, issued, edits>>

ReadDevice(w) ==
  /\ pc[w] = "read"
  /\ \/ /\ \E last \in LastOf(cfg[w]) :
             plan' = [plan EXCEPT ![w] = Diff(device, Should(cfg[w], last))]
        /\ cfg' = [cfg EXCEPT ![w] = NoConfig]
        /\ pc' = [pc EXCEPT ![w] = "configure"]
        /\ UNCHANGED <<device, faults>>
     \/ Abort(w)
  /\ UNCHANGED <<peerVars, ruleVars, obj, pool, issued, edits>>

Configure(w) ==
  /\ pc[w] = "configure"
  /\ \/ /\ \E owner \in Owners(device, plan[w]) :
             device' = Configured(device, plan[w], owner)
        /\ plan' = [plan EXCEPT ![w] = NoPlan]
        /\ pc' = [pc EXCEPT ![w] = "idle"]
        /\ UNCHANGED <<cfg, faults>>
     \/ Abort(w)
  /\ UNCHANGED <<peerVars, ruleVars, obj, pool, issued, edits>>

-----------------------------------------------------------------------------
\* A new process: wgaInit deletes the device and makes an empty one, the
\* informers list both kinds, and only then do the workers start.
Boot ==
  /\ PeerAPI!Relist
  /\ RuleAPI!Relist
  /\ pc' = [w \in Workers |-> "idle"]
  /\ obj' = NoObj
  /\ cfg' = [w \in Workers |-> NoConfig]
  /\ plan' = [w \in Workers |-> NoPlan]
  /\ device' = EmptyDevice
  /\ UNCHANGED <<pool, issued, edits>>

Restart == Fault /\ Boot

\* addrs[0] of an empty list: no IPv6 client network is configured.
Panic ==
  /\ pc["peer"] = "status"
  /\ pool = {}
  /\ Boot
  /\ UNCHANGED faults

-----------------------------------------------------------------------------
PeerWork == Migrate \/ SetStatus \/ Panic \/ Fetch("peer") \/ ReadDevice("peer") \/ Configure("peer")
RuleWork == Fetch("rule") \/ ReadDevice("rule") \/ Configure("rule")

Next ==
  \/ \E p \in Peers, spec \in Specs : CreatePeer(p, spec) \/ EditPeer(p, spec)
  \/ \E p \in Peers : DeletePeer(p)
  \/ \E r \in Rules, spec \in RuleSpecs : PutRule(r, spec)
  \/ \E r \in Rules : DeleteRule(r)
  \/ DeliverPeer \/ DeliverRule
  \/ ResyncPeers \/ ResyncRules
  \/ \E p \in Peers : TakePeer(p)
  \/ \E r \in Rules : TakeRule(r)
  \/ PeerWork \/ RuleWork
  \/ Restart

\* Go schedules every goroutine again and again. The work queue is first in,
\* first out, so a name that stays queued is taken even if others keep coming.
Fairness ==
  /\ WF_vars(DeliverPeer) /\ WF_vars(DeliverRule)
  /\ WF_vars(PeerWork) /\ WF_vars(RuleWork)
  /\ \A p \in Peers : SF_vars(TakePeer(p))
  /\ \A r \in Rules : SF_vars(TakeRule(r))

\* The informers resync every ten hours (manager.Options{} keeps the default).
Resyncs == WF_vars(ResyncPeers) /\ WF_vars(ResyncRules)

Spec == Init /\ [][Next]_vars
FairSpec == Spec /\ Fairness

-----------------------------------------------------------------------------
PCs == [Workers -> {"idle", "migrate", "status", "fetch", "read", "configure"}]
Configs == [Peers -> PeerValues \cup {Absent}]
Issues == [key : Keys \cup {BadKey}, psk : Psks \cup {BadKey}, ips : SUBSET Addrs]

\* Every variable has its type, and the worker's object is there exactly
\* while PeerReconciler.Reconcile works on it.
TypeOK ==
  /\ PeerAPI!TypeOK
  /\ RuleAPI!TypeOK
  /\ pool \in Pools
  /\ pc \in PCs
  /\ obj \in PeerAPI!Event \cup {NoObj}
  /\ pc["peer"] \in {"migrate", "status"} <=> obj # NoObj
  /\ cfg \in [Workers -> Configs]
  /\ plan \in [Workers -> Plans]
  /\ device \in Devices
  /\ issued \subseteq Issues
  /\ edits \in 0..MaxEdits
  /\ faults \in 0..MaxFaults

\* Whatever the device lets a key send from, some version of some peer object
\* asked for in one piece: this key, this preshared key and at least these
\* addresses. No interleaving of the two unsynchronised wgaSync runs, no
\* stale list and no stale diff mixes two peers, or two versions of one peer.
Granted(k, entry) ==
  \E i \in issued : i.key = k /\ i.psk = entry.psk /\ entry.ips \subseteq i.ips
DeviceOnlyIssued == \A k \in Keys : device[k] # NoPeer => Granted(k, device[k])

\* PeerReconciler.Reconcile gives a peer its addresses once: while the object
\* lives nothing changes them, whatever is stale, refused, retried or cut off
\* by a restart. Peers of an older release are the exception the code makes
\* (see Migrate).
Lives(p) == peerStore[p].val # Absent /\ peerStore'[p].val # Absent
LeaseStable ==
  [][\A p \in Peers \ LegacyPeers :
       Lives(p) /\ Addressed(peerStore[p].val)
         => peerStore'[p].val.status = peerStore[p].val.status]_vars

\* PeerReconciler.Reconcile writes the whole object back, spec included, from
\* a copy it read earlier. That never undoes a user's edit, and never brings
\* back a deleted peer.
NoLostEdit ==
  [][edits' = edits =>
       \A p \in Peers :
         /\ peerStore[p].val = Absent <=> peerStore'[p].val = Absent
         /\ Lives(p) => peerStore'[p].val.spec = peerStore[p].val.spec]_vars

\* PeerReconciler.Reconcile, seen from whoever creates a peer, is AddressLease:
\* of all the steps of users, caches, queues, updates that are refused or whose
\* answer is lost, and restarts, each leaves the peers with their addresses as
\* they are, or changes one of them as AddressLease allows.
LeaseOf(val) ==
  IF val = Absent THEN Absent
  ELSE [spec |-> val.spec, addrs |-> IF val.status = NoStatus THEN {} ELSE val.status.addresses]
Lease == INSTANCE AddressLease WITH
  Moved <- LegacyPeers, NoLease <- Absent, lease <- [p \in Peers |-> LeaseOf(peerStore[p].val)]
ImplementsLease == Lease!Spec

\* PeerReconciler.Reconcile answers every peer: a peer that exists gets an
\* address or is deleted first, because a conflict or a lost answer is returned
\* as an error and the name is tried again.
WantsAddress(p) == peerStore[p].val # Absent /\ ~Addressed(peerStore[p].val)
EveryPeerAddressed ==
  \A p \in Peers : (pool # {} /\ WantsAddress(p)) ~> ~WantsAddress(p)

\* The same without the condition on the networks: README.md says of
\* endpoint.clientCIDR, whatever its family, that addresses are allocated
\* from it.
AnyPoolAllocates == \A p \in Peers : WantsAddress(p) ~> ~WantsAddress(p)

\* As long as some rule exists, each resync of it is a WGASync, and the device
\* settles on the objects in the API server, whatever came before: edits and
\* deletions no reconcile answers, stale lists, failed syncs, two workers
\* configuring the device from different snapshots, restarts. (Without IPv6
\* networks the process may restart for ever, see Panic.)
Stored == [p \in Peers |-> peerStore[p].val]
SomeRule == \E r \in Rules : ruleStore[r].val # Absent
Converges == Resyncs /\ pool # {} /\ <>[]SomeRule => <>[]Shows(device, Stored)

\* wgaSync and nftSync pass over a peer without a status because it "will be
\* reconciled later" (operator/nft.go): a peer that keeps an address and valid
\* keys is configured on the device at some time, with or without rules, resync
\* included.
Settled(p) == /\ peerStore[p].val # Absent
              /\ Addressed(peerStore[p].val)
              /\ peerStore[p].val.spec \in [pub : Keys, psk : Psks]
SkippedIsReconciled ==
  Resyncs => \A p \in Peers :
    <>[]Settled(p) => <>(Settled(p) /\ device[peerStore[p].val.spec.pub] # NoPeer)
=============================================================================
