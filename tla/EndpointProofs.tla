--------------------------- MODULE EndpointProofs ---------------------------
(***************************************************************************)
(* Endpoint for any peers, rules, keys, addresses and bounds.              *)
(***************************************************************************)
EXTENDS Endpoint, TLAPS

PeerFacts == INSTANCE KubeProofs WITH
  Names <- Peers, Values <- PeerValues,
  store <- peerStore, stream <- peerStream, cache <- peerCache, queue <- peerQueue

RuleFacts == INSTANCE KubeProofs WITH
  Names <- Rules, Values <- RuleSpecs,
  store <- ruleStore, stream <- ruleStream, cache <- ruleCache, queue <- ruleQueue

-----------------------------------------------------------------------------
(* The lemmas of KubeProofs, for the two kinds of objects of Endpoint. *)

\* The peer kind of Endpoint and of KubeProofs take the same steps.
LEMMA SamePeerNext ==
  [PeerAPI!Next]_peerVars <=> [PeerFacts!Next]_(PeerFacts!vars)
BY DEF peerVars, PeerAPI!Next, PeerFacts!Next, PeerFacts!vars,
       PeerAPI!Present, PeerFacts!Present, PeerAPI!Write, PeerFacts!Write,
       PeerAPI!Accepts, PeerFacts!Accepts, PeerAPI!Create, PeerFacts!Create,
       PeerAPI!Update, PeerFacts!Update, PeerAPI!Delete, PeerFacts!Delete,
       PeerAPI!Arrive, PeerFacts!Arrive, PeerAPI!List, PeerFacts!List

\* So do the two instances for rules.
LEMMA SameRuleNext ==
  [RuleAPI!Next]_ruleVars <=> [RuleFacts!Next]_(RuleFacts!vars)
BY DEF ruleVars, RuleAPI!Next, RuleFacts!Next, RuleFacts!vars,
       RuleAPI!Present, RuleFacts!Present, RuleAPI!Write, RuleFacts!Write,
       RuleAPI!Accepts, RuleFacts!Accepts, RuleAPI!Create, RuleFacts!Create,
       RuleAPI!Update, RuleFacts!Update, RuleAPI!Delete, RuleFacts!Delete,
       RuleAPI!Arrive, RuleFacts!Arrive, RuleAPI!List, RuleFacts!List

\* TypeStep of KubeProofs for peers.
LEMMA PeerTypeStep ==
  ASSUME PeerAPI!TypeOK, [PeerAPI!Next]_peerVars
  PROVE  PeerAPI!TypeOK'
BY SamePeerNext, PeerFacts!TypeStep
   DEF PeerAPI!TypeOK, PeerFacts!TypeOK, PeerAPI!Copy, PeerFacts!Copy,
       PeerAPI!Event, PeerFacts!Event

\* TypeStep of KubeProofs for rules.
LEMMA RuleTypeStep ==
  ASSUME RuleAPI!TypeOK, [RuleAPI!Next]_ruleVars
  PROVE  RuleAPI!TypeOK'
BY SameRuleNext, RuleFacts!TypeStep
   DEF RuleAPI!TypeOK, RuleFacts!TypeOK, RuleAPI!Copy, RuleFacts!Copy,
       RuleAPI!Event, RuleFacts!Event

\* FaithfulStep of KubeProofs for peers.
LEMMA PeerFaithfulStep ==
  ASSUME PeerAPI!TypeOK, [PeerAPI!Next]_peerVars,
         NEW e \in PeerAPI!Event, PeerAPI!Faithful(e)
  PROVE  PeerAPI!Faithful(e)'
BY SamePeerNext, PeerFacts!FaithfulStep
   DEF PeerAPI!TypeOK, PeerFacts!TypeOK, PeerAPI!Copy, PeerFacts!Copy,
       PeerAPI!Event, PeerFacts!Event, PeerAPI!Faithful, PeerFacts!Faithful

\* CopiesGrow of KubeProofs for peers.
LEMMA PeerCopiesGrow ==
  ASSUME PeerAPI!TypeOK, [PeerAPI!Next]_peerVars
  PROVE  PeerAPI!Copies' \subseteq PeerAPI!Copies \cup PeerAPI!Current'
BY SamePeerNext, PeerFacts!CopiesGrow
   DEF PeerAPI!TypeOK, PeerFacts!TypeOK, PeerAPI!Copy, PeerFacts!Copy,
       PeerAPI!Event, PeerFacts!Event, PeerAPI!Copies, PeerFacts!Copies,
       PeerAPI!Current, PeerFacts!Current

\* CopiesTyped of KubeProofs for peers.
LEMMA PeerCopiesTyped ==
  ASSUME PeerAPI!TypeOK
  PROVE  PeerAPI!Copies \subseteq PeerAPI!Event
BY PeerFacts!CopiesTyped
   DEF PeerAPI!TypeOK, PeerFacts!TypeOK, PeerAPI!Copy, PeerFacts!Copy,
       PeerAPI!Event, PeerFacts!Event, PeerAPI!Copies, PeerFacts!Copies,
       PeerAPI!Current, PeerFacts!Current

-----------------------------------------------------------------------------
(* Types. *)

\* What the peer worker knows of the object it holds.
ObjPhase ==
  obj # NoObj => /\ obj.copy.val # Absent
                 /\ pc["peer"] = "migrate" => OldAddress(obj.copy.val)

\* The allowed IPs of a status are addresses.
LEMMA IpsTyped ==
  ASSUME NEW status \in Statuses
  PROVE  Ips(status) \in SUBSET Addrs
BY DEF Ips, Statuses

\* What a typed peer asks the device for is typed.
LEMMA IssueTyped ==
  ASSUME NEW val \in PeerValues
  PROVE  Issue(val) \in Issues
<1>1. val.spec \in [pub : Keys \cup {BadKey}, psk : Psks \cup {BadKey}] /\ val.status \in Statuses
  BY SpecsTyped DEF PeerValues
<1> QED
  BY <1>1, IpsTyped DEF Issue, Issues

\* The peers wgaSync wants on the device are a device.
LEMMA ShouldTyped ==
  ASSUME NEW c \in Configs, NEW last \in LastOf(c)
  PROVE  Should(c, last) \in Devices
<1>1. ASSUME NEW k \in Keys, Claimants(c, k) # {}
      PROVE  EntryOf(c[last[k]]) \in Entries
  <2>1. last[k] \in Claimants(c, k)
    BY <1>1 DEF LastOf
  <2>2. c[last[k]] \in PeerValues /\ c[last[k]].spec.psk \in Psks
    BY <2>1 DEF Claimants, Configs
  <2> QED
    BY <2>2, IpsTyped DEF EntryOf, Entries, PeerValues
<1> QED
  BY <1>1 DEF Should, Devices

\* The difference of two devices is a plan.
LEMMA DiffTyped ==
  ASSUME NEW have \in Devices, NEW should \in Devices
  PROVE  Diff(have, should) \in Plans
BY DEF Diff, Devices, Plans, OpFor

\* Having computed nothing is a plan.
LEMMA NoPlanTyped == NoPlan \in Plans
BY DEF NoPlan, Plans

\* Applying a plan to a device gives a device.
LEMMA ConfiguredTyped ==
  ASSUME NEW dev \in Devices, NEW pl \in Plans, NEW owner
  PROVE  Configured(dev, pl, owner) \in Devices
<1>1. ASSUME NEW k \in Keys, k \in Touched(dev, pl)
      PROVE  [psk |-> pl[k].entry.psk, ips |-> {a \in pl[k].entry.ips : owner[a] = k}] \in Entries
  <2>1. pl[k].entry \in Entries
    BY <1>1 DEF Touched, Plans
  <2> QED
    BY <2>1 DEF Entries
<1>2. ASSUME NEW k \in Keys, dev[k] # NoPeer
      PROVE  [psk |-> dev[k].psk, ips |-> {a \in dev[k].ips : Wanting(dev, pl, a) = {}}] \in Entries
  <2>1. dev[k] \in Entries
    BY <1>2 DEF Devices
  <2> QED
    BY <2>1 DEF Entries
<1> QED
  BY <1>1, <1>2 DEF Configured, Devices

\* What the peer worker writes is a peer.
LEMMA WrittenTyped ==
  ASSUME TypeOK, ObjPhase, obj # NoObj,
         NEW a, \/ pc["peer"] = "status" /\ a \in pool
                \/ pc["peer"] = "migrate" /\ a = obj.copy.val.status.address
  PROVE  /\ obj.name \in Peers
         /\ obj.copy.ver \in Nat
         /\ obj.copy.val \in PeerValues
         /\ WithAddress(obj.copy.val, a) \in PeerValues
         /\ a \in Addrs
<1>1. obj \in PeerAPI!Event
  BY DEF TypeOK
<1>2. obj.name \in Peers /\ obj.copy.ver \in Nat /\ obj.copy.val \in PeerValues
  BY <1>1 DEF PeerAPI!Event, PeerAPI!Copy, ObjPhase
<1>3. obj.copy.val.spec \in Specs /\ obj.copy.val.status \in Statuses
  BY <1>2 DEF PeerValues
<1>4. a \in Addrs
  <2>1. CASE pc["peer"] = "status" /\ a \in pool
    BY <2>1, PoolsTyped DEF TypeOK
  <2>2. CASE pc["peer"] = "migrate" /\ a = obj.copy.val.status.address
    BY <1>3, <2>2 DEF ObjPhase, OldAddress, Statuses
  <2> QED
    BY <2>1, <2>2
<1> QED
  BY <1>2, <1>3, <1>4 DEF WithAddress, PeerValues, Statuses

\* To the API server, its watch streams and queues, every step of the endpoint
\* and its users is a step of module Kube.
LEMMA PeerSteps ==
  ASSUME TypeOK, ObjPhase, [Next]_vars
  PROVE  [PeerAPI!Next]_peerVars
<1>0. peerQueue \in SUBSET Peers
  BY DEF TypeOK, PeerAPI!TypeOK
<1>1. ASSUME NEW p \in Peers, NEW spec \in Specs, CreatePeer(p, spec)
      PROVE  PeerAPI!Next
  <2>1. [spec |-> spec, status |-> NoStatus] \in PeerValues
    BY DEF PeerValues, Statuses
  <2> QED
    BY <1>0, <1>1, <2>1 DEF CreatePeer, PeerAPI!Next
<1>2. ASSUME NEW p \in Peers, NEW spec \in Specs, EditPeer(p, spec)
      PROVE  PeerAPI!Next
  <2>1. peerStore[p].ver \in Nat /\ peerStore[p].val \in PeerValues
    BY <1>2 DEF EditPeer, TypeOK, PeerAPI!TypeOK, PeerAPI!Copy
  <2>2. [spec |-> spec, status |-> peerStore[p].val.status] \in PeerValues
    BY <2>1 DEF PeerValues
  <2> QED
    BY <1>0, <1>2, <2>1, <2>2 DEF EditPeer, PeerAPI!Next
<1>3. ASSUME NEW p \in Peers, DeletePeer(p)
      PROVE  PeerAPI!Next
  BY <1>0, <1>3 DEF DeletePeer, PeerAPI!Next
<1>4. ASSUME NEW p \in Peers, TakePeer(p)
      PROVE  PeerAPI!Next
  BY <1>0, <1>4 DEF TakePeer, PeerAPI!Next, PeerAPI!Take
<1>5. ASSUME NEW a, NEW step, obj # NoObj,
             \/ pc["peer"] = "status" /\ a \in pool
             \/ pc["peer"] = "migrate" /\ a = obj.copy.val.status.address,
             UpdatePeer(WithAddress(obj.copy.val, a), step)
      PROVE  [PeerAPI!Next]_peerVars
  <2> DEFINE val == WithAddress(obj.copy.val, a)
  <2>1. obj.name \in Peers /\ obj.copy.ver \in Nat /\ val \in PeerValues
    BY <1>5, WrittenTyped
  <2> HIDE DEF val
  <2>2. /\ peerCache' = peerCache
        /\ peerQueue' = peerQueue \/ PeerAPI!Requeue(obj.name)
        /\ \/ PeerAPI!Update(obj.name, obj.copy.ver, val)
           \/ UNCHANGED <<peerStore, peerStream>> /\ PeerAPI!Requeue(obj.name)
    BY <1>5 DEF UpdatePeer, Save, GiveUp, val
  <2>3. peerQueue' \in SUBSET Peers
    BY <1>0, <2>1, <2>2 DEF PeerAPI!Requeue
  <2> QED
    BY <2>1, <2>2, <2>3 DEF PeerAPI!Next
<1>6. CASE Migrate
  BY <1>5, <1>6 DEF Migrate, TypeOK
<1>7. CASE SetStatus
  BY <1>5, <1>7 DEF SetStatus, TypeOK
<1>8. CASE DeliverPeer \/ ResyncPeers
  <2>1. CASE DeliverPeer
    <3>1. PeerAPI!Arrive /\ peerQueue' = peerQueue \cup {Head(peerStream).name}
      BY <2>1 DEF DeliverPeer, PeerAPI!Deliver
    <3>2. Head(peerStream) \in PeerAPI!Event
      BY <3>1 DEF PeerAPI!Arrive, TypeOK, PeerAPI!TypeOK
    <3>3. peerQueue' \in SUBSET Peers
      BY <1>0, <3>1, <3>2 DEF PeerAPI!Event
    <3> QED
      BY <3>1, <3>3 DEF PeerAPI!Next
  <2>2. CASE ResyncPeers
    BY <1>0, <2>2 DEF ResyncPeers, PeerAPI!Next, PeerAPI!Resync
  <2> QED
    BY <1>8, <2>1, <2>2
<1>9. CASE Restart \/ Panic
  BY <1>9 DEF Restart, Panic, Boot, PeerAPI!Next, PeerAPI!Relist
<1>10. CASE \/ DeliverRule \/ ResyncRules \/ RuleWork
            \/ Fetch("peer") \/ ReadDevice("peer") \/ Configure("peer")
            \/ \E r \in Rules : TakeRule(r) \/ DeleteRule(r)
            \/ \E r \in Rules, spec \in RuleSpecs : PutRule(r, spec)
  BY <1>10 DEF DeliverRule, ResyncRules, RuleWork, Fetch, ReadDevice, Configure,
               TakeRule, DeleteRule, PutRule, peerVars
<1>11. CASE UNCHANGED vars
  BY <1>11 DEF vars
<1> QED
  BY <1>1, <1>2, <1>3, <1>4, <1>6, <1>7, <1>8, <1>9, <1>10, <1>11 DEF Next, PeerWork

\* Seen from the rule objects, every step is one of Kube.
LEMMA RuleSteps ==
  ASSUME TypeOK, [Next]_vars
  PROVE  [RuleAPI!Next]_ruleVars
<1>0. ruleQueue \in SUBSET Rules /\ \A r \in Rules : ruleStore[r].ver \in Nat
  BY DEF TypeOK, RuleAPI!TypeOK, RuleAPI!Copy
<1>1. ASSUME NEW r \in Rules, NEW spec \in RuleSpecs, PutRule(r, spec)
      PROVE  RuleAPI!Next
  BY <1>0, <1>1 DEF PutRule, RuleAPI!Next
<1>2. ASSUME NEW r \in Rules, DeleteRule(r) \/ TakeRule(r)
      PROVE  RuleAPI!Next
  BY <1>0, <1>2 DEF DeleteRule, TakeRule, RuleAPI!Next, RuleAPI!Take
<1>3. CASE DeliverRule \/ ResyncRules
  <2>1. CASE DeliverRule
    <3>1. RuleAPI!Arrive /\ ruleQueue' = ruleQueue \cup {Head(ruleStream).name}
      BY <2>1 DEF DeliverRule, RuleAPI!Deliver
    <3>2. Head(ruleStream) \in RuleAPI!Event
      BY <3>1 DEF RuleAPI!Arrive, TypeOK, RuleAPI!TypeOK
    <3>3. ruleQueue' \in SUBSET Rules
      BY <1>0, <3>1, <3>2 DEF RuleAPI!Event
    <3> QED
      BY <3>1, <3>3 DEF RuleAPI!Next
  <2>2. CASE ResyncRules
    BY <1>0, <2>2 DEF ResyncRules, RuleAPI!Next, RuleAPI!Resync
  <2> QED
    BY <1>3, <2>1, <2>2
<1>4. CASE Restart \/ Panic
  BY <1>4 DEF Restart, Panic, Boot, RuleAPI!Next, RuleAPI!Relist
<1>5. CASE \/ DeliverPeer \/ ResyncPeers \/ RuleWork \/ Migrate \/ SetStatus
           \/ Fetch("peer") \/ ReadDevice("peer") \/ Configure("peer")
           \/ \E p \in Peers : TakePeer(p) \/ DeletePeer(p)
           \/ \E p \in Peers, spec \in Specs : CreatePeer(p, spec) \/ EditPeer(p, spec)
  BY <1>5 DEF DeliverPeer, ResyncPeers, RuleWork, Fetch, ReadDevice, Configure, Migrate,
              SetStatus, UpdatePeer, TakePeer, DeletePeer, CreatePeer, EditPeer, ruleVars
<1>6. CASE UNCHANGED vars
  BY <1>6 DEF vars
<1> QED
  BY <1>1, <1>2, <1>3, <1>4, <1>5, <1>6 DEF Next, PeerWork

\* The part of TypeOK that is about the process, the device and the history.
Local ==
  /\ pool \in Pools
  /\ pc \in PCs
  /\ obj \in PeerAPI!Event \cup {NoObj}
  /\ pc["peer"] \in {"migrate", "status"} <=> obj # NoObj
  /\ cfg \in [Workers -> Configs]
  /\ plan \in [Workers -> Plans]
  /\ device \in Devices
  /\ issued \subseteq Issues
  /\ edits \in 0..MaxEdits
  /\ faults \in 0..MaxFaults

\* A failure stays within its bound.
LEMMA FaultTyped ==
  ASSUME faults \in 0..MaxFaults, Fault
  PROVE  faults' \in 0..MaxFaults
BY BoundsTyped DEF Fault

\* A new process starts from typed variables.
LEMMA BootTyped ==
  ASSUME Local, Boot, faults' \in 0..MaxFaults
  PROVE  Local' /\ ObjPhase'
<1>1. NoConfig \in Configs /\ EmptyDevice \in Devices
  BY DEF NoConfig, Configs, EmptyDevice, Devices
<1>2. /\ pc' = [w \in Workers |-> "idle"] /\ obj' = NoObj
      /\ cfg' = [w \in Workers |-> NoConfig] /\ plan' = [w \in Workers |-> NoPlan]
      /\ device' = EmptyDevice /\ UNCHANGED <<pool, issued, edits>>
  BY DEF Boot
<1>3. pc' \in PCs /\ pc'["peer"] = "idle"
  BY <1>2 DEF PCs, Workers
<1> QED
  BY <1>1, <1>2, <1>3, NoPlanTyped DEF Local, ObjPhase

\* A write by a user keeps the types of the rest.
LEMMA UserTyped ==
  ASSUME Local, PeerAPI!TypeOK, ObjPhase, Edit, UNCHANGED <<workVars, pool, device, faults>>,
         \/ issued' = issued
         \/ \E val \in PeerValues : issued' = issued \cup {Issue(val)}
  PROVE  Local' /\ ObjPhase'
<1>1. edits' \in 0..MaxEdits
  BY BoundsTyped DEF Local, Edit
<1>2. issued' \subseteq Issues
  BY IssueTyped DEF Local
<1> QED
  BY <1>1, <1>2 DEF Local, ObjPhase, workVars

\* The beginning of PeerReconciler.Reconcile keeps the types.
LEMMA TakePeerTyped ==
  ASSUME Local, PeerAPI!TypeOK, NEW p \in Peers, TakePeer(p)
  PROVE  Local' /\ ObjPhase'
<1> DEFINE step == FirstStep(peerCache[p].val)
           copy == peerCache[p]
<1>1. /\ pc' = [pc EXCEPT !["peer"] = step]
      /\ obj' = IF step = "idle" THEN NoObj ELSE [name |-> p, copy |-> copy]
      /\ UNCHANGED <<cfg, plan, pool, device, issued, edits, faults>>
  BY DEF TakePeer
<1>2. step \in {"idle", "migrate", "status"}
  BY DEF FirstStep
<1>3. pc' \in PCs /\ pc'["peer"] = step
  BY <1>1, <1>2 DEF Local, PCs, Workers
<1>4. [name |-> p, copy |-> copy] \in PeerAPI!Event
  BY DEF PeerAPI!TypeOK, PeerAPI!Event
<1>5. step # "idle" => copy.val # Absent /\ (step = "migrate" => OldAddress(copy.val))
  BY DEF FirstStep
<1> HIDE DEF step, copy
<1>6. Local'
  BY <1>1, <1>2, <1>3, <1>4, NoObjApart DEF Local
<1>7. ObjPhase'
  BY <1>1, <1>3, <1>5 DEF ObjPhase
<1> QED
  BY <1>6, <1>7

\* client.Update keeps the types, however it ends.
LEMMA UpdateTyped ==
  ASSUME TypeOK, ObjPhase, obj # NoObj,
         NEW a, \/ pc["peer"] = "status" /\ a \in pool
                \/ pc["peer"] = "migrate" /\ a = obj.copy.val.status.address,
         NEW step \in {"status", "fetch"},
         UpdatePeer(WithAddress(obj.copy.val, a), step)
  PROVE  Local' /\ ObjPhase'
<1> DEFINE val == WithAddress(obj.copy.val, a)
           copy == [ver |-> obj.copy.ver + 1, val |-> val]
<1>1. obj.name \in Peers /\ obj.copy.ver \in Nat /\ val \in PeerValues
  BY WrittenTyped
<1>2. val # Absent
  BY <1>1, SentinelsApart DEF PeerValues
<1>3. [name |-> obj.name, copy |-> copy] \in PeerAPI!Event
  BY <1>1 DEF PeerAPI!Event, PeerAPI!Copy
<1> HIDE DEF val
<1>4. UNCHANGED <<cfg, plan, pool, device, edits>> /\ faults' \in 0..MaxFaults
  BY FaultTyped DEF UpdatePeer, TypeOK, val
<1>5. issued' \subseteq Issues
  BY <1>1, IssueTyped DEF UpdatePeer, Save, TypeOK, val
<1>6. \/ /\ pc' = [pc EXCEPT !["peer"] = step]
         /\ obj' = IF step = "fetch" THEN NoObj ELSE [name |-> obj.name, copy |-> copy]
      \/ /\ pc' = [pc EXCEPT !["peer"] = "idle"]
         /\ obj' = NoObj
  BY DEF UpdatePeer, GiveUp, val
<1>7. pc' \in PCs /\ (pc'["peer"] = step \/ pc'["peer"] = "idle")
  BY <1>6 DEF TypeOK, PCs, Workers
<1>8. /\ obj' \in PeerAPI!Event \cup {NoObj}
      /\ pc'["peer"] \in {"migrate", "status"} <=> obj' # NoObj
      /\ obj' # NoObj => pc'["peer"] = "status" /\ obj'.copy.val # Absent
  <2>1. CASE pc' = [pc EXCEPT !["peer"] = "idle"] /\ obj' = NoObj
    BY <2>1 DEF TypeOK, PCs, Workers
  <2>2. CASE /\ pc' = [pc EXCEPT !["peer"] = step]
             /\ obj' = IF step = "fetch" THEN NoObj ELSE [name |-> obj.name, copy |-> copy]
    <3>1. pc'["peer"] = step
      BY <2>2 DEF TypeOK, PCs, Workers
    <3> QED
      BY <1>2, <1>3, <2>2, <3>1, NoObjApart
  <2> QED
    BY <1>6, <2>1, <2>2
<1> QED
  BY <1>4, <1>5, <1>7, <1>8 DEF TypeOK, Local, ObjPhase

\* One step of WGASync.
LEMMA SyncTyped ==
  ASSUME TypeOK, ObjPhase, NEW w \in Workers, Fetch(w) \/ ReadDevice(w) \/ Configure(w)
  PROVE  Local' /\ ObjPhase'
<1>1. NoConfig \in Configs /\ [p \in Peers |-> peerCache[p].val] \in Configs
  BY DEF NoConfig, Configs, TypeOK, PeerAPI!TypeOK, PeerAPI!Copy
<1>2. UNCHANGED <<obj, pool, issued, edits>> /\ faults' \in 0..MaxFaults
  BY FaultTyped DEF Fetch, ReadDevice, Configure, Abort, TypeOK
<1>3. pc[w] \in {"fetch", "read", "configure"}
  BY DEF Fetch, ReadDevice, Configure
<1>4. PICK next \in {"idle", "read", "configure"} : pc' = [pc EXCEPT ![w] = next]
  BY DEF Fetch, ReadDevice, Configure, Abort
<1>5. /\ pc' \in PCs
      /\ w = "peer" => pc["peer"] \notin {"migrate", "status"} /\ pc'["peer"] \notin {"migrate", "status"}
      /\ w # "peer" => pc'["peer"] = pc["peer"]
  BY <1>3, <1>4 DEF TypeOK, PCs, Workers
<1>6. cfg' \in [Workers -> Configs]
  BY <1>1 DEF Fetch, ReadDevice, Configure, Abort, TypeOK
<1>7. plan' \in [Workers -> Plans]
  <2>1. ASSUME NEW last \in LastOf(cfg[w])
        PROVE  Diff(device, Should(cfg[w], last)) \in Plans
    BY ShouldTyped, DiffTyped DEF TypeOK
  <2> QED
    BY <2>1, NoPlanTyped DEF Fetch, ReadDevice, Configure, Abort, TypeOK
<1>8. device' \in Devices
  <2>1. ASSUME NEW owner
        PROVE  Configured(device, plan[w], owner) \in Devices
    BY ConfiguredTyped DEF TypeOK
  <2> QED
    BY <2>1 DEF Fetch, ReadDevice, Configure, Abort, TypeOK
<1> QED
  BY <1>2, <1>5, <1>6, <1>7, <1>8 DEF TypeOK, Local, ObjPhase

\* Every step keeps the types of the process and the device.
LEMMA LocalStep ==
  ASSUME TypeOK, ObjPhase, [Next]_vars
  PROVE  Local' /\ ObjPhase'
<1>1. Local /\ PeerAPI!TypeOK
  BY DEF TypeOK, Local
<1>2. ASSUME NEW p \in Peers, NEW spec \in Specs, CreatePeer(p, spec)
      PROVE  Local' /\ ObjPhase'
  <2>1. [spec |-> spec, status |-> NoStatus] \in PeerValues
    BY DEF PeerValues, Statuses
  <2> QED
    BY <1>1, <1>2, <2>1, UserTyped DEF CreatePeer
<1>3. ASSUME NEW p \in Peers, NEW spec \in Specs, EditPeer(p, spec)
      PROVE  Local' /\ ObjPhase'
  <2>1. [spec |-> spec, status |-> peerStore[p].val.status] \in PeerValues
    BY <1>3 DEF EditPeer, TypeOK, PeerAPI!TypeOK, PeerAPI!Copy, PeerValues
  <2> QED
    BY <1>1, <1>3, <2>1, UserTyped DEF EditPeer
<1>4. CASE \/ \E p \in Peers : DeletePeer(p)
           \/ \E r \in Rules : DeleteRule(r)
           \/ \E r \in Rules, spec \in RuleSpecs : PutRule(r, spec)
  BY <1>1, <1>4, UserTyped DEF DeletePeer, DeleteRule, PutRule
<1>5. CASE DeliverPeer \/ DeliverRule \/ ResyncPeers \/ ResyncRules
  BY <1>1, <1>5
     DEF DeliverPeer, DeliverRule, ResyncPeers, ResyncRules, others, workVars, Local, ObjPhase
<1>6. ASSUME NEW p \in Peers, TakePeer(p)
      PROVE  Local' /\ ObjPhase'
  BY <1>1, <1>6, TakePeerTyped
<1>7. ASSUME NEW r \in Rules, TakeRule(r)
      PROVE  Local' /\ ObjPhase'
  <2>1. pc' \in PCs /\ pc'["peer"] = pc["peer"]
    BY <1>1, <1>7 DEF TakeRule, Local, PCs, Workers
  <2> QED
    BY <1>1, <1>7, <2>1 DEF TakeRule, Local, ObjPhase
<1>8. CASE Migrate
  BY <1>8, UpdateTyped DEF Migrate, TypeOK
<1>9. CASE SetStatus
  BY <1>9, UpdateTyped DEF SetStatus, TypeOK
<1>10. CASE Restart \/ Panic
  BY <1>1, <1>10, FaultTyped, BootTyped DEF Restart, Panic, Local
<1>11. CASE RuleWork \/ Fetch("peer") \/ ReadDevice("peer") \/ Configure("peer")
  BY <1>11, SyncTyped DEF RuleWork, Workers
<1>12. CASE UNCHANGED vars
  BY <1>1, <1>12 DEF vars, workVars, Local, ObjPhase
<1> QED
  BY <1>2, <1>3, <1>4, <1>5, <1>6, <1>7, <1>8, <1>9, <1>10, <1>11, <1>12 DEF Next, PeerWork

\* Every step keeps the type invariant.
LEMMA TypingStep ==
  ASSUME TypeOK, ObjPhase, [Next]_vars
  PROVE  TypeOK' /\ ObjPhase'
<1>1. PeerAPI!TypeOK' /\ RuleAPI!TypeOK'
  BY PeerSteps, PeerTypeStep, RuleSteps, RuleTypeStep DEF TypeOK
<1>2. Local' /\ ObjPhase'
  BY LocalStep
<1> QED
  BY <1>1, <1>2 DEF TypeOK, Local

\* The initial states have the types.
LEMMA InitTyped ==
  ASSUME Init
  PROVE  TypeOK /\ ObjPhase
<1>1. PeerAPI!TypeOK
  BY DEF Init, PeerAPI!Init, PeerAPI!TypeOK, PeerAPI!Copy, PeerAPI!Event, PeerAPI!Present
<1>2. RuleAPI!TypeOK
  BY DEF Init, RuleAPI!Init, RuleAPI!TypeOK, RuleAPI!Copy, RuleAPI!Event, RuleAPI!Present
<1>3. NoConfig \in Configs /\ EmptyDevice \in Devices
  BY DEF NoConfig, Configs, EmptyDevice, Devices
<1>4. issued \subseteq Issues
  <2>1. ASSUME NEW val \in LegacyValues
        PROVE  val \in PeerValues
    BY <2>1 DEF LegacyValues, PeerValues, Statuses
  <2>2. issued \subseteq {Issue(val) : val \in PeerValues}
    BY <2>1, LegacyNamed DEF Init
  <2> QED
    BY <2>2, IssueTyped
<1>5. pc \in PCs /\ pc["peer"] = "idle"
  BY DEF Init, PCs, Workers
<1> QED
  BY <1>1, <1>2, <1>3, <1>4, <1>5, NoPlanTyped, BoundsTyped DEF Init, TypeOK, ObjPhase

\* The type invariant, and the object in hand while there is one.
LEMMA Typing == Spec => [](TypeOK /\ ObjPhase)
<1>1. TypeOK /\ ObjPhase /\ [Next]_vars => (TypeOK /\ ObjPhase)'
  BY TypingStep
<1> QED
  BY <1>1, InitTyped, PTL DEF Spec

\* Every reachable state of the endpoint has the types of TypeOK.
THEOREM TypeCorrect == Spec => []TypeOK
BY Typing, PTL

-----------------------------------------------------------------------------
(* The objects: what the worker holds against what the server holds.       *)

\* A peer that no older release has made has either no status or addresses.
Plain(val) == val # Absent /\ OldAddress(val) => Addressed(val)

CopiesPlain ==
  \A e \in PeerAPI!Copies : e.name \notin LegacyPeers => Plain(e.copy.val)

\* The worker's object is a faithful copy, and one that has no addresses yet.
ObjFaithful ==
  obj # NoObj =>
    /\ PeerAPI!Faithful(obj)
    /\ obj.name \notin LegacyPeers => pc["peer"] = "status" /\ ~Addressed(obj.copy.val)

ObjectsInv ==
  /\ TypeOK
  /\ ObjPhase
  /\ PeerAPI!CopiesFaithful
  /\ CopiesPlain
  /\ ObjFaithful

\* How a step of the endpoint can change the objects: users edit them, or the
\* worker writes what it holds, with an address, over the version it has read.
WorkerWrites(a, step) ==
  /\ obj # NoObj
  /\ \/ pc["peer"] = "status" /\ step = "fetch" /\ a \in pool
     \/ pc["peer"] = "migrate" /\ step = "status" /\ a = obj.copy.val.status.address
  /\ Save(WithAddress(obj.copy.val, a))
  /\ \/ GiveUp
     \/ /\ pc' = [pc EXCEPT !["peer"] = step]
        /\ obj' = IF step = "fetch" THEN NoObj
                  ELSE [name |-> obj.name,
                        copy |-> [ver |-> obj.copy.ver + 1,
                                  val |-> WithAddress(obj.copy.val, a)]]
  /\ edits' = edits

UserWrites ==
  /\ \E p \in Peers : \/ \E spec \in Specs : CreatePeer(p, spec) \/ EditPeer(p, spec)
                      \/ DeletePeer(p)
  /\ edits' = edits + 1
  /\ UNCHANGED workVars

\* What the worker holds after a step that writes no peer.
ObjKept ==
  \/ obj' = NoObj
  \/ obj' = obj /\ pc'["peer"] = pc["peer"]
  \/ \E p \in Peers : TakePeer(p)

\* client.Update either writes the object it holds or leaves the server alone.
LEMMA UpdateOutcomes ==
  ASSUME NEW a, NEW step, obj # NoObj,
         \/ pc["peer"] = "status" /\ step = "fetch" /\ a \in pool
         \/ pc["peer"] = "migrate" /\ step = "status" /\ a = obj.copy.val.status.address,
         UpdatePeer(WithAddress(obj.copy.val, a), step)
  PROVE  WorkerWrites(a, step) \/ (peerStore' = peerStore /\ issued' = issued /\ ObjKept)
<1> DEFINE val == WithAddress(obj.copy.val, a)
<1>1. edits' = edits
  BY DEF UpdatePeer
<1>2. CASE Save(val) /\ GiveUp
  BY <1>1, <1>2 DEF WorkerWrites
<1>3. CASE peerStore' = peerStore /\ issued' = issued /\ GiveUp
  BY <1>3 DEF GiveUp, ObjKept
<1>4. CASE /\ Save(val)
           /\ pc' = [pc EXCEPT !["peer"] = step]
           /\ obj' = IF step = "fetch" THEN NoObj
                     ELSE [name |-> obj.name, copy |-> [ver |-> obj.copy.ver + 1, val |-> val]]
  BY <1>1, <1>4 DEF WorkerWrites
<1> HIDE DEF val
<1>5. UpdatePeer(val, step)
  BY DEF val
<1> QED
  BY <1>2, <1>3, <1>4, <1>5 DEF UpdatePeer

\* Who writes: a user, the worker through client.Update, or nobody.
LEMMA Steps ==
  ASSUME TypeOK, [Next]_vars
  PROVE  \/ UserWrites
         \/ \E a, step : WorkerWrites(a, step)
         \/ peerStore' = peerStore /\ issued' = issued /\ ObjKept
<1>1. CASE \E p \in Peers : \/ \E spec \in Specs : CreatePeer(p, spec) \/ EditPeer(p, spec)
                            \/ DeletePeer(p)
  BY <1>1 DEF UserWrites, CreatePeer, EditPeer, DeletePeer, Edit
<1>2. CASE Migrate
  BY <1>2, UpdateOutcomes DEF Migrate, TypeOK
<1>3. CASE SetStatus
  BY <1>3, UpdateOutcomes DEF SetStatus, TypeOK
<1>4. CASE Restart \/ Panic
  BY <1>4 DEF Restart, Panic, Boot, PeerAPI!Relist, PeerAPI!List, ObjKept
<1>5. CASE \E p \in Peers : TakePeer(p)
  BY <1>5 DEF TakePeer, ObjKept
<1>6. CASE \E r \in Rules : TakeRule(r)
  BY <1>6 DEF TakeRule, peerVars, TypeOK, PCs, Workers, ObjKept
<1>7. ASSUME NEW w \in Workers, Fetch(w) \/ ReadDevice(w) \/ Configure(w)
      PROVE  peerStore' = peerStore /\ issued' = issued /\ ObjKept
  <2>1. /\ peerStore' = peerStore /\ issued' = issued /\ obj' = obj
        /\ pc[w] \in {"fetch", "read", "configure"}
    BY <1>7 DEF Fetch, ReadDevice, Configure, peerVars
  <2>2. CASE w = "peer"
    BY <2>1, <2>2 DEF TypeOK, ObjKept
  <2>3. CASE w = "rule"
    BY <1>7, <2>1, <2>3
       DEF Fetch, ReadDevice, Configure, Abort, TypeOK, PCs, Workers, ObjKept
  <2> QED
    BY <2>1, <2>2, <2>3 DEF Workers
<1>8. CASE RuleWork \/ Fetch("peer") \/ ReadDevice("peer") \/ Configure("peer")
  BY <1>7, <1>8 DEF RuleWork, Workers
<1>9. CASE \/ DeliverRule \/ ResyncRules \/ DeliverPeer \/ ResyncPeers
           \/ \E r \in Rules : DeleteRule(r)
           \/ \E r \in Rules, spec \in RuleSpecs : PutRule(r, spec)
           \/ UNCHANGED vars
  BY <1>9 DEF DeliverRule, ResyncRules, DeliverPeer, ResyncPeers, PeerAPI!Deliver,
              PeerAPI!Arrive, PeerAPI!Resync, others, workVars, DeleteRule, PutRule, peerVars, vars, ObjKept
<1> QED
  BY <1>1, <1>2, <1>3, <1>4, <1>5, <1>6, <1>8, <1>9 DEF Next, PeerWork

\* What the worker writes replaces the very object it has read.
LEMMA WorkerReplaces ==
  ASSUME ObjectsInv, NEW a, NEW step, WorkerWrites(a, step)
  PROVE  /\ obj.name \in Peers
         /\ peerStore[obj.name] = obj.copy
         /\ obj.copy.val \in PeerValues
         /\ WithAddress(obj.copy.val, a) \in PeerValues
         /\ peerStore'[obj.name] = [ver |-> obj.copy.ver + 1, val |-> WithAddress(obj.copy.val, a)]
         /\ peerStore'[obj.name].val = WithAddress(obj.copy.val, a)
         /\ \A p \in Peers \ {obj.name} : peerStore'[p] = peerStore[p]
<1> DEFINE val == WithAddress(obj.copy.val, a)
<1>1. obj.name \in Peers /\ obj.copy.val \in PeerValues /\ val \in PeerValues
  BY WrittenTyped DEF ObjectsInv, WorkerWrites
<1>2. PeerAPI!Update(obj.name, obj.copy.ver, val)
  BY DEF WorkerWrites, Save
<1>3. peerStore[obj.name] = obj.copy
  BY <1>2 DEF PeerAPI!Update, PeerAPI!Accepts, ObjectsInv, ObjFaithful, WorkerWrites, PeerAPI!Faithful
<1> HIDE DEF val
<1>4. peerStore' = [peerStore EXCEPT ![obj.name] = [ver |-> obj.copy.ver + 1, val |-> val]]
  BY <1>2, <1>3 DEF PeerAPI!Update, PeerAPI!Write
<1>5. peerStore'[obj.name] = [ver |-> obj.copy.ver + 1, val |-> val]
  BY <1>1, <1>4 DEF ObjectsInv, TypeOK, PeerAPI!TypeOK
<1>6. peerStore'[obj.name].val = val
  BY <1>5
<1>7. \A p \in Peers \ {obj.name} : peerStore'[p] = peerStore[p]
  BY <1>4 DEF ObjectsInv, TypeOK, PeerAPI!TypeOK
<1> QED
  BY <1>1, <1>3, <1>5, <1>6, <1>7 DEF val

\* Copies of peers stay faithful.
LEMMA CopiesFaithfulStep ==
  ASSUME ObjectsInv, [Next]_vars
  PROVE  PeerAPI!CopiesFaithful'
<1>1. [PeerAPI!Next]_peerVars /\ PeerAPI!TypeOK /\ PeerAPI!TypeOK'
  BY PeerSteps, PeerTypeStep DEF ObjectsInv, TypeOK
<1>2. ASSUME NEW e \in PeerAPI!Copies
      PROVE  PeerAPI!Faithful(e)'
  BY <1>1, PeerCopiesTyped, PeerFaithfulStep DEF ObjectsInv, PeerAPI!CopiesFaithful
<1>3. ASSUME NEW e \in PeerAPI!Current'
      PROVE  PeerAPI!Faithful(e)'
  BY <1>1, <1>3 DEF PeerAPI!Current, PeerAPI!Faithful, PeerAPI!TypeOK, PeerAPI!Copy
<1> QED
  BY <1>1, <1>2, <1>3, PeerCopiesGrow DEF PeerAPI!CopiesFaithful

\* What the server holds is one of the copies.
LEMMA StoreIsCopy ==
  ASSUME NEW p \in Peers
  PROVE  /\ [name |-> p, copy |-> peerStore[p]] \in PeerAPI!Copies
         /\ [name |-> p, copy |-> peerCache[p]] \in PeerAPI!Copies
BY DEF PeerAPI!Copies, PeerAPI!Current

\* A content is not the absence of one.
LEMMA ValuesPresent == \A val \in PeerValues : val # Absent
BY SentinelsApart DEF PeerValues

\* What a user writes leaves the status of the peer alone.
LEMMA UserWritten ==
  ASSUME TypeOK, UserWrites
  PROVE  \E p \in Peers :
           /\ \A q \in Peers \ {p} : peerStore'[q] = peerStore[q]
           /\ \/ peerStore[p].val = Absent /\ peerStore'[p].val.status = NoStatus
              \/ /\ peerStore[p].val # Absent
                 /\ peerStore'[p].val.status = peerStore[p].val.status
              \/ peerStore'[p].val = Absent
<1>1. PICK p \in Peers : \/ \E spec \in Specs : CreatePeer(p, spec) \/ EditPeer(p, spec)
                         \/ DeletePeer(p)
  BY DEF UserWrites
<1>2. ASSUME NEW val, PeerAPI!Write(p, val)
      PROVE  /\ \A q \in Peers \ {p} : peerStore'[q] = peerStore[q]
             /\ peerStore'[p].val = val
  <2>1. peerStore' = [peerStore EXCEPT ![p] = [ver |-> peerStore[p].ver + 1, val |-> val]]
    BY <1>2 DEF PeerAPI!Write
  <2>2. peerStore'[p] = [ver |-> peerStore[p].ver + 1, val |-> val]
    BY <2>1 DEF TypeOK, PeerAPI!TypeOK
  <2>3. peerStore'[p].val = val
    BY <2>2
  <2> QED
    BY <2>1, <2>3 DEF TypeOK, PeerAPI!TypeOK
<1>3. ASSUME NEW spec \in Specs, CreatePeer(p, spec)
      PROVE  /\ \A q \in Peers \ {p} : peerStore'[q] = peerStore[q]
             /\ peerStore[p].val = Absent /\ peerStore'[p].val.status = NoStatus
  <2>1. PeerAPI!Write(p, [spec |-> spec, status |-> NoStatus]) /\ peerStore[p].val = Absent
    BY <1>3 DEF CreatePeer, PeerAPI!Create, PeerAPI!Present
  <2>2. peerStore'[p].val = [spec |-> spec, status |-> NoStatus]
    BY <1>2, <2>1
  <2> QED
    BY <1>2, <2>1, <2>2
<1>4. ASSUME NEW spec \in Specs, EditPeer(p, spec)
      PROVE  /\ \A q \in Peers \ {p} : peerStore'[q] = peerStore[q]
             /\ peerStore[p].val # Absent /\ peerStore'[p].val.status = peerStore[p].val.status
  <2> DEFINE val == [spec |-> spec, status |-> peerStore[p].val.status]
  <2>1. PeerAPI!Write(p, val) /\ peerStore[p].val # Absent
    BY <1>4 DEF EditPeer, PeerAPI!Update
  <2>2. peerStore'[p].val = val
    BY <1>2, <2>1
  <2>3. peerStore'[p].val.status = peerStore[p].val.status
    BY <2>2
  <2> QED
    BY <1>2, <2>1, <2>3
<1>5. CASE DeletePeer(p)
  BY <1>2, <1>5 DEF DeletePeer, PeerAPI!Delete
<1> QED
  BY <1>1, <1>3, <1>4, <1>5

\* What an address assignment changes of a peer.
LEMMA WithAddressFields ==
  ASSUME NEW val, NEW a
  PROVE  /\ WithAddress(val, a).spec = val.spec
         /\ WithAddress(val, a).status # NoStatus => Addressed(WithAddress(val, a))
BY DEF WithAddress, Addressed

\* Peers of this release have the status that Reconcile writes, or none.
LEMMA CopiesPlainStep ==
  ASSUME ObjectsInv, [Next]_vars
  PROVE  CopiesPlain'
<1>1. [PeerAPI!Next]_peerVars /\ PeerAPI!TypeOK
  BY PeerSteps DEF ObjectsInv, TypeOK
<1>2. ASSUME NEW p \in Peers \ LegacyPeers
      PROVE  Plain(peerStore'[p].val)
  <2>1. Plain(peerStore[p].val)
    BY StoreIsCopy DEF ObjectsInv, CopiesPlain
  <2>2. CASE UserWrites
    <3>1. PICK u \in Peers :
             /\ \A q \in Peers \ {u} : peerStore'[q] = peerStore[q]
             /\ \/ peerStore'[u].val.status = NoStatus
                \/ /\ peerStore[u].val # Absent
                   /\ peerStore'[u].val.status = peerStore[u].val.status
                \/ peerStore'[u].val = Absent
      BY <2>2, UserWritten DEF ObjectsInv
    <3>2. CASE p = u
      BY <2>1, <3>1, <3>2 DEF Plain, OldAddress, Addressed
    <3>3. CASE p # u
      BY <2>1, <3>1, <3>3
    <3> QED
      BY <3>2, <3>3
  <2>3. ASSUME NEW a, NEW step, WorkerWrites(a, step)
        PROVE  Plain(peerStore'[p].val)
    <3>1. CASE p = obj.name
      <4>1. peerStore'[p].val = WithAddress(obj.copy.val, a)
        BY <2>3, <3>1, WorkerReplaces
      <4> QED
        BY <4>1, WithAddressFields DEF Plain, OldAddress
    <3>2. CASE p # obj.name
      BY <2>1, <2>3, <3>2, WorkerReplaces
    <3> QED
      BY <3>1, <3>2
  <2> QED
    BY <2>1, <2>2, <2>3, Steps DEF ObjectsInv
<1>3. ASSUME NEW e \in PeerAPI!Current', e.name \notin LegacyPeers
      PROVE  Plain(e.copy.val)
  BY <1>2, <1>3 DEF PeerAPI!Current
<1> QED
  BY <1>1, <1>3, PeerCopiesGrow DEF ObjectsInv, CopiesPlain

\* The object in hand stays a faithful copy without addresses.
LEMMA ObjFaithfulStep ==
  ASSUME ObjectsInv, [Next]_vars
  PROVE  ObjFaithful'
<1>1. [PeerAPI!Next]_peerVars /\ PeerAPI!TypeOK /\ PeerAPI!TypeOK' /\ PeerAPI!CopiesFaithful'
  BY PeerSteps, PeerTypeStep, CopiesFaithfulStep DEF ObjectsInv, TypeOK
<1>2. CASE obj' = NoObj
  BY <1>2 DEF ObjFaithful
<1>3. CASE obj' = obj /\ pc'["peer"] = pc["peer"] /\ obj # NoObj
  <2>1. obj \in PeerAPI!Event
    BY <1>3 DEF ObjectsInv, TypeOK
  <2>2. PeerAPI!Faithful(obj)'
    BY <1>1, <1>3, <2>1, PeerFaithfulStep DEF ObjectsInv, ObjFaithful, PeerAPI!Faithful
  <2> QED
    BY <1>3, <2>2 DEF ObjectsInv, ObjFaithful
<1>4. ASSUME NEW p \in Peers, TakePeer(p), obj' # NoObj
      PROVE  ObjFaithful'
  <2> DEFINE e == [name |-> p, copy |-> peerCache[p]]
             step == FirstStep(peerCache[p].val)
  <2>1. obj' = e /\ step # "idle" /\ UNCHANGED <<peerStore, peerCache>>
    BY <1>4 DEF TakePeer
  <2>2. pc'["peer"] = step
    BY <1>4 DEF TakePeer, ObjectsInv, TypeOK, PCs, Workers
  <2>3. PeerAPI!Faithful(e) /\ (p \notin LegacyPeers => Plain(peerCache[p].val))
    BY StoreIsCopy DEF ObjectsInv, PeerAPI!CopiesFaithful, CopiesPlain
  <2>4. PeerAPI!Faithful(obj)'
    BY <2>1, <2>3 DEF PeerAPI!Faithful
  <2>5. p \notin LegacyPeers => step = "status" /\ ~Addressed(peerCache[p].val)
    BY <2>1, <2>3 DEF FirstStep, Plain
  <2> QED
    BY <2>1, <2>2, <2>4, <2>5 DEF ObjFaithful
<1>5. ASSUME NEW a, NEW step, WorkerWrites(a, step), obj' # NoObj
      PROVE  ObjFaithful'
  <2>1. /\ pc["peer"] = "migrate" /\ step = "status"
        /\ obj' = [name |-> obj.name,
                   copy |-> [ver |-> obj.copy.ver + 1, val |-> WithAddress(obj.copy.val, a)]]
    BY <1>5 DEF WorkerWrites, GiveUp
  <2>2. peerStore'[obj.name] = obj'.copy /\ obj'.name = obj.name
    BY <1>5, <2>1, WorkerReplaces
  <2>3. PeerAPI!Faithful(obj)'
    <3>1. obj.name \in Peers
      BY <1>5, WorkerReplaces
    <3>2. peerStore'[obj.name].ver \in Nat
      BY <1>1, <3>1 DEF PeerAPI!TypeOK, PeerAPI!Copy
    <3> QED
      BY <2>2, <3>2 DEF PeerAPI!Faithful
  <2>4. obj.name \in LegacyPeers
    BY <1>5, <2>1 DEF ObjectsInv, ObjFaithful, WorkerWrites
  <2> QED
    BY <2>2, <2>3, <2>4 DEF ObjFaithful
<1>6. CASE UserWrites
  BY <1>2, <1>3, <1>6 DEF UserWrites, workVars
<1> QED
  BY <1>2, <1>3, <1>4, <1>5, <1>6, Steps DEF ObjectsInv, ObjKept

\* The invariant about objects holds initially.
LEMMA ObjectsInit ==
  ASSUME Init
  PROVE  ObjectsInv
<1>1. TypeOK /\ ObjPhase /\ ObjFaithful
  BY InitTyped DEF Init, ObjFaithful
<1>2. PeerAPI!Copies = PeerAPI!Current
  BY DEF Init, PeerAPI!Init, PeerAPI!Copies, PeerAPI!Current
<1>3. PeerAPI!CopiesFaithful
  BY <1>1, <1>2 DEF PeerAPI!CopiesFaithful, PeerAPI!Current, PeerAPI!Faithful,
                   TypeOK, PeerAPI!TypeOK, PeerAPI!Copy
<1>4. CopiesPlain
  BY <1>2 DEF CopiesPlain, PeerAPI!Current, Init, Plain
<1> QED
  BY <1>1, <1>3, <1>4 DEF ObjectsInv

\* The invariant about objects holds.
LEMMA ObjectsSafe == Spec => []ObjectsInv
<1>1. ObjectsInv /\ [Next]_vars => ObjectsInv'
  BY TypingStep, CopiesFaithfulStep, CopiesPlainStep, ObjFaithfulStep DEF ObjectsInv
<1> QED
  BY <1>1, ObjectsInit, PTL DEF Spec

\* Everything the process reads, or has read and holds while it works on it,
\* is a copy the server wrote under that version: an Update made from it that
\* is accepted replaces that very content.
THEOREM NothingForged ==
  Spec => [](PeerAPI!CopiesFaithful /\ (obj # NoObj => PeerAPI!Faithful(obj)))
<1>1. ObjectsInv => PeerAPI!CopiesFaithful /\ (obj # NoObj => PeerAPI!Faithful(obj))
  BY DEF ObjectsInv, ObjFaithful
<1> QED
  BY <1>1, ObjectsSafe, PTL

\* A peer that has addresses keeps them as long as it exists, whatever is
\* stale, refused, retried or cut off (LeaseStable of Endpoint).
THEOREM AddressesKept == Spec => LeaseStable
<1> DEFINE Kept == \A p \in Peers \ LegacyPeers :
                     Lives(p) /\ Addressed(peerStore[p].val)
                       => peerStore'[p].val.status = peerStore[p].val.status
<1>1. ASSUME ObjectsInv, [Next]_vars
      PROVE  Kept
  <2> SUFFICES ASSUME NEW p \in Peers \ LegacyPeers, Lives(p), Addressed(peerStore[p].val)
               PROVE  peerStore'[p].val.status = peerStore[p].val.status
    OBVIOUS
  <2>1. CASE UserWrites
    <3>1. PICK u \in Peers :
             /\ \A q \in Peers \ {u} : peerStore'[q] = peerStore[q]
             /\ \/ peerStore[u].val = Absent
                \/ peerStore'[u].val.status = peerStore[u].val.status
                \/ peerStore'[u].val = Absent
      BY <1>1, <2>1, UserWritten DEF ObjectsInv
    <3>2. CASE p = u
      BY <3>1, <3>2 DEF Lives
    <3>3. CASE p # u
      BY <3>1, <3>3
    <3> QED
      BY <3>2, <3>3
  <2>2. ASSUME NEW a, NEW step, WorkerWrites(a, step)
        PROVE  peerStore'[p] = peerStore[p]
    <3>1. p # obj.name
      BY <1>1, <2>2, WorkerReplaces DEF ObjectsInv, ObjFaithful, WorkerWrites
    <3> QED
      BY <1>1, <2>2, <3>1, WorkerReplaces
  <2> QED
    BY <1>1, <2>1, <2>2, Steps DEF ObjectsInv
<1>2. ObjectsInv /\ [Next]_vars => [Kept]_vars
  BY <1>1
<1> QED
  BY <1>2, ObjectsSafe, PTL DEF Spec, LeaseStable

\* The reconciler's write of a whole object never undoes an edit and never
\* brings a deleted peer back (NoLostEdit of Endpoint).
THEOREM EditsKept == Spec => NoLostEdit
<1> DEFINE Kept == edits' = edits =>
                     \A p \in Peers :
                       /\ peerStore[p].val = Absent <=> peerStore'[p].val = Absent
                       /\ Lives(p) => peerStore'[p].val.spec = peerStore[p].val.spec
<1>1. ASSUME ObjectsInv, [Next]_vars
      PROVE  Kept
  <2> SUFFICES ASSUME edits' = edits, NEW p \in Peers
               PROVE  /\ peerStore[p].val = Absent <=> peerStore'[p].val = Absent
                      /\ Lives(p) => peerStore'[p].val.spec = peerStore[p].val.spec
    OBVIOUS
  <2>1. ~UserWrites
    BY <1>1 DEF UserWrites, ObjectsInv, TypeOK
  <2>2. ASSUME NEW a, NEW step, WorkerWrites(a, step)
        PROVE  /\ peerStore[p].val = Absent <=> peerStore'[p].val = Absent
               /\ Lives(p) => peerStore'[p].val.spec = peerStore[p].val.spec
    <3>1. CASE p = obj.name
      <4>1. peerStore[p].val = obj.copy.val /\ peerStore'[p].val = WithAddress(obj.copy.val, a)
        BY <1>1, <2>2, <3>1, WorkerReplaces
      <4>2. peerStore[p].val # Absent /\ peerStore'[p].val # Absent
        BY <1>1, <2>2, <4>1, WorkerReplaces, ValuesPresent
      <4> QED
        BY <4>1, <4>2, WithAddressFields
    <3>2. CASE p # obj.name
      BY <1>1, <2>2, <3>2, WorkerReplaces
    <3> QED
      BY <3>1, <3>2
  <2> QED
    BY <1>1, <2>1, <2>2, Steps DEF ObjectsInv
<1>2. ObjectsInv /\ [Next]_vars => [Kept]_vars
  BY <1>1
<1> QED
  BY <1>2, ObjectsSafe, PTL DEF Spec, NoLostEdit

-----------------------------------------------------------------------------
(* The refinement: the stored peers are the leases of AddressLease.        *)

Leased == [p \in Peers |-> LeaseOf(peerStore[p].val)]

\* The lease of a peer that exists.
LEMMA LeaseOfPresent ==
  ASSUME NEW val \in PeerValues
  PROVE  /\ LeaseOf(val) # Absent
         /\ LeaseOf(val).spec = val.spec /\ val.spec \in Specs
         /\ LeaseOf(val).addrs # {} <=> Addressed(val)
         /\ LeaseOf(val) = [spec |-> val.spec, addrs |-> LeaseOf(val).addrs]
<1>1. val # Absent /\ val.spec \in Specs /\ val.status \in Statuses
  BY ValuesPresent DEF PeerValues
<1>2. LeaseOf(val) = [spec |-> val.spec,
                      addrs |-> IF val.status = NoStatus THEN {} ELSE val.status.addresses]
  BY <1>1 DEF LeaseOf
<1>3. LeaseOf(val).addrs \in SUBSET Addrs
  BY <1>1, <1>2 DEF Statuses
<1>4. LeaseOf(val) \in [spec : Specs, addrs : SUBSET Addrs]
  BY <1>1, <1>2, <1>3
<1>5. LeaseOf(val) # Absent
  BY <1>4, SentinelsApart
<1> QED
  BY <1>1, <1>2, <1>5 DEF Addressed

\* A user's write is a Request, an Amend or an End, or what a lease does not show.
LEMMA UserRefines ==
  ASSUME TypeOK, TypeOK', UserWrites
  PROVE  Lease!Next \/ Leased' = Leased
<1>1. PICK p \in Peers :
         /\ \A q \in Peers \ {p} : peerStore'[q] = peerStore[q]
         /\ \/ peerStore[p].val = Absent /\ peerStore'[p].val.status = NoStatus
            \/ /\ peerStore[p].val # Absent
               /\ peerStore'[p].val.status = peerStore[p].val.status
            \/ peerStore'[p].val = Absent
  BY UserWritten
<1> DEFINE old == peerStore[p].val
           new == peerStore'[p].val
<1>2. old \in PeerValues \cup {Absent} /\ new \in PeerValues \cup {Absent}
  BY DEF TypeOK, PeerAPI!TypeOK, PeerAPI!Copy
<1>3. Leased' = [Leased EXCEPT ![p] = LeaseOf(new)]
  BY <1>1 DEF Leased
<1>4. Leased[p] = LeaseOf(old)
  BY DEF Leased
<1> HIDE DEF old, new
<1>5. CASE old = Absent /\ new \in PeerValues /\ new.status = NoStatus
  <2>1. LeaseOf(new) = [spec |-> new.spec, addrs |-> {}] /\ new.spec \in Specs
    BY <1>5, ValuesPresent, LeaseOfPresent DEF LeaseOf
  <2>2. Lease!Request(p, new.spec)
    BY <1>3, <1>4, <1>5, <2>1 DEF Lease!Request, Lease!Held, Leased, LeaseOf
  <2> QED
    BY <2>1, <2>2 DEF Lease!Next
<1>6. CASE old \in PeerValues /\ new \in PeerValues /\ new.status = old.status
  <2>1. LeaseOf(new) = [LeaseOf(old) EXCEPT !.spec = new.spec]
    BY <1>6, ValuesPresent DEF LeaseOf
  <2>2. new.spec \in Specs /\ LeaseOf(old) # Absent
    BY <1>6, LeaseOfPresent
  <2>3. Lease!Amend(p, new.spec)
    BY <1>3, <1>4, <2>1, <2>2 DEF Lease!Amend, Lease!Held, Leased
  <2> QED
    BY <2>2, <2>3 DEF Lease!Next
<1>7. CASE new = Absent
  <2>1. LeaseOf(new) = Absent
    BY <1>7 DEF LeaseOf
  <2>2. CASE old = Absent
    BY <1>3, <1>4, <1>7, <2>2 DEF Leased
  <2>3. CASE old \in PeerValues
    <3>1. LeaseOf(old) # Absent
      BY <2>3, LeaseOfPresent
    <3>2. Lease!End(p)
      BY <1>3, <1>4, <2>1, <3>1 DEF Lease!End, Lease!Held, Leased
    <3> QED
      BY <3>2 DEF Lease!Next
  <2> QED
    BY <1>2, <2>2, <2>3
<1>8. old = Absent => new = Absent \/ new.status = NoStatus
  BY <1>1, ValuesPresent DEF old, new
<1>9. old # Absent => new = Absent \/ new.status = old.status
  BY <1>1 DEF old, new
<1> QED
  BY <1>2, <1>5, <1>6, <1>7, <1>8, <1>9

\* An address the worker writes answers a peer that had none, or moves one of an
\* older release.
LEMMA WorkerRefines ==
  ASSUME ObjectsInv, NEW a, NEW step, WorkerWrites(a, step)
  PROVE  Lease!Next
<1> DEFINE p == obj.name
           old == obj.copy.val
           new == WithAddress(old, a)
<1>1. /\ p \in Peers /\ old \in PeerValues /\ new \in PeerValues
      /\ peerStore[p].val = old /\ peerStore'[p].val = new
      /\ \A q \in Peers \ {p} : peerStore'[q] = peerStore[q]
  BY WorkerReplaces
<1>2. p \notin LegacyPeers => ~Addressed(old)
  BY DEF ObjectsInv, ObjFaithful, WorkerWrites
<1>3. new.spec = old.spec /\ new.status = [address |-> a, addresses |-> {a}]
  BY DEF WithAddress
<1> HIDE DEF p, old, new
<1>4. a \in Addrs /\ new.status # NoStatus
  <2>1. a \in Addrs
    BY WrittenTyped DEF ObjectsInv, WorkerWrites
  <2> QED
    BY <1>3, <2>1, SentinelsApart
<1>5. LeaseOf(new) = [LeaseOf(old) EXCEPT !.addrs = {a}]
  BY <1>1, <1>3, <1>4, ValuesPresent DEF LeaseOf
<1>6. Leased' = [Leased EXCEPT ![p] = LeaseOf(new)] /\ Leased[p] = LeaseOf(old)
  BY <1>1 DEF Leased
<1>7. LeaseOf(old) # Absent /\ (LeaseOf(old).addrs # {} => p \in LegacyPeers)
  BY <1>1, <1>2, LeaseOfPresent
<1>8. Lease!Assign(p, a)
  BY <1>5, <1>6, <1>7 DEF Lease!Assign, Lease!Answered, Lease!Held, Leased
<1> QED
  BY <1>1, <1>4, <1>8 DEF Lease!Next

\* Endpoint implements AddressLease, for any peers, pools and bounds: whoever
\* creates a peer can rely on AddressLease alone (ImplementsLease of Endpoint).
THEOREM LeaseImplemented == Spec => ImplementsLease
<1>1. ASSUME Init
      PROVE  Lease!Init
  <2>1. ASSUME NEW p \in Peers
        PROVE  /\ Leased[p] \in Lease!Leases \cup {Absent}
               /\ Leased[p] # Absent => p \in LegacyPeers /\ Leased[p].addrs = {}
    <3>1. CASE p \in LegacyPeers
      <4>1. peerStore[p].val \in LegacyValues
        BY <1>1, <3>1 DEF Init
      <4>2. LeaseOf(peerStore[p].val) \in Lease!Leases /\ LeaseOf(peerStore[p].val).addrs = {}
        BY <4>1, SentinelsApart DEF LegacyValues, LeaseOf, Lease!Leases, Statuses
      <4> QED
        BY <3>1, <4>2 DEF Leased
    <3>2. CASE p \notin LegacyPeers
      BY <1>1, <3>2 DEF Init, Leased, LeaseOf
    <3> QED
      BY <3>1, <3>2
  <2> QED
    BY <2>1 DEF Lease!Init, Leased
<1>2. ASSUME ObjectsInv, ObjectsInv', [Next]_vars
      PROVE  Lease!Next \/ Leased' = Leased
  <2>1. CASE UserWrites
    BY <1>2, <2>1, UserRefines DEF ObjectsInv
  <2>2. ASSUME NEW a, NEW step, WorkerWrites(a, step)
        PROVE  Lease!Next
    BY <1>2, <2>2, WorkerRefines
  <2>3. CASE peerStore' = peerStore
    BY <2>3 DEF Leased
  <2> QED
    BY <1>2, <2>1, <2>2, <2>3, Steps DEF ObjectsInv
<1>3. ObjectsInv /\ ObjectsInv' /\ [Next]_vars => [Lease!Next]_Leased
  BY <1>2
<1> QED
  BY <1>1, <1>3, ObjectsSafe, PTL DEF Spec, ImplementsLease, Lease!Spec, Leased

-----------------------------------------------------------------------------
(* The device: where its entries come from.                                *)

\* What any copy of a peer, anywhere on its way from the server to the device,
\* asks for has been asked for at the server.
CopiesIssued ==
  \A e \in PeerAPI!Copies : e.copy.val # Absent => Issue(e.copy.val) \in issued
ConfigsIssued ==
  \A w \in Workers : \A p \in Peers :
    cfg[w][p] # Absent => Issue(cfg[w][p]) \in issued
PlansIssued ==
  \A w \in Workers : \A k \in Keys :
    plan[w][k].entry # NoPeer => Granted(k, plan[w][k].entry)
IssuedInv ==
  ObjectsInv /\ CopiesIssued /\ ConfigsIssued /\ PlansIssued /\ DeviceOnlyIssued

\* The history records every write of a peer.
LEMMA IssuedGrows ==
  ASSUME ObjectsInv, [Next]_vars
  PROVE  /\ issued \subseteq issued'
         /\ \A p \in Peers : \/ peerStore'[p] = peerStore[p]
                             \/ peerStore'[p].val = Absent
                             \/ Issue(peerStore'[p].val) \in issued'
<1>1. TypeOK /\ peerStore \in [Peers -> PeerAPI!Copy]
  BY DEF ObjectsInv, TypeOK, PeerAPI!TypeOK
<1>2. ASSUME NEW p \in Peers, NEW val, PeerAPI!Write(p, val)
      PROVE  /\ \A q \in Peers \ {p} : peerStore'[q] = peerStore[q]
             /\ peerStore'[p].val = val
  <2>1. peerStore' = [peerStore EXCEPT ![p] = [ver |-> peerStore[p].ver + 1, val |-> val]]
    BY <1>2 DEF PeerAPI!Write
  <2>2. peerStore'[p] = [ver |-> peerStore[p].ver + 1, val |-> val]
    BY <1>1, <2>1
  <2>3. peerStore'[p].val = val
    BY <2>2
  <2> QED
    BY <1>1, <2>1, <2>3
<1>3. ASSUME NEW p \in Peers, NEW spec \in Specs, CreatePeer(p, spec) \/ EditPeer(p, spec)
      PROVE  \E val : PeerAPI!Write(p, val) /\ issued' = issued \cup {Issue(val)}
  BY <1>3 DEF CreatePeer, EditPeer, PeerAPI!Create, PeerAPI!Update
<1>4. ASSUME NEW p \in Peers, DeletePeer(p)
      PROVE  PeerAPI!Write(p, Absent) /\ issued' = issued
  BY <1>4 DEF DeletePeer, PeerAPI!Delete
<1>5. ASSUME NEW a, NEW step, WorkerWrites(a, step)
      PROVE  /\ obj.name \in Peers
             /\ \E val : PeerAPI!Write(obj.name, val) /\ issued' = issued \cup {Issue(val)}
  <2>1. obj.name \in Peers
    BY <1>5, WorkerReplaces
  <2> QED
    BY <1>5, <2>1 DEF WorkerWrites, Save, PeerAPI!Update
<1>6. CASE UserWrites
  BY <1>2, <1>3, <1>4, <1>6 DEF UserWrites
<1>7. CASE \E a, step : WorkerWrites(a, step)
  BY <1>2, <1>5, <1>7
<1> QED
  BY <1>1, <1>6, <1>7, Steps

\* What was granted once stays granted in a longer history.
LEMMA GrantedGrows ==
  ASSUME issued \subseteq issued', NEW k, NEW entry, Granted(k, entry)
  PROVE  Granted(k, entry)'
BY DEF Granted

\* Every copy of a peer is in the history.
LEMMA CopiesIssuedStep ==
  ASSUME IssuedInv, [Next]_vars
  PROVE  CopiesIssued'
<1>1. [PeerAPI!Next]_peerVars /\ PeerAPI!TypeOK
  BY PeerSteps DEF IssuedInv, ObjectsInv, TypeOK
<1>2. ASSUME NEW p \in Peers, peerStore'[p].val # Absent
      PROVE  Issue(peerStore'[p].val) \in issued'
  <2>1. peerStore[p].val # Absent => Issue(peerStore[p].val) \in issued
    BY StoreIsCopy DEF IssuedInv, CopiesIssued
  <2> QED
    BY <1>2, <2>1, IssuedGrows DEF IssuedInv
<1>3. ASSUME NEW e \in PeerAPI!Current', e.copy.val # Absent
      PROVE  Issue(e.copy.val) \in issued'
  BY <1>2, <1>3 DEF PeerAPI!Current
<1> QED
  BY <1>1, <1>3, PeerCopiesGrow, IssuedGrows DEF IssuedInv, CopiesIssued

\* What a worker computes from an issued configuration is issued.
LEMMA DiffIssued ==
  ASSUME IssuedInv, NEW w \in Workers, NEW last \in LastOf(cfg[w]), NEW k \in Keys,
         Diff(device, Should(cfg[w], last))[k].entry # NoPeer
  PROVE  Granted(k, Diff(device, Should(cfg[w], last))[k].entry)
<1> DEFINE c == cfg[w]
           entry == Diff(device, Should(c, last))[k].entry
<1>1. entry = Should(c, last)[k]
  BY DEF Diff
<1>2. Claimants(c, k) # {} /\ entry = EntryOf(c[last[k]])
  BY <1>1 DEF Should
<1>3. last[k] \in Claimants(c, k)
  BY <1>2 DEF LastOf
<1>4. last[k] \in Peers /\ c[last[k]] # Absent /\ c[last[k]].spec.pub = k
  BY <1>3 DEF Claimants
<1>5. Issue(c[last[k]]) \in issued
  BY <1>4 DEF IssuedInv, ConfigsIssued
<1>6. /\ Issue(c[last[k]]).key = k
      /\ Issue(c[last[k]]).psk = EntryOf(c[last[k]]).psk
      /\ Issue(c[last[k]]).ips = EntryOf(c[last[k]]).ips
  BY <1>4 DEF Issue, EntryOf
<1> QED
  BY <1>2, <1>5, <1>6 DEF Granted

\* Applying an issued plan to an issued device leaves an issued device, however
\* old the plan is.
LEMMA ConfiguredIssued ==
  ASSUME IssuedInv, NEW w \in Workers, NEW owner, NEW k \in Keys,
         Configured(device, plan[w], owner)[k] # NoPeer
  PROVE  Granted(k, Configured(device, plan[w], owner)[k])
<1>1. plan[w] \in Plans
  BY DEF IssuedInv, ObjectsInv, TypeOK
<1>2. CASE k \in Touched(device, plan[w])
  <2>1. plan[w][k].entry \in Entries /\ plan[w][k].op # "remove"
    BY <1>1, <1>2 DEF Touched, Plans
  <2>2. plan[w][k].entry # NoPeer
    BY <2>1, SentinelsApart
  <2>3. Granted(k, plan[w][k].entry)
    BY <2>2 DEF IssuedInv, PlansIssued
  <2>4. Configured(device, plan[w], owner)[k] =
          [psk |-> plan[w][k].entry.psk, ips |-> {a \in plan[w][k].entry.ips : owner[a] = k}]
    BY <1>2, <2>1 DEF Configured
  <2> QED
    BY <2>3, <2>4 DEF Granted
<1>3. CASE k \notin Touched(device, plan[w])
  <2>1. device[k] # NoPeer
    BY <1>3 DEF Configured
  <2>2. Configured(device, plan[w], owner)[k] =
          [psk |-> device[k].psk,
           ips |-> {a \in device[k].ips : Wanting(device, plan[w], a) = {}}]
    BY <1>3, <2>1 DEF Configured
  <2>3. Granted(k, device[k])
    BY <2>1 DEF IssuedInv, DeviceOnlyIssued
  <2> QED
    BY <2>2, <2>3 DEF Granted
<1> QED
  BY <1>2, <1>3

\* One step of a sync, from whatever mixture of old and new it works on.
LEMMA SyncIssued ==
  ASSUME IssuedInv, NEW w \in Workers, Fetch(w) \/ ReadDevice(w) \/ Configure(w)
  PROVE  ConfigsIssued' /\ PlansIssued' /\ DeviceOnlyIssued'
<1>1. issued' = issued
  BY DEF Fetch, ReadDevice, Configure
<1>2. cfg \in [Workers -> Configs] /\ plan \in [Workers -> Plans]
  BY DEF IssuedInv, ObjectsInv, TypeOK
<1>3. \A k, entry : Granted(k, entry)' <=> Granted(k, entry)
  BY <1>1 DEF Granted
<1>4. ConfigsIssued'
  <2>1. ASSUME NEW p \in Peers, peerCache[p].val # Absent
        PROVE  Issue(peerCache[p].val) \in issued
    <3>1. [name |-> p, copy |-> peerCache[p]] \in PeerAPI!Copies
      BY StoreIsCopy
    <3> QED
      BY <2>1, <3>1 DEF IssuedInv, CopiesIssued
  <2>2. \/ cfg' = cfg
        \/ cfg' = [cfg EXCEPT ![w] = NoConfig]
        \/ cfg' = [cfg EXCEPT ![w] = [p \in Peers |-> peerCache[p].val]]
    BY DEF Fetch, ReadDevice, Configure, Abort
  <2> QED
    BY <1>1, <1>2, <2>1, <2>2 DEF IssuedInv, ConfigsIssued, NoConfig
<1>5. PlansIssued'
  <2>1. \/ plan' = plan
        \/ plan' = [plan EXCEPT ![w] = NoPlan]
        \/ \E last \in LastOf(cfg[w]) :
             plan' = [plan EXCEPT ![w] = Diff(device, Should(cfg[w], last))]
    BY DEF Fetch, ReadDevice, Configure, Abort
  <2>2. CASE plan' = plan
    BY <1>3, <2>2 DEF IssuedInv, PlansIssued
  <2>3. CASE plan' = [plan EXCEPT ![w] = NoPlan]
    BY <1>2, <1>3, <2>3 DEF IssuedInv, PlansIssued, NoPlan
  <2>4. ASSUME NEW last \in LastOf(cfg[w]),
               plan' = [plan EXCEPT ![w] = Diff(device, Should(cfg[w], last))]
        PROVE  PlansIssued'
    <3>1. \A v \in Workers \ {w} : plan'[v] = plan[v]
      BY <1>2, <2>4
    <3>2. plan'[w] = Diff(device, Should(cfg[w], last))
      BY <1>2, <2>4
    <3> QED
      BY <1>3, <3>1, <3>2, DiffIssued DEF IssuedInv, PlansIssued
  <2> QED
    BY <2>1, <2>2, <2>3, <2>4
<1>6. DeviceOnlyIssued'
  <2>1. device' = device \/ \E owner : device' = Configured(device, plan[w], owner)
    BY DEF Fetch, ReadDevice, Configure, Abort
  <2> QED
    BY <1>3, <2>1, ConfiguredIssued DEF IssuedInv, DeviceOnlyIssued
<1> QED
  BY <1>4, <1>5, <1>6

\* Every step keeps copies, configurations, plans and the device in the history.
LEMMA IssuedStep ==
  ASSUME IssuedInv, [Next]_vars
  PROVE  ConfigsIssued' /\ PlansIssued' /\ DeviceOnlyIssued'
<1>1. issued \subseteq issued'
  BY IssuedGrows DEF IssuedInv
<1>2. CASE RuleWork \/ Fetch("peer") \/ ReadDevice("peer") \/ Configure("peer")
  BY <1>2, SyncIssued DEF RuleWork, Workers
<1>3. CASE Restart \/ Panic
  <2>1. /\ cfg' = [w \in Workers |-> NoConfig] /\ plan' = [w \in Workers |-> NoPlan]
        /\ device' = EmptyDevice
    BY <1>3 DEF Restart, Panic, Boot
  <2> QED
    BY <2>1 DEF ConfigsIssued, PlansIssued, DeviceOnlyIssued, NoConfig, NoPlan, EmptyDevice
<1>4. CASE UNCHANGED <<cfg, plan, device>>
  BY <1>1, <1>4, GrantedGrows
     DEF IssuedInv, ConfigsIssued, PlansIssued, DeviceOnlyIssued
<1>5. \/ RuleWork \/ Fetch("peer") \/ ReadDevice("peer") \/ Configure("peer")
      \/ Restart \/ Panic \/ UNCHANGED <<cfg, plan, device>>
  <2>1. CASE Migrate \/ SetStatus
    BY <2>1 DEF Migrate, SetStatus, UpdatePeer
  <2>2. CASE \/ \E p \in Peers : TakePeer(p) \/ DeletePeer(p)
             \/ \E p \in Peers, spec \in Specs : CreatePeer(p, spec) \/ EditPeer(p, spec)
             \/ \E r \in Rules : TakeRule(r) \/ DeleteRule(r)
             \/ \E r \in Rules, spec \in RuleSpecs : PutRule(r, spec)
             \/ DeliverPeer \/ DeliverRule \/ ResyncPeers \/ ResyncRules
             \/ UNCHANGED vars
    BY <2>2 DEF TakePeer, DeletePeer, CreatePeer, EditPeer, TakeRule, DeleteRule, PutRule,
                DeliverPeer, DeliverRule, ResyncPeers, ResyncRules, others, workVars, vars
  <2> QED
    BY <2>1, <2>2 DEF Next, PeerWork
<1> QED
  BY <1>2, <1>3, <1>4, <1>5

\* Initially all of them are in the history.
LEMMA IssuedInit ==
  ASSUME Init
  PROVE  IssuedInv
<1>1. ObjectsInv
  BY ObjectsInit
<1>2. CopiesIssued
  <2>1. PeerAPI!Copies = PeerAPI!Current
    BY DEF Init, PeerAPI!Init, PeerAPI!Copies, PeerAPI!Current
  <2>2. ASSUME NEW p \in Peers, peerStore[p].val # Absent
        PROVE  Issue(peerStore[p].val) \in issued
    BY <2>2 DEF Init
  <2> QED
    BY <2>1, <2>2 DEF CopiesIssued, PeerAPI!Current
<1>3. ConfigsIssued /\ PlansIssued /\ DeviceOnlyIssued
  BY DEF Init, ConfigsIssued, PlansIssued, DeviceOnlyIssued, NoConfig, NoPlan, EmptyDevice
<1> QED
  BY <1>1, <1>2, <1>3 DEF IssuedInv

\* No interleaving of stale lists, stale diffs and two syncs at once puts an
\* entry on the device that is not, in one piece, what some version of one
\* peer asked for (DeviceOnlyIssued of Endpoint).
THEOREM DeviceSound == Spec => []DeviceOnlyIssued
<1>1. IssuedInv /\ [Next]_vars => IssuedInv'
  <2>1. IssuedInv /\ [Next]_vars => ObjectsInv'
    BY TypingStep, CopiesFaithfulStep, CopiesPlainStep, ObjFaithfulStep
       DEF IssuedInv, ObjectsInv
  <2> QED
    BY <2>1, CopiesIssuedStep, IssuedStep DEF IssuedInv
<1>2. IssuedInv => DeviceOnlyIssued
  BY DEF IssuedInv
<1> QED
  BY <1>1, <1>2, IssuedInit, PTL DEF Spec

-----------------------------------------------------------------------------
(* One wgaSync that nothing interrupts.                                    *)

Disjoint(should) ==
  \A j, k \in Keys :
    j # k /\ should[j] # NoPeer /\ should[k] # NoPeer
      => should[j].ips \cap should[k].ips = {}

\* The diff wgaSync computes, applied to the device it was computed from, leaves
\* exactly the peers it should, whatever the device held before and in whatever
\* order the kernel takes the operations, if no address belongs to two of them.
THEOREM UndisturbedSync ==
  ASSUME NEW dev \in Devices, NEW should \in Devices, Disjoint(should),
         NEW owner \in Owners(dev, Diff(dev, should))
  PROVE  Configured(dev, Diff(dev, should), owner) = should
<1> DEFINE pl == Diff(dev, should)
<1>1. /\ \A k \in Keys : pl[k].op = OpFor(dev[k], should[k]) /\ pl[k].entry = should[k]
      /\ \A k \in Keys : k \in Touched(dev, pl) <=> should[k] # NoPeer /\ dev[k] # should[k]
  BY DEF Diff, OpFor, Touched
<1>2. owner \in Owners(dev, pl)
  OBVIOUS
<1> HIDE DEF pl
<1>3. ASSUME NEW a, NEW k \in Keys, should[k] # NoPeer, a \in should[k].ips
      PROVE  \A j \in Wanting(dev, pl, a) : j = k
  BY <1>1, <1>3 DEF Wanting, Disjoint, Touched
<1>4. ASSUME NEW k \in Keys
      PROVE  Configured(dev, pl, owner)[k] = should[k]
  <2>1. CASE should[k] = NoPeer
    <3>1. k \notin Touched(dev, pl) /\ (dev[k] # NoPeer => pl[k].op = "remove")
      BY <1>1, <2>1 DEF OpFor
    <3> QED
      BY <2>1, <3>1 DEF Configured
  <2>2. CASE should[k] # NoPeer /\ dev[k] = should[k]
    <3>1. k \notin Touched(dev, pl) /\ pl[k].op # "remove"
      BY <1>1, <2>2 DEF OpFor
    <3>2. \A a \in dev[k].ips : Wanting(dev, pl, a) = {}
      BY <1>3, <2>2, <3>1 DEF Wanting
    <3>3. Configured(dev, pl, owner)[k] = [psk |-> dev[k].psk, ips |-> dev[k].ips]
      BY <2>2, <3>1, <3>2 DEF Configured
    <3>4. dev[k] = [psk |-> dev[k].psk, ips |-> dev[k].ips]
      BY <2>2 DEF Devices, Entries
    <3> QED
      BY <2>2, <3>3, <3>4
  <2>3. CASE should[k] # NoPeer /\ dev[k] # should[k]
    <3>1. k \in Touched(dev, pl) /\ pl[k].op # "remove" /\ pl[k].entry = should[k]
      BY <1>1, <2>3 DEF OpFor
    <3>2. should[k] = [psk |-> should[k].psk, ips |-> should[k].ips] /\ should[k].ips \subseteq Addrs
      BY <2>3 DEF Devices, Entries
    <3>3. ASSUME NEW a \in should[k].ips
          PROVE  owner[a] = k
      <4>1. k \in Wanting(dev, pl, a) /\ a \in Addrs
        BY <3>1, <3>2 DEF Wanting
      <4>2. owner[a] \in Wanting(dev, pl, a)
        BY <1>2, <4>1 DEF Owners
      <4> QED
        BY <1>3, <2>3, <4>2
    <3>4. Configured(dev, pl, owner)[k] =
            [psk |-> should[k].psk, ips |-> {a \in should[k].ips : owner[a] = k}]
      BY <3>1 DEF Configured
    <3> QED
      BY <3>2, <3>3, <3>4
  <2> QED
    BY <2>1, <2>2, <2>3
<1> QED
  BY <1>4 DEF Configured, Devices, pl
=============================================================================
