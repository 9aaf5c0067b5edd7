---------------------------- MODULE LoadBalancer ----------------------------
(***************************************************************************)
(* The service controller (operator/lbc.go): it gives Services of the wga  *)
(* load balancer class the addresses their annotation asks for, or one it  *)
(* generates, after looking for another Service that has them. One worker. *)
(***************************************************************************)
EXTENDS Naturals, Sequences, FiniteSets

CONSTANTS
  Services,    \* names of Services of class wga.kraudcloud.com/intranet
  Ips,         \* addresses
  Pool,        \* those generateIndex can pick from the first service network
  Requests,    \* loadBalancerIPs annotations: sets of addresses, {} for none
  BadRequest,  \* an annotation that does not parse
  Absent, NoObj,
  MaxEdits,    \* bound: writes by users
  MaxFaults    \* bound: failing calls and process restarts

ASSUME RequestsTyped == Requests \subseteq (SUBSET Ips) \cup {BadRequest}
ASSUME PoolTyped == Pool \subseteq Ips
ASSUME BoundsTyped == MaxEdits \in Nat /\ MaxFaults \in Nat

VARIABLES
  svcStore, svcStream, svcCache, svcQueue,  \* see Kube
  pc,      \* what the worker does next
  obj,     \* the Service it holds in memory
  want,    \* serviceIPs, the addresses it is about to give it
  edits, faults

svcVars == <<svcStore, svcStream, svcCache, svcQueue>>
workVars == <<pc, obj, want>>
vars == <<svcVars, workVars, edits, faults>>

Reasons == {"none", "InvalidLoadBalancerIP", "LoadBalancerReady"}

\* request: the annotation; ingress: status.loadBalancer.ingress; reason: of
\* the last of status.conditions.
Values == [request : Requests, ingress : SUBSET Ips, reason : Reasons]

ServiceAPI == INSTANCE Kube WITH
  Names <- Services,
  store <- svcStore, stream <- svcStream, cache <- svcCache, queue <- svcQueue

ASSUME SentinelsApart ==
  /\ Absent \notin Values
  /\ NoObj \notin [name : Services, copy : [ver : Nat, val : Values \cup {Absent}]]

HasNoIP(val) == val # Absent /\ val.ingress = {}

-----------------------------------------------------------------------------
Init ==
  /\ ServiceAPI!Init
  /\ \A s \in Services : svcStore[s].val = Absent
  /\ svcQueue = {}
  /\ pc = "idle" /\ obj = NoObj /\ want = {}
  /\ edits = 0 /\ faults = 0

\* Users.
Edit == edits < MaxEdits /\ edits' = edits + 1

CreateService(s, request) ==
  /\ Edit
  /\ ServiceAPI!Create(s, [request |-> request, ingress |-> {}, reason |-> "none"])
  /\ UNCHANGED <<svcCache, svcQueue, workVars, faults>>

Annotate(s, request) ==
  LET old == svcStore[s]
  IN /\ Edit
     /\ old.val # Absent /\ old.val.request # request
     /\ ServiceAPI!Update(s, old.ver, [old.val EXCEPT !.request = request])
     /\ UNCHANGED <<svcCache, svcQueue, workVars, faults>>

DeleteService(s) ==
  /\ Edit
  /\ ServiceAPI!Delete(s)
  /\ UNCHANGED <<svcCache, svcQueue, workVars, faults>>

-----------------------------------------------------------------------------
\* lbcPredicate: only the event of a Service without an address is enqueued;
\* of a deleted Service the event carries the last state.
Passes(e) == IF e.copy.val = Absent THEN HasNoIP(svcCache[e.name].val)
                                    ELSE HasNoIP(e.copy.val)

Deliver ==
  /\ ServiceAPI!Arrive
  /\ svcQueue' = svcQueue \cup {e.name : e \in {x \in {Head(svcStream)} : Passes(x)}}
  /\ UNCHANGED <<workVars, edits, faults>>

Resync ==
  /\ svcQueue' = svcQueue \cup {s \in Services : HasNoIP(svcCache[s].val)}
  /\ svcQueue' # svcQueue
  /\ UNCHANGED <<svcStore, svcStream, svcCache, workVars, edits, faults>>

-----------------------------------------------------------------------------
Drop == pc' = "idle" /\ obj' = NoObj /\ want' = {}

\* Mutants: the error is swallowed; the object outlives the call.
GiveUp_Swallowed == Drop /\ UNCHANGED svcQueue
GiveUp_KeepsObject == pc' = "idle" /\ UNCHANGED obj /\ want' = {} /\ ServiceAPI!Requeue(obj.name)

\* Reconcile returns an error: the name goes back into the queue.
GiveUp == Drop /\ ServiceAPI!Requeue(obj.name)

\* A call that fails although nothing is wrong with its arguments.
Fault == faults < MaxFaults /\ faults' = faults + 1

\* Mutant: a generated address on top of those the user asks for.
Wanted_AlsoGenerated(val, ip) == val.request \cup {ip}

\* The addresses for a Service: what the annotation asks for, or a fresh one.
Wanted(val, ip) == IF val.request # {} THEN val.request ELSE {ip}

\* Reconcile up to the query for conflicts. An annotation that does not parse
\* is a terminal error, which is not retried.
TakeService(s, ip) ==
  LET val == svcCache[s].val
  IN /\ pc = "idle"
     /\ ServiceAPI!Take(s)
     /\ IF HasNoIP(val) /\ val.request # BadRequest
        THEN /\ pc' = "check"
             /\ obj' = [name |-> s, copy |-> svcCache[s]]
             /\ want' = Wanted(val, ip)
        ELSE UNCHANGED workVars
     /\ UNCHANGED <<svcStore, svcStream, svcCache, edits, faults>>

\* Some other Service, as the cache shows it, has one of the addresses.
Conflict ==
  \E t \in Services \ {obj.name} :
    svcCache[t].val # Absent /\ svcCache[t].val.ingress \cap want # {}

\* The user is told once, and not when the address was not his choice.
Reported == obj.copy.val.request = {} \/ obj.copy.val.reason = "InvalidLoadBalancerIP"

Check ==
  /\ pc = "check"
  /\ \/ /\ ~Conflict
        /\ pc' = "assign"
        /\ UNCHANGED <<obj, want, svcQueue, faults>>
     \/ /\ Conflict /\ ~Reported
        /\ pc' = "report"
        /\ UNCHANGED <<obj, want, svcQueue, faults>>
     \/ /\ Conflict /\ Reported
        /\ GiveUp
        /\ UNCHANGED faults
     \/ Fault /\ GiveUp
  /\ UNCHANGED <<svcStore, svcStream, svcCache, edits>>

\* Mutant: the write does not carry the version that was read.
Save_AnyVersion(val) ==
  ServiceAPI!Update(obj.name, svcStore[obj.name].ver,
    [svcStore[obj.name].val EXCEPT !.ingress = val.ingress, !.reason = val.reason])

Save(val) == ServiceAPI!Update(obj.name, obj.copy.ver, val)

\* client.Status().Update(svc): accepted; refused because the object has
\* changed; or failing on the way there or on the way back.
UpdateStatus(val) ==
  /\ \/ Save(val) /\ Drop /\ UNCHANGED <<svcQueue, faults>>
     \/ /\ ~ServiceAPI!Accepts(obj.name, obj.copy.ver)
        /\ GiveUp
        /\ UNCHANGED <<svcStore, svcStream, faults>>
     \/ Fault /\ GiveUp /\ UNCHANGED <<svcStore, svcStream>>
     \/ Fault /\ GiveUp /\ Save(val)
  /\ UNCHANGED <<svcCache, edits>>

Report ==
  /\ pc = "report"
  /\ UpdateStatus([obj.copy.val EXCEPT !.reason = "InvalidLoadBalancerIP"])

Assign ==
  /\ pc = "assign"
  /\ UpdateStatus([obj.copy.val EXCEPT !.ingress = want, !.reason = "LoadBalancerReady"])

Restart ==
  /\ Fault
  /\ ServiceAPI!List
  /\ svcQueue' = {s \in Services : HasNoIP(svcStore[s].val)}
  /\ Drop
  /\ UNCHANGED edits

-----------------------------------------------------------------------------
Work == Check \/ Report \/ Assign

Next ==
  \/ \E s \in Services, request \in Requests : CreateService(s, request) \/ Annotate(s, request)
  \/ \E s \in Services : DeleteService(s)
  \/ Deliver \/ Resync
  \/ \E s \in Services, ip \in Pool : TakeService(s, ip)
  \/ Work
  \/ Restart

\* A queued name is taken in its turn; and since addresses are picked at
\* random, a Service that is tried again and again meets each of them.
Fairness ==
  /\ WF_vars(Deliver)
  /\ WF_vars(Work)
  /\ \A s \in Services, ip \in Pool : SF_vars(TakeService(s, ip))

Spec == Init /\ [][Next]_vars
FairSpec == Spec /\ Fairness

-----------------------------------------------------------------------------
\* Every variable has its type, and the worker has an object and addresses for
\* it exactly while it works.
TypeOK ==
  /\ ServiceAPI!TypeOK
  /\ pc \in {"idle", "check", "report", "assign"}
  /\ obj \in ServiceAPI!Event \cup {NoObj}
  /\ want \in SUBSET Ips
  /\ pc = "idle" <=> obj = NoObj
  /\ pc = "idle" <=> want = {}
  /\ edits \in 0..MaxEdits
  /\ faults \in 0..MaxFaults

Lives(s) == svcStore[s].val # Absent /\ svcStore'[s].val # Absent

\* Reconcile never takes an address away or adds one to a Service that has
\* some, though it decides from a cached copy that may still show none.
AssignedOnce ==
  [][\A s \in Services :
       Lives(s) /\ svcStore[s].val.ingress # {}
         => svcStore'[s].val.ingress = svcStore[s].val.ingress]_vars

\* The addresses Reconcile assigns are the ones the annotation asks for at that
\* very moment, all of them and no others, even if it was edited after the
\* reconciler read it; without one, a single address of the network.
HonoursAnnotation ==
  [][\A s \in Services :
       Lives(s) /\ svcStore[s].val.ingress = {} /\ svcStore'[s].val.ingress # {}
         => LET request == svcStore[s].val.request
            IN IF request = {} THEN \E ip \in Pool : svcStore'[s].val.ingress = {ip}
               ELSE svcStore'[s].val.ingress = request]_vars

\* Reconcile serves every Service it can: none waits for ever while the
\* addresses it asks for (or, if it asks for none, some address of the network)
\* belong to no other Service. Neither the report of a conflict, which returns
\* no error, nor a conflict that goes away later strands it.
Holders(s, ips) ==
  {t \in Services \ {s} : svcStore[t].val # Absent /\ svcStore[t].val.ingress \cap ips # {}}
Servable(s) ==
  LET request == svcStore[s].val.request
  IN IF request = {} THEN \E ip \in Pool : Holders(s, {ip}) = {}
     ELSE request # BadRequest /\ Holders(s, request) = {}
ServiceServed ==
  \A s \in Services : []<>~(HasNoIP(svcStore[s].val) /\ Servable(s))

\* "now that we figured all ips we have are unique, let's assign them"
\* (operator/lbc.go, Reconcile): no two Services have an address in common.
UniqueIPs ==
  \A s, t \in Services :
    s # t /\ svcStore[s].val # Absent /\ svcStore[t].val # Absent
      => svcStore[s].val.ingress \cap svcStore[t].val.ingress = {}
=============================================================================
