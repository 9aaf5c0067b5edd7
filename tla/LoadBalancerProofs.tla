------------------------- MODULE LoadBalancerProofs -------------------------
(***************************************************************************)
(* LoadBalancer for any Services, addresses, annotations and bounds.       *)
(***************************************************************************)
EXTENDS LoadBalancer, TLAPS

ServiceFacts == INSTANCE KubeProofs WITH
  Names <- Services,
  store <- svcStore, stream <- svcStream, cache <- svcCache, queue <- svcQueue

-----------------------------------------------------------------------------
(* The lemmas of KubeProofs, for Services.                                 *)

\* Services take the same steps in both instances of Kube.
LEMMA SameNext ==
  [ServiceAPI!Next]_svcVars <=> [ServiceFacts!Next]_(ServiceFacts!vars)
BY DEF svcVars, ServiceAPI!Next, ServiceFacts!Next, ServiceFacts!vars,
       ServiceAPI!Present, ServiceFacts!Present, ServiceAPI!Write, ServiceFacts!Write,
       ServiceAPI!Accepts, ServiceFacts!Accepts, ServiceAPI!Create, ServiceFacts!Create,
       ServiceAPI!Update, ServiceFacts!Update, ServiceAPI!Delete, ServiceFacts!Delete,
       ServiceAPI!Arrive, ServiceFacts!Arrive, ServiceAPI!List, ServiceFacts!List

\* Both have the same types.
LEMMA SameTypes ==
  /\ ServiceAPI!TypeOK <=> ServiceFacts!TypeOK
  /\ ServiceAPI!Event = ServiceFacts!Event
  /\ ServiceAPI!Copies = ServiceFacts!Copies
  /\ ServiceAPI!Current = ServiceFacts!Current
BY DEF ServiceAPI!TypeOK, ServiceFacts!TypeOK, ServiceAPI!Copy, ServiceFacts!Copy,
       ServiceAPI!Event, ServiceFacts!Event, ServiceAPI!Copies, ServiceFacts!Copies,
       ServiceAPI!Current, ServiceFacts!Current

\* TypeStep of KubeProofs.
LEMMA ServiceTypeStep ==
  ASSUME ServiceAPI!TypeOK, [ServiceAPI!Next]_svcVars
  PROVE  ServiceAPI!TypeOK'
BY SameNext, ServiceFacts!TypeStep
   DEF ServiceAPI!TypeOK, ServiceFacts!TypeOK, ServiceAPI!Copy, ServiceFacts!Copy,
       ServiceAPI!Event, ServiceFacts!Event

\* FaithfulStep of KubeProofs.
LEMMA ServiceFaithfulStep ==
  ASSUME ServiceAPI!TypeOK, [ServiceAPI!Next]_svcVars,
         NEW e \in ServiceAPI!Event, ServiceAPI!Faithful(e)
  PROVE  ServiceAPI!Faithful(e)'
BY SameNext, SameTypes, ServiceFacts!FaithfulStep
   DEF ServiceAPI!Faithful, ServiceFacts!Faithful

\* CopiesGrow and CopiesTyped of KubeProofs.
LEMMA ServiceCopies ==
  ASSUME ServiceAPI!TypeOK, [ServiceAPI!Next]_svcVars
  PROVE  /\ ServiceAPI!Copies \subseteq ServiceAPI!Event
         /\ ServiceAPI!Copies' \subseteq ServiceAPI!Copies \cup ServiceAPI!Current'
BY SameNext, SameTypes, ServiceFacts!CopiesGrow, ServiceFacts!CopiesTyped
   DEF ServiceAPI!Copies, ServiceFacts!Copies, ServiceAPI!Current, ServiceFacts!Current

-----------------------------------------------------------------------------
(* Types.                                                                  *)

\* What the worker holds: a Service without an address and with an annotation
\* that parses, and the addresses for it.
ObjPhase ==
  obj # NoObj =>
    /\ obj.copy.val # Absent /\ obj.copy.val.ingress = {}
    /\ obj.copy.val.request # BadRequest
    /\ \E ip \in Pool : want = Wanted(obj.copy.val, ip)

\* A Service object that is there.
LEMMA ObjTyped ==
  ASSUME NEW e \in ServiceAPI!Event, e.copy.val # Absent
  PROVE  /\ e.name \in Services /\ e.copy.ver \in Nat /\ e.copy.val \in Values
         /\ e.copy.val.request \in Requests /\ e.copy.val.ingress \in SUBSET Ips
         /\ e.copy.val.reason \in Reasons
         /\ e.copy = [ver |-> e.copy.ver, val |-> e.copy.val]
BY DEF ServiceAPI!Event, ServiceAPI!Copy, Values

\* The addresses for a Service are some addresses.
LEMMA WantedTyped ==
  ASSUME NEW val \in Values, val.request # BadRequest, NEW ip \in Pool
  PROVE  Wanted(val, ip) \in SUBSET Ips /\ Wanted(val, ip) # {}
<1>1. val.request \in SUBSET Ips
  BY RequestsTyped DEF Values
<1>2. {ip} \in SUBSET Ips /\ {ip} # {}
  BY PoolTyped
<1> QED
  BY <1>1, <1>2 DEF Wanted

\* A failure stays within its bound.
LEMMA FaultTyped ==
  ASSUME faults \in 0..MaxFaults, Fault
  PROVE  faults' \in 0..MaxFaults
BY BoundsTyped DEF Fault

\* What the worker writes: the Service it holds, with another reason, and
\* perhaps with addresses.
Written(val) ==
  \/ pc = "report" /\ val = [obj.copy.val EXCEPT !.reason = "InvalidLoadBalancerIP"]
  \/ pc = "assign" /\ val = [obj.copy.val EXCEPT !.ingress = want, !.reason = "LoadBalancerReady"]

\* It is a Service, with the annotation that was read; a report leaves it
\* without addresses, an assignment gives it those that were looked for.
LEMMA WrittenTyped ==
  ASSUME TypeOK, ObjPhase, NEW val, Written(val)
  PROVE  /\ obj \in ServiceAPI!Event /\ obj # NoObj /\ obj.copy.val \in Values
         /\ val \in Values /\ val.request = obj.copy.val.request
         /\ val.ingress = {} \/ val.ingress = want
<1>1. obj \in ServiceAPI!Event /\ obj # NoObj
  BY DEF TypeOK, Written
<1>2. obj.copy.val \in Values /\ obj.copy.val.ingress = {}
  BY <1>1, ObjTyped DEF ObjPhase
<1>3. want \in SUBSET Ips
  BY DEF TypeOK
<1>4. CASE pc = "report"
  BY <1>1, <1>2, <1>4 DEF Written, Values, Reasons
<1>5. CASE pc = "assign"
  BY <1>1, <1>2, <1>3, <1>5 DEF Written, Values, Reasons
<1> QED
  BY <1>4, <1>5 DEF Written

\* The API server, its watch stream and the queue take steps of module Kube.
LEMMA ServiceSteps ==
  ASSUME TypeOK, ObjPhase, [Next]_vars
  PROVE  [ServiceAPI!Next]_svcVars
<1>0. svcQueue \in SUBSET Services
  BY DEF TypeOK, ServiceAPI!TypeOK
<1>1. ASSUME NEW s \in Services, NEW request \in Requests, CreateService(s, request)
      PROVE  ServiceAPI!Next
  <2>1. [request |-> request, ingress |-> {}, reason |-> "none"] \in Values
    BY DEF Values, Reasons
  <2> QED
    BY <1>0, <1>1, <2>1 DEF CreateService, ServiceAPI!Next
<1>2. ASSUME NEW s \in Services, NEW request \in Requests, Annotate(s, request)
      PROVE  ServiceAPI!Next
  <2>1. svcStore[s].ver \in Nat /\ svcStore[s].val \in Values
    BY <1>2 DEF Annotate, TypeOK, ServiceAPI!TypeOK, ServiceAPI!Copy
  <2>2. [svcStore[s].val EXCEPT !.request = request] \in Values
    BY <2>1 DEF Values
  <2> QED
    BY <1>0, <1>2, <2>1, <2>2 DEF Annotate, ServiceAPI!Next
<1>3. ASSUME NEW s \in Services, DeleteService(s)
      PROVE  ServiceAPI!Next
  BY <1>0, <1>3 DEF DeleteService, ServiceAPI!Next
<1>4. CASE Deliver
  <2>1. ServiceAPI!Arrive
    BY <1>4 DEF Deliver
  <2>2. Head(svcStream) \in ServiceAPI!Event
    BY <2>1 DEF ServiceAPI!Arrive, TypeOK, ServiceAPI!TypeOK
  <2>3. svcQueue' \in SUBSET Services
    BY <1>0, <1>4, <2>2 DEF Deliver, ServiceAPI!Event
  <2> QED
    BY <2>1, <2>3 DEF ServiceAPI!Next
<1>5. CASE Resync
  BY <1>0, <1>5 DEF Resync, ServiceAPI!Next
<1>6. ASSUME NEW s \in Services, NEW ip \in Pool, TakeService(s, ip)
      PROVE  ServiceAPI!Next
  BY <1>0, <1>6 DEF TakeService, ServiceAPI!Next, ServiceAPI!Take
<1>7. CASE Check
  <2>1. svcQueue' \in SUBSET Services
    <3>1. obj.name \in Services
      BY <1>7 DEF Check, TypeOK, ServiceAPI!Event
    <3> QED
      BY <1>0, <1>7, <3>1 DEF Check, GiveUp, ServiceAPI!Requeue
  <2> QED
    BY <1>7, <2>1 DEF Check, ServiceAPI!Next
<1>8. ASSUME NEW val, Written(val), UpdateStatus(val)
      PROVE  ServiceAPI!Next
  <2>1. obj.name \in Services /\ obj.copy.ver \in Nat /\ val \in Values
    BY <1>8, WrittenTyped, ObjTyped DEF ObjPhase
  <2>2. svcQueue' \in SUBSET Services
    BY <1>0, <1>8, <2>1 DEF UpdateStatus, GiveUp, ServiceAPI!Requeue
  <2>3. svcCache' = svcCache
    BY <1>8 DEF UpdateStatus
  <2>4. ServiceAPI!Update(obj.name, obj.copy.ver, val) \/ UNCHANGED <<svcStore, svcStream>>
    BY <1>8 DEF UpdateStatus, Save
  <2> QED
    BY <2>1, <2>2, <2>3, <2>4 DEF ServiceAPI!Next
<1>9. CASE Report \/ Assign
  BY <1>8, <1>9 DEF Report, Assign, Written
<1>10. CASE Restart
  BY <1>10 DEF Restart, ServiceAPI!Next
<1>11. CASE UNCHANGED vars
  BY <1>11 DEF vars
<1> QED
  BY <1>1, <1>2, <1>3, <1>4, <1>5, <1>6, <1>7, <1>9, <1>10, <1>11 DEF Next, Work

\* The part of TypeOK that is about the worker and the bounds.
Local ==
  /\ pc \in {"idle", "check", "report", "assign"}
  /\ obj \in ServiceAPI!Event \cup {NoObj}
  /\ want \in SUBSET Ips
  /\ pc = "idle" <=> obj = NoObj
  /\ pc = "idle" <=> want = {}
  /\ edits \in 0..MaxEdits
  /\ faults \in 0..MaxFaults

\* A worker that drops everything has its types, if the counters have theirs.
LEMMA DropTyped ==
  ASSUME Drop, edits' \in 0..MaxEdits, faults' \in 0..MaxFaults
  PROVE  Local' /\ ObjPhase'
BY DEF Drop, Local, ObjPhase

\* A Service that is taken has no address yet.
LEMMA TakeTyped ==
  ASSUME TypeOK, ObjPhase, NEW s \in Services, NEW ip \in Pool, TakeService(s, ip)
  PROVE  Local' /\ ObjPhase'
<1> DEFINE e == [name |-> s, copy |-> svcCache[s]]
           val == svcCache[s].val
<1>1. e \in ServiceAPI!Event
  BY DEF TypeOK, ServiceAPI!TypeOK, ServiceAPI!Event
<1>2. CASE HasNoIP(val) /\ val.request # BadRequest
  <2>1. pc' = "check" /\ obj' = e /\ want' = Wanted(val, ip) /\ UNCHANGED <<edits, faults>>
    BY <1>2 DEF TakeService
  <2>2. val \in Values
    BY <1>1, <1>2, ObjTyped DEF HasNoIP
  <2>3. want' \in SUBSET Ips /\ want' # {}
    BY <1>2, <2>1, <2>2, WantedTyped
  <2>4. e # NoObj
    BY <1>1, SentinelsApart DEF ServiceAPI!Event, ServiceAPI!Copy
  <2>5. Local'
    BY <1>1, <2>1, <2>3, <2>4 DEF Local, TypeOK, ServiceAPI!Event, ServiceAPI!Copy
  <2>6. obj'.copy.val = val
    BY <2>1
  <2>7. ObjPhase'
    BY <1>2, <2>1, <2>6 DEF ObjPhase, HasNoIP, Wanted
  <2> QED
    BY <2>5, <2>7
<1>3. CASE ~(HasNoIP(val) /\ val.request # BadRequest)
  BY <1>3 DEF TakeService, TypeOK, Local, ObjPhase, workVars, Wanted,
              ServiceAPI!Event, ServiceAPI!Copy
<1> QED
  BY <1>2, <1>3

\* What the worker holds stays while it goes on.
LEMMA KeepTyped ==
  ASSUME TypeOK, ObjPhase, pc # "idle", pc' \in {"report", "assign"},
         UNCHANGED <<obj, want, edits, faults>>
  PROVE  Local' /\ ObjPhase'
BY DEF TypeOK, Local, ObjPhase, Wanted, ServiceAPI!Event, ServiceAPI!Copy

\* Every step keeps the types of the worker.
LEMMA LocalStep ==
  ASSUME TypeOK, ObjPhase, [Next]_vars
  PROVE  Local' /\ ObjPhase'
<1>0. edits \in 0..MaxEdits /\ faults \in 0..MaxFaults
  BY DEF TypeOK
<1>1. ASSUME UNCHANGED workVars, edits' \in 0..MaxEdits, faults' \in 0..MaxFaults
      PROVE  Local' /\ ObjPhase'
  BY <1>1 DEF TypeOK, Local, ObjPhase, workVars, Wanted, ServiceAPI!Event, ServiceAPI!Copy
<1>2. ASSUME NEW s \in Services, NEW request \in Requests,
             CreateService(s, request) \/ Annotate(s, request) \/ DeleteService(s)
      PROVE  Local' /\ ObjPhase'
  BY <1>0, <1>1, <1>2, BoundsTyped DEF CreateService, Annotate, DeleteService, Edit
<1>3. ASSUME NEW s \in Services, DeleteService(s)
      PROVE  Local' /\ ObjPhase'
  BY <1>0, <1>1, <1>3, BoundsTyped DEF DeleteService, Edit
<1>4. CASE Deliver \/ Resync \/ UNCHANGED vars
  BY <1>0, <1>1, <1>4 DEF Deliver, Resync, vars
<1>5. ASSUME NEW s \in Services, NEW ip \in Pool, TakeService(s, ip)
      PROVE  Local' /\ ObjPhase'
  BY <1>5, TakeTyped
<1>6. ASSUME Drop, edits' = edits, faults' = faults \/ Fault
      PROVE  Local' /\ ObjPhase'
  BY <1>0, <1>6, DropTyped, FaultTyped
<1>7. CASE Check
  BY <1>6, <1>7, KeepTyped DEF Check, GiveUp
<1>8. CASE Report \/ Assign
  BY <1>6, <1>8 DEF Report, Assign, UpdateStatus, GiveUp
<1>9. CASE Restart
  BY <1>6, <1>9 DEF Restart
<1> QED
  BY <1>2, <1>3, <1>4, <1>5, <1>7, <1>8, <1>9 DEF Next, Work

\* Every step keeps all the types.
LEMMA TypingStep ==
  ASSUME TypeOK, ObjPhase, [Next]_vars
  PROVE  TypeOK' /\ ObjPhase'
<1>1. ServiceAPI!TypeOK'
  BY ServiceSteps, ServiceTypeStep DEF TypeOK
<1> QED
  BY <1>1, LocalStep DEF TypeOK, Local

\* The initial state has its types.
LEMMA InitTyped ==
  ASSUME Init
  PROVE  TypeOK /\ ObjPhase
<1>1. ServiceAPI!TypeOK
  BY DEF Init, ServiceAPI!Init, ServiceAPI!TypeOK, ServiceAPI!Copy, ServiceAPI!Event
<1> QED
  BY <1>1, BoundsTyped DEF Init, TypeOK, ObjPhase

\* The types of the service controller, for any Services and bounds: among
\* them, that Reconcile has an object and addresses exactly while it works.
THEOREM TypeCorrect == Spec => []TypeOK
<1>1. Init => TypeOK /\ ObjPhase
  BY InitTyped
<1>2. TypeOK /\ ObjPhase /\ [Next]_vars => (TypeOK /\ ObjPhase)'
  BY TypingStep
<1> QED
  BY <1>1, <1>2, PTL DEF Spec

-----------------------------------------------------------------------------
(* What the worker holds is what the server had.                           *)

\* The copy in the worker's hand is one the server did write.
ObjFaithful == obj # NoObj => ServiceAPI!Faithful(obj)

IInv == TypeOK /\ ObjPhase /\ ServiceAPI!CopiesFaithful /\ ObjFaithful

\* Copies of Services stay faithful.
LEMMA CopiesFaithfulStep ==
  ASSUME IInv, [Next]_vars
  PROVE  ServiceAPI!CopiesFaithful'
<1>1. [ServiceAPI!Next]_svcVars /\ ServiceAPI!TypeOK /\ ServiceAPI!TypeOK'
  BY ServiceSteps, TypingStep DEF IInv, TypeOK
<1>2. ASSUME NEW e \in ServiceAPI!Copies
      PROVE  ServiceAPI!Faithful(e)'
  BY <1>1, ServiceCopies, ServiceFaithfulStep DEF IInv, ServiceAPI!CopiesFaithful
<1>3. ASSUME NEW e \in ServiceAPI!Current'
      PROVE  ServiceAPI!Faithful(e)'
  BY <1>1, <1>3 DEF ServiceAPI!Current, ServiceAPI!Faithful, ServiceAPI!TypeOK, ServiceAPI!Copy
<1> QED
  BY <1>1, <1>2, <1>3, ServiceCopies DEF ServiceAPI!CopiesFaithful

\* The worker keeps what it holds, drops it, or takes it from the cache.
LEMMA ObjSteps ==
  ASSUME [Next]_vars
  PROVE  \/ obj' = obj
         \/ obj' = NoObj
         \/ \E s \in Services : obj' = [name |-> s, copy |-> svcCache[s]] /\ UNCHANGED svcStore
<1>1. CASE \/ \E s \in Services, request \in Requests : CreateService(s, request) \/ Annotate(s, request)
           \/ \E s \in Services : DeleteService(s)
           \/ Deliver \/ Resync \/ UNCHANGED vars
  BY <1>1 DEF CreateService, Annotate, DeleteService, Deliver, Resync, vars, workVars
<1>2. CASE \E s \in Services, ip \in Pool : TakeService(s, ip)
  BY <1>2 DEF TakeService, workVars
<1>3. CASE Work \/ Restart
  BY <1>3 DEF Work, Check, Report, Assign, UpdateStatus, GiveUp, Drop, Restart
<1> QED
  BY <1>1, <1>2, <1>3 DEF Next

\* So it stays faithful.
LEMMA ObjFaithfulStep ==
  ASSUME IInv, [Next]_vars
  PROVE  ObjFaithful'
<1>1. ServiceAPI!TypeOK /\ [ServiceAPI!Next]_svcVars
  BY ServiceSteps DEF IInv, TypeOK
<1>2. CASE obj' = obj
  <2> SUFFICES ASSUME obj # NoObj PROVE ServiceAPI!Faithful(obj)'
    BY <1>2 DEF ObjFaithful
  <2> DEFINE e == obj
  <2>1. obj \in ServiceAPI!Event /\ ServiceAPI!Faithful(obj)
    BY DEF IInv, TypeOK, ObjFaithful
  <2>2. \A e2 \in ServiceAPI!Event : ServiceAPI!Faithful(e2) => ServiceAPI!Faithful(e2)'
    BY <1>1, ServiceFaithfulStep
  <2> QED
    BY <1>2, <2>1, <2>2 DEF ServiceAPI!Faithful
<1>3. CASE obj' = NoObj
  BY <1>3 DEF ObjFaithful
<1>4. ASSUME NEW s \in Services, obj' = [name |-> s, copy |-> svcCache[s]], UNCHANGED svcStore
      PROVE  ObjFaithful'
  <2> DEFINE e == [name |-> s, copy |-> svcCache[s]]
  <2>1. e \in ServiceAPI!Copies
    BY DEF ServiceAPI!Copies
  <2>2. ServiceAPI!Faithful(e)
    BY <2>1 DEF IInv, ServiceAPI!CopiesFaithful
  <2> QED
    BY <1>4, <2>2 DEF ObjFaithful, ServiceAPI!Faithful
<1> QED
  BY <1>2, <1>3, <1>4, ObjSteps

\* The invariant is inductive.
LEMMA Inductive == IInv /\ [Next]_vars => IInv'
BY TypingStep, CopiesFaithfulStep, ObjFaithfulStep DEF IInv

\* It holds at the start.
LEMMA InitIInv == Init => IInv
<1> SUFFICES ASSUME Init PROVE IInv
  OBVIOUS
<1>1. TypeOK /\ ObjPhase
  BY InitTyped
<1>2. ServiceAPI!Copies = ServiceAPI!Current
  BY DEF Init, ServiceAPI!Init, ServiceAPI!Copies, ServiceAPI!Current
<1>3. ServiceAPI!CopiesFaithful
  BY <1>1, <1>2 DEF TypeOK, ServiceAPI!TypeOK, ServiceAPI!Copy, ServiceAPI!CopiesFaithful,
                    ServiceAPI!Current, ServiceAPI!Faithful
<1>4. ObjFaithful
  BY DEF Init, ObjFaithful
<1> QED
  BY <1>1, <1>3, <1>4 DEF IInv

\* It always holds.
LEMMA Invariant == Spec => []IInv
BY InitIInv, Inductive, PTL DEF Spec

-----------------------------------------------------------------------------
(* Who writes.                                                             *)

UserWrites ==
  \E s \in Services :
    \/ \E request \in Requests : CreateService(s, request) \/ Annotate(s, request)
    \/ DeleteService(s)

\* The worker's write: accepted, so it replaces the very copy it has read.
LEMMA WorkerReplaces ==
  ASSUME IInv, NEW val, Written(val), Save(val)
  PROVE  /\ obj.name \in Services
         /\ svcStore[obj.name] = obj.copy
         /\ svcStore'[obj.name].val = val
         /\ \A s \in Services \ {obj.name} : svcStore'[s] = svcStore[s]
<1>1. obj \in ServiceAPI!Event /\ obj # NoObj
  BY WrittenTyped DEF IInv
<1>2. obj.name \in Services
  BY <1>1 DEF ServiceAPI!Event
<1>3. svcStore[obj.name] = obj.copy
  BY <1>1 DEF Save, ServiceAPI!Update, ServiceAPI!Accepts, IInv, ObjFaithful, ServiceAPI!Faithful
<1>4. svcStore' = [svcStore EXCEPT ![obj.name] = [ver |-> svcStore[obj.name].ver + 1, val |-> val]]
  BY DEF Save, ServiceAPI!Update, ServiceAPI!Write
<1>5. svcStore'[obj.name] = [ver |-> svcStore[obj.name].ver + 1, val |-> val]
  BY <1>2, <1>4 DEF IInv, TypeOK, ServiceAPI!TypeOK
<1>6. \A s \in Services \ {obj.name} : svcStore'[s] = svcStore[s]
  BY <1>4 DEF IInv, TypeOK, ServiceAPI!TypeOK
<1> QED
  BY <1>2, <1>3, <1>5, <1>6

\* A user's write leaves the addresses of a Service alone.
LEMMA UserKeepsIngress ==
  ASSUME TypeOK, UserWrites, NEW s \in Services, Lives(s)
  PROVE  svcStore'[s].val.ingress = svcStore[s].val.ingress
<1>1. ASSUME NEW t \in Services, NEW val, ServiceAPI!Write(t, val)
      PROVE  /\ svcStore'[t].val = val
             /\ s # t => svcStore'[s] = svcStore[s]
  <2>1. svcStore' = [svcStore EXCEPT ![t] = [ver |-> svcStore[t].ver + 1, val |-> val]]
    BY <1>1 DEF ServiceAPI!Write
  <2>2. svcStore'[t] = [ver |-> svcStore[t].ver + 1, val |-> val]
    BY <2>1 DEF TypeOK, ServiceAPI!TypeOK
  <2> QED
    BY <2>1, <2>2 DEF TypeOK, ServiceAPI!TypeOK
<1>2. ASSUME NEW t \in Services, NEW request \in Requests, CreateService(t, request)
      PROVE  s # t /\ svcStore'[s] = svcStore[s]
  BY <1>1, <1>2 DEF CreateService, ServiceAPI!Create, ServiceAPI!Present, Lives
<1>3. ASSUME NEW t \in Services, DeleteService(t)
      PROVE  s # t /\ svcStore'[s] = svcStore[s]
  BY <1>1, <1>3 DEF DeleteService, ServiceAPI!Delete, Lives
<1>4. ASSUME NEW t \in Services, NEW request \in Requests, Annotate(t, request)
      PROVE  svcStore'[s].val.ingress = svcStore[s].val.ingress
  <2> DEFINE val == [svcStore[t].val EXCEPT !.request = request]
  <2>1. ServiceAPI!Write(t, val)
    BY <1>4 DEF Annotate, ServiceAPI!Update
  <2>2. svcStore[t].val \in Values
    BY <1>4 DEF Annotate, TypeOK, ServiceAPI!TypeOK, ServiceAPI!Copy
  <2>3. val.ingress = svcStore[t].val.ingress
    BY <2>2 DEF Values
  <2> HIDE DEF val
  <2> QED
    BY <1>1, <2>1, <2>3
<1> QED
  BY <1>2, <1>3, <1>4 DEF UserWrites

\* Who can have changed a Service: a user, or the worker.
LEMMA Writers ==
  ASSUME [Next]_vars
  PROVE  \/ UserWrites
         \/ \E val : Written(val) /\ Save(val)
         \/ UNCHANGED svcStore
<1>1. CASE \/ \E s \in Services, request \in Requests : CreateService(s, request) \/ Annotate(s, request)
           \/ \E s \in Services : DeleteService(s)
  BY <1>1 DEF UserWrites
<1>2. CASE \/ Deliver \/ Resync \/ Check \/ Restart \/ UNCHANGED vars
           \/ \E s \in Services, ip \in Pool : TakeService(s, ip)
  BY <1>2 DEF Deliver, Resync, Check, Restart, TakeService, vars, svcVars,
              ServiceAPI!Arrive, ServiceAPI!List
<1>3. CASE Report
  BY <1>3 DEF Report, UpdateStatus, Written
<1>4. CASE Assign
  BY <1>4 DEF Assign, UpdateStatus, Written
<1> QED
  BY <1>1, <1>2, <1>3, <1>4 DEF Next, Work

-----------------------------------------------------------------------------
(* The theorems.                                                           *)

\* A Service that has addresses keeps exactly them, though Reconcile decides
\* from a copy that may still show none (AssignedOnce of LoadBalancer).
THEOREM AddressesKept == Spec => AssignedOnce
<1> DEFINE Kept == \A s \in Services :
                     Lives(s) /\ svcStore[s].val.ingress # {}
                       => svcStore'[s].val.ingress = svcStore[s].val.ingress
<1>1. ASSUME IInv, [Next]_vars
      PROVE  Kept
  <2> SUFFICES ASSUME NEW s \in Services, Lives(s), svcStore[s].val.ingress # {}
               PROVE  svcStore'[s].val.ingress = svcStore[s].val.ingress
    OBVIOUS
  <2>1. CASE UserWrites
    BY <1>1, <2>1, UserKeepsIngress DEF IInv
  <2>2. ASSUME NEW val, Written(val), Save(val)
        PROVE  svcStore'[s] = svcStore[s]
    <3>1. s # obj.name
      BY <1>1, <2>2, WorkerReplaces, WrittenTyped DEF IInv, ObjPhase
    <3> QED
      BY <1>1, <2>2, <3>1, WorkerReplaces
  <2> QED
    BY <1>1, <2>1, <2>2, Writers
<1>2. IInv /\ [Next]_vars => [Kept]_vars
  BY <1>1
<1> QED
  BY <1>2, Invariant, PTL DEF Spec, AssignedOnce

\* What is assigned is what the annotation asks for when the assignment is
\* accepted (HonoursAnnotation of LoadBalancer).
THEOREM AnnotationHonoured == Spec => HonoursAnnotation
<1> DEFINE Honours ==
      \A s \in Services :
        Lives(s) /\ svcStore[s].val.ingress = {} /\ svcStore'[s].val.ingress # {}
          => LET request == svcStore[s].val.request
             IN IF request = {} THEN \E ip \in Pool : svcStore'[s].val.ingress = {ip}
                ELSE svcStore'[s].val.ingress = request
<1>1. ASSUME IInv, [Next]_vars
      PROVE  Honours
  <2> SUFFICES ASSUME NEW s \in Services, Lives(s),
                      svcStore[s].val.ingress = {}, svcStore'[s].val.ingress # {}
               PROVE  IF svcStore[s].val.request = {}
                      THEN \E ip \in Pool : svcStore'[s].val.ingress = {ip}
                      ELSE svcStore'[s].val.ingress = svcStore[s].val.request
    OBVIOUS
  <2>1. ~UserWrites
    BY <1>1, UserKeepsIngress DEF IInv
  <2>2. PICK val : Written(val) /\ Save(val)
    BY <1>1, <2>1, Writers
  <2>3. s = obj.name
    BY <1>1, <2>2, WorkerReplaces
  <2>4. svcStore[s].val = obj.copy.val /\ svcStore'[s].val = val
    BY <1>1, <2>2, <2>3, WorkerReplaces
  <2>5. val.ingress = want /\ obj # NoObj
    BY <1>1, <2>2, <2>4, WrittenTyped DEF IInv
  <2>6. \E ip \in Pool : want = Wanted(svcStore[s].val, ip)
    BY <1>1, <2>4, <2>5 DEF IInv, ObjPhase
  <2> QED
    BY <2>4, <2>5, <2>6 DEF Wanted
<1>2. IInv /\ [Next]_vars => [Honours]_vars
  BY <1>1
<1> QED
  BY <1>2, Invariant, PTL DEF Spec, HonoursAnnotation
=============================================================================
