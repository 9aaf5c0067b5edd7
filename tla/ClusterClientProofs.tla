------------------------ MODULE ClusterClientProofs ------------------------
(***************************************************************************)
(* ClusterClient for any nodes, objects, keys, Secrets, servers, networks, *)
(* addresses and bounds.                                                   *)
(***************************************************************************)
EXTENDS ClusterClient, SequenceFacts

-----------------------------------------------------------------------------
(* What wgcSync does to one interface.                                     *)

PeerEntries == [server : Servers, routes : SUBSET Nets]
PeerMaps == [Servers -> (SUBSET Nets) \cup {NoPeer}]

\* The kernel makes peers of peers.
LEMMA WithPeerTyped ==
  ASSUME NEW peers \in PeerMaps, NEW pc \in PeerEntries
  PROVE  WithPeer(peers, pc) \in PeerMaps /\ WithPeer(peers, pc)[pc.server] = pc.routes
BY DEF WithPeer, PeerMaps, PeerEntries

\* A list of peers makes peers of peers, and what its last entry asks for is
\* there in the end: none comes after it that could take a network away.
LEMMA ConfiguredFacts ==
  ASSUME NEW peers \in PeerMaps, NEW list \in Seq(PeerEntries)
  PROVE  LET after == Configured(peers, list)[Len(list)]
         IN  /\ after \in PeerMaps
             /\ Len(list) > 0 => after[list[Len(list)].server] = list[Len(list)].routes
<1> DEFINE n == Len(list)
           k == Configured(peers, list)
           step(i) == [p \in PeerMaps |-> WithPeer(p, list[i])]
           F == [i \in 1..n |-> step(i)]
           Body(g) == [i \in 0..n |-> IF i = 0 THEN peers ELSE WithPeer(g[i - 1], list[i])]
<1>1. n \in Nat /\ \A i \in 1..n : list[i] \in PeerEntries
  OBVIOUS
<1>2. F \in [1..n -> [PeerMaps -> PeerMaps]]
  BY <1>1, WithPeerTyped
<1>3. \A i \in 1..n : \A p \in PeerMaps : F[i][p] = WithPeer(p, list[i])
  OBVIOUS
<1> HIDE DEF F
<1>4. PICK g \in [0..n -> PeerMaps] : g[0] = peers /\ \A i \in 1..n : g[i] = F[i][g[i - 1]]
  <2> HIDE DEF n
  <2>1. Runs(PeerMaps, peers, n, F) # {}
    BY <1>1, <1>2, Recursion
  <2> QED
    BY <2>1 DEF Runs
<1>5. g = Body(g)
  <2>1. ASSUME NEW i \in 0..n, i # 0
        PROVE  g[i] = WithPeer(g[i - 1], list[i])
    <3>1. i \in 1..n /\ i - 1 \in 0..n
      BY <1>1, <2>1
    <3>2. g[i - 1] \in PeerMaps
      BY <1>4, <3>1
    <3> QED
      BY <1>3, <1>4, <3>1, <3>2
  <2> QED
    BY <1>4, <2>1
<1>6. k = CHOOSE h : h = Body(h)
  BY DEF Configured
<1> HIDE DEF Body, k
<1>7. k = Body(k)
  BY <1>5, <1>6
<1>8. k[0] = peers /\ \A i \in 1..n : k[i] = WithPeer(k[i - 1], list[i])
  <2>1. 0 \in 0..n /\ \A i \in 1..n : i \in 0..n /\ i # 0
    BY <1>1
  <2> QED
    BY <1>7, <2>1 DEF Body
<1> DEFINE S == {i \in Nat : i <= n => k[i] \in PeerMaps}
<1>9. 0 \in S
  BY <1>8
<1>10. ASSUME NEW i \in Nat, i \in S
       PROVE  i + 1 \in S
  <2> SUFFICES ASSUME i + 1 <= n PROVE k[i + 1] \in PeerMaps
    OBVIOUS
  <2>1. i + 1 \in 1..n /\ (i + 1) - 1 = i /\ k[i] \in PeerMaps
    BY <1>1, <1>10
  <2>2. k[i + 1] = WithPeer(k[i], list[i + 1]) /\ list[i + 1] \in PeerEntries
    BY <1>1, <1>8, <2>1
  <2> QED
    BY <2>1, <2>2, WithPeerTyped
<1> HIDE DEF S
<1>11. Nat \subseteq S
  BY <1>9, <1>10, Induction
<1>12. \A i \in 0..n : k[i] \in PeerMaps
  BY <1>1, <1>11 DEF S
<1>13. ASSUME n > 0
       PROVE  k[n][list[n].server] = list[n].routes
  <2>1. n \in 1..n /\ n - 1 \in 0..n
    BY <1>1, <1>13
  <2>2. k[n] = WithPeer(k[n - 1], list[n])
    BY <1>8, <2>1
  <2>3. list[n] \in PeerEntries /\ k[n - 1] \in PeerMaps
    BY <1>1, <1>12, <2>1
  <2> HIDE DEF n
  <2>4. WithPeer(k[n - 1], list[n])[list[n].server] = list[n].routes
    BY <2>3, WithPeerTyped
  <2> QED
    BY <2>2, <2>4
<1>14. k[n] \in PeerMaps
  BY <1>1, <1>12
<1> QED
  BY <1>13, <1>14 DEF k

\* The peer of the tunnel is the last in WGConfig, whatever was there before.
LEMMA RememberFacts ==
  ASSUME NEW list \in Seq(PeerEntries), NEW t \in Tunnels
  PROVE  LET new == Remember(list, t)
         IN  /\ new \in Seq(PeerEntries) /\ Len(new) > 0
             /\ new[Len(new)] = [server |-> t.server, routes |-> t.routes]
<1> DEFINE pc == [server |-> t.server, routes |-> t.routes]
           left == Without(list, {pc})
<1>1. pc \in PeerEntries
  BY DEF Tunnels, PeerEntries
<1>2. left \in Seq(PeerEntries)
  BY WithoutFacts
<1>3. Remember(list, t) = Append(left, pc)
  BY DEF Remember
<1> HIDE DEF pc, left
<1>4. Append(left, pc) \in Seq(PeerEntries) /\ Len(Append(left, pc)) = Len(left) + 1
  BY <1>1, <1>2
<1>5. Len(left) \in Nat /\ Append(left, pc)[Len(left) + 1] = pc
  BY <1>1, <1>2
<1> QED
  BY <1>3, <1>4, <1>5 DEF pc

\* Which phases come before which.
LEMMA PhaseFacts ==
  /\ DOMAIN Phases = 1..7
  /\ \A i \in 1..7 : Phases[i] \in {"start", "add", "append", "configure", "address", "route", "end"}
  /\ Reached("append", "end") /\ Reached("route", "end")
  /\ Reached("append", "configure") /\ Reached("append", "address") /\ Reached("append", "route")
  /\ ~Reached("route", "address")
<1>1. /\ DOMAIN Phases = 1..7
      /\ Phases[1] = "start" /\ Phases[2] = "add" /\ Phases[3] = "append" /\ Phases[4] = "configure"
      /\ Phases[5] = "address" /\ Phases[6] = "route" /\ Phases[7] = "end"
  BY DEF Phases
<1>2. 3 \in 1..7 /\ 4 \in 1..7 /\ 5 \in 1..7 /\ 6 \in 1..7 /\ 7 \in 1..7
  OBVIOUS
<1>3. \A i \in 1..7 : i = 1 \/ i = 2 \/ i = 3 \/ i = 4 \/ i = 5 \/ i = 6 \/ i = 7
  OBVIOUS
<1>4. \A i \in 1..7 : Phases[i] \in {"start", "add", "append", "configure", "address", "route", "end"}
  BY <1>1, <1>3
<1>5. Reached("append", "end") /\ Reached("route", "end")
  BY <1>1, <1>2 DEF Reached
<1>6. Reached("append", "configure") /\ Reached("append", "address") /\ Reached("append", "route")
  BY <1>1, <1>2 DEF Reached
<1>7. ~Reached("route", "address")
  <2>1. \A i \in 1..7 : (Phases[i] = "route" => i = 6) /\ (Phases[i] = "address" => i = 5)
    BY <1>1, <1>3
  <2> QED
    BY <1>1, <2>1 DEF Reached
<1> QED
  BY <1>1, <1>4, <1>5, <1>6, <1>7

\* Configuration makes an interface of an interface.
LEMMA ConfigureTyped ==
  ASSUME NEW link \in Links, NEW key \in Keys, NEW list \in Seq(PeerEntries)
  PROVE  LET new == ConfigureDevice(link, key, list)
         IN  /\ new \in Links /\ new.key = key
             /\ new.peers = Configured(link.peers, list)[Len(list)]
<1>1. link.peers \in PeerMaps
  BY DEF Links, PeerMaps
<1>2. Configured(link.peers, list)[Len(list)] \in PeerMaps
  BY <1>1, ConfiguredFacts
<1> QED
  BY <1>2 DEF ConfigureDevice, Links, PeerMaps

\* A sync leaves an interface, at whatever phase it stops. It has a key it had
\* or the one of the tunnel.
LEMMA LinkAtTyped ==
  ASSUME NEW phase, NEW t \in Tunnels, NEW link \in Links \cup {NoLink},
         NEW addrs \in SUBSET Addrs, NEW list \in Seq(PeerEntries)
  PROVE  LET new == LinkAt(phase, t, link, addrs, list)
         IN  /\ new \in Links \cup {NoLink}
             /\ phase # "start" => new \in Links
             /\ link # NoLink => new # NoLink
             /\ new # NoLink => new.key \in {t.key, NoKey} \/ (link # NoLink /\ new.key = link.key)
<1> DEFINE made == IF link = NoLink THEN NewLink ELSE link
           configured == ConfigureDevice(made, t.key, list)
<1>1. t.key \in Keys
  BY DEF Tunnels
<1>2. NewLink \in Links /\ NewLink.key = NoKey
  BY DEF NewLink, Links
<1>3. made \in Links
  BY <1>2
<1>4. configured \in Links /\ configured.key = t.key
  BY <1>1, <1>3, ConfigureTyped
<1> HIDE DEF configured
<1>5. [configured EXCEPT !.addrs = addrs] \in Links /\ [configured EXCEPT !.addrs = addrs].key = t.key
  BY <1>4 DEF Links
<1>6. LinkAt(phase, t, link, addrs, list) =
        IF phase = "start" THEN link
        ELSE IF phase \in {"add", "append"} THEN made ELSE [configured EXCEPT !.addrs = addrs]
  BY DEF LinkAt, configured
<1>7. CASE phase = "start"
  BY <1>6, <1>7
<1>8. CASE phase # "start" /\ phase \in {"add", "append"}
  BY <1>2, <1>3, <1>6, <1>8, LinksApart
<1>9. CASE phase # "start" /\ phase \notin {"add", "append"}
  BY <1>5, <1>6, <1>9, LinksApart
<1> QED
  BY <1>7, <1>8, <1>9

\* A sync that came to the end has made the tunnel as its object asks for it,
\* whatever peers other tunnels left in WGConfig and in the interface.
LEMMA EndCarries ==
  ASSUME NEW t \in Tunnels, NEW link \in Links \cup {NoLink}, NEW list \in Seq(PeerEntries),
         NEW addrs \in AddrsAt("end", t, IF link = NoLink THEN {} ELSE link.addrs)
  PROVE  Carries(LinkAt("end", t, link, addrs, ConfAt("end", t, list)), t)
<1> DEFINE made == IF link = NoLink THEN NewLink ELSE link
           new == Remember(list, t)
           configured == ConfigureDevice(made, t.key, new)
<1>1. t.key \in Keys
  BY DEF Tunnels
<1>2. ConfAt("end", t, list) = new
  BY PhaseFacts DEF ConfAt
<1>3. new \in Seq(PeerEntries) /\ Len(new) > 0 /\ new[Len(new)] = [server |-> t.server, routes |-> t.routes]
  BY RememberFacts
<1>4. addrs = {t.addr}
  <2>1. AddrsAt("end", t, IF link = NoLink THEN {} ELSE link.addrs) = {{t.addr}}
    BY PhaseFacts DEF AddrsAt
  <2> QED
    BY <2>1
<1>5. made \in Links /\ made.peers \in PeerMaps
  BY DEF NewLink, Links, PeerMaps
<1>6. LinkAt("end", t, link, addrs, new) = [configured EXCEPT !.addrs = addrs]
  BY DEF LinkAt
<1> HIDE DEF new, made
<1>7. configured \in Links /\ configured.key = t.key /\ configured.peers = Configured(made.peers, new)[Len(new)]
  BY <1>1, <1>3, <1>5, ConfigureTyped
<1>8. configured.peers[t.server] = t.routes
  <2>1. configured.peers[new[Len(new)].server] = new[Len(new)].routes
    BY <1>3, <1>5, <1>7, ConfiguredFacts
  <2> QED
    BY <1>3, <2>1
<1> HIDE DEF configured
<1> DEFINE made2 == [configured EXCEPT !.addrs = addrs]
<1>9. /\ made2 \in Links /\ made2.key = t.key /\ made2.peers[t.server] = t.routes
      /\ made2.addrs = {t.addr}
  BY <1>4, <1>7, <1>8 DEF Links, Tunnels
<1>10. made2 # NoLink
  BY <1>9, LinksApart
<1> QED
  BY <1>2, <1>6, <1>9, <1>10 DEF Carries

-----------------------------------------------------------------------------
(* Types.                                                                  *)

Copy == [ver : Nat, val : Values \cup {Absent}]
Event == [name : Clients, copy : Copy]

ObjTyped ==
  /\ store \in [Clients -> Copy]
  /\ stream \in [Nodes -> Seq(Event)]
  /\ cache \in [Nodes -> [Clients -> Copy]]
  /\ queue \in [Nodes -> SUBSET Clients]

KeyTyped ==
  /\ secret \in [SecretNames -> Keys \cup {BadKey, NoKey}]
  /\ seen \in [Nodes -> [SecretNames -> Keys \cup {BadKey, NoKey}]]

\* A worker reconciles an object, and is at one of its tunnels or past the last.
WorkerOK(k) ==
  /\ k \in Works
  /\ k.pc = "idle" => k = Idle
  /\ k.pc = "publish" <=> k.cur # NoCur
  /\ k.pc # "idle" => k.name \in Clients
  /\ k.turn \in 1..(Len(k.peers) + 1)
WorkTyped == work \in [Nodes -> Works] /\ \A n \in Nodes : WorkerOK(work[n])

HostTyped ==
  /\ conf \in [Nodes -> Seq(PeerEntries)]
  /\ links \in [Nodes -> [Clients -> Links \cup {NoLink}]]
  /\ table \in [Nodes -> [Nets -> Clients \cup {NoLink}]]
  /\ \A n \in Nodes, d \in Nets : table[n][d] # NoLink => links[n][table[n][d]] # NoLink
  /\ ready \in [Nodes -> SUBSET Clients]

HistoryTyped ==
  /\ published \subseteq Clients \X Nodes \X Keys
  /\ edits \in 0..MaxEdits
  /\ faults \in 0..MaxFaults

Typed == ObjTyped /\ KeyTyped /\ WorkTyped /\ HostTyped /\ HistoryTyped

\* Together they are the types.
LEMMA TypedIsTypeOK ==
  ASSUME Typed
  PROVE  TypeOK
<1>1. \A n \in Nodes : API(n)!TypeOK
  BY DEF Typed, ObjTyped, API!TypeOK, API!Copy, API!Event, Copy, Event
<1> QED
  BY <1>1 DEF Typed, KeyTyped, WorkTyped, WorkerOK, HostTyped, HistoryTyped, TypeOK, PeerEntries

\* The contents of objects.
LEMMA ValueFacts ==
  /\ \A val \in Values : val.spec \in Specs /\ val.keys \in [Nodes -> Keys \cup {NoKey}] /\ val # Absent
  /\ \A spec \in Specs : [spec |-> spec, keys |-> NoKeys] \in Values
  /\ \A val \in Values, spec \in Specs : [val EXCEPT !.spec = spec] \in Values
  /\ \A val \in Values, n \in Nodes, key \in Keys : WithKey(val, n, key) \in Values
<1>1. \A val \in Values : val.spec \in Specs /\ val.keys \in [Nodes -> Keys \cup {NoKey}] /\ val # Absent
  BY SentinelsApart DEF Values
<1>2. \A val \in Values, spec \in Specs : [val EXCEPT !.spec = spec] \in Values
  BY DEF Values
<1>3. \A spec \in Specs : [spec |-> spec, keys |-> NoKeys] \in Values
  BY DEF Values, NoKeys
<1>4. \A val \in Values, n \in Nodes, key \in Keys : WithKey(val, n, key) \in Values
  BY DEF Values, WithKey
<1> QED
  BY <1>1, <1>2, <1>3, <1>4

\* A write keeps the types.
LEMMA WriteTyped ==
  ASSUME ObjTyped, published \subseteq Clients \X Nodes \X Keys,
         NEW w \in Clients, NEW val \in Values \cup {Absent}, Write(w, val)
  PROVE  /\ store' \in [Clients -> Copy] /\ stream' \in [Nodes -> Seq(Event)]
         /\ published' \subseteq Clients \X Nodes \X Keys
<1> DEFINE copy == [ver |-> store[w].ver + 1, val |-> val]
           e == [name |-> w, copy |-> copy]
<1>1. copy \in Copy
  BY DEF ObjTyped, Copy
<1>2. e \in Event
  BY <1>1 DEF Event
<1>3. store' = [store EXCEPT ![w] = copy] /\ stream' = [n \in Nodes |-> Append(stream[n], e)]
  BY DEF Write
<1> HIDE DEF copy, e
<1>4. store' \in [Clients -> Copy]
  BY <1>1, <1>3 DEF ObjTyped
<1>5. stream' \in [Nodes -> Seq(Event)]
  BY <1>2, <1>3 DEF ObjTyped
<1>6. ASSUME NEW x \in Published(store')
      PROVE  x \in Clients \X Nodes \X Keys
  <2>1. PICK v \in Clients : /\ store'[v].val # Absent
                             /\ \E n \in Nodes : /\ store'[v].val.keys[n] # NoKey
                                                 /\ x = <<v, n, store'[v].val.keys[n]>>
    BY DEF Published
  <2>2. store'[v].val \in Values
    BY <1>4, <2>1 DEF Copy
  <2>3. store'[v].val.keys \in [Nodes -> Keys \cup {NoKey}]
    BY <2>2, ValueFacts
  <2> QED
    BY <2>1, <2>3
<1>7. published' = published \cup Published(store')
  BY DEF Write
<1> QED
  BY <1>4, <1>5, <1>6, <1>7

\* The edits of users keep the types.
LEMMA EditTyped ==
  ASSUME Typed,
         \/ \E w \in Clients, spec \in Specs : CreateClient(w, spec) \/ EditClient(w, spec)
         \/ \E w \in Clients : DeleteClient(w)
         \/ \E s \in SecretNames : DeleteSecret(s)
  PROVE  Typed'
<1>1. Edit
  BY DEF CreateClient, EditClient, DeleteClient, DeleteSecret
<1>2. edits' \in 0..MaxEdits
  BY <1>1, BoundsTyped DEF Edit, Typed, HistoryTyped
<1>3. UNCHANGED <<cache, queue, seen, work, conf, links, table, ready, faults>>
  BY <1>1 DEF Edit, hostVars
<1>4. CASE \E w \in Clients, val \in Values \cup {Absent} : Write(w, val) /\ UNCHANGED secret
  BY <1>2, <1>3, <1>4, WriteTyped
     DEF Typed, ObjTyped, KeyTyped, WorkTyped, HostTyped, HistoryTyped
<1>5. CASE UNCHANGED <<store, stream, published>> /\ KeyTyped'
  BY <1>2, <1>3, <1>5 DEF Typed, ObjTyped, WorkTyped, HostTyped, HistoryTyped
<1>6. ASSUME NEW w \in Clients, NEW spec \in Specs, CreateClient(w, spec)
      PROVE  \E val \in Values \cup {Absent} : Write(w, val) /\ UNCHANGED secret
  BY <1>6, ValueFacts DEF CreateClient
<1>7. ASSUME NEW w \in Clients, NEW spec \in Specs, EditClient(w, spec)
      PROVE  \E val \in Values \cup {Absent} : Write(w, val) /\ UNCHANGED secret
  <2>1. store[w].val \in Values
    BY <1>7 DEF EditClient, Typed, ObjTyped, Copy
  <2> QED
    BY <1>7, <2>1, ValueFacts DEF EditClient
<1>8. ASSUME NEW w \in Clients, DeleteClient(w)
      PROVE  \E val \in Values \cup {Absent} : Write(w, val) /\ UNCHANGED secret
  BY <1>8 DEF DeleteClient
<1>9. ASSUME NEW s \in SecretNames, DeleteSecret(s)
      PROVE  UNCHANGED <<store, stream, published>> /\ KeyTyped'
  BY <1>3, <1>9 DEF DeleteSecret, Typed, KeyTyped
<1> QED
  BY <1>4, <1>5, <1>6, <1>7, <1>8, <1>9

\* The worker that waits.
LEMMA IdleOK == WorkerOK(Idle)
<1>1. <<>> \in Seq(Tunnels) /\ Len(<<>>) = 0 /\ 1 \in 1..(0 + 1)
  OBVIOUS
<1> QED
  BY <1>1 DEF WorkerOK, Idle, Works

\* A step of one worker leaves the others alone.
LEMMA WorkSet ==
  ASSUME WorkTyped, NEW n \in Nodes, NEW k, WorkerOK(k), work' = [work EXCEPT ![n] = k]
  PROVE  WorkTyped'
BY DEF WorkTyped, WorkerOK

\* An error ends the Reconcile and brings the name back.
LEMMA GiveUpTyped ==
  ASSUME WorkTyped, queue \in [Nodes -> SUBSET Clients], NEW n \in Nodes,
         work[n].pc # "idle", GiveUp(n)
  PROVE  WorkTyped' /\ queue' \in [Nodes -> SUBSET Clients] /\ work' = [work EXCEPT ![n] = Idle]
<1>1. work[n].name \in Clients
  BY DEF WorkTyped, WorkerOK
<1> QED
  BY <1>1, IdleOK, WorkSet DEF GiveUp

\* What a worker has in hand.
TodoEvents == [name : Clients, copy : [ver : Nat, val : Values]]
CurObjects == [name : Clients, copy : [ver : Nat, val : Values], key : Keys]

\* The fields of a worker.
LEMMA WorksFacts ==
  ASSUME NEW k \in Works
  PROVE  /\ k.todo \subseteq TodoEvents /\ k.cur \in CurObjects \cup {NoCur}
         /\ k.peers \in Seq(Tunnels) /\ k.turn \in Nat
         /\ k = [pc |-> k.pc, name |-> k.name, todo |-> k.todo, cur |-> k.cur,
                 peers |-> k.peers, turn |-> k.turn]
BY DEF Works, TodoEvents, CurObjects

\* Take keeps the types.
LEMMA TakeTyped ==
  ASSUME Typed, NEW n \in Nodes, NEW w \in Clients, Take(n, w)
  PROVE  Typed'
<1> DEFINE k == [Idle EXCEPT !.pc = "list", !.name = w]
<1>1. WorkTyped'
  <2>1. <<>> \in Seq(Tunnels) /\ Len(<<>>) = 0 /\ 1 \in 1..(0 + 1)
    OBVIOUS
  <2>2. WorkerOK(k)
    BY <2>1 DEF WorkerOK, Idle, Works
  <2>3. WorkTyped
    BY DEF Typed
  <2>4. work' = work \/ work' = [work EXCEPT ![n] = k]
    BY DEF Take
  <2> HIDE DEF k
  <2>5. CASE work' = work
    BY <2>3, <2>5 DEF WorkTyped, WorkerOK
  <2> QED
    BY <2>2, <2>3, <2>4, <2>5, WorkSet
<1>2. queue' \in [Nodes -> SUBSET Clients]
  BY DEF Take, Typed, ObjTyped
<1> QED
  BY <1>1, <1>2
     DEF Take, keyVars, hostVars, Typed, ObjTyped, KeyTyped, HostTyped, HistoryTyped

\* A fault is one of those there may be.
LEMMA FaultTyped ==
  ASSUME HistoryTyped, Fault \/ UNCHANGED faults
  PROVE  faults' \in 0..MaxFaults
BY BoundsTyped DEF HistoryTyped, Fault

\* List keeps the types.
LEMMA ListTyped ==
  ASSUME Typed, NEW n \in Nodes, List(n)
  PROVE  Typed'
<1> DEFINE k == [work[n] EXCEPT !.pc = "resolve", !.todo = Listing(n)]
<1>1. work[n].pc = "list" /\ WorkTyped /\ work \in [Nodes -> Works] /\ WorkerOK(work[n])
  BY DEF List, Typed, WorkTyped
<1>2. Listing(n) \subseteq TodoEvents
  <2>1. \A w \in Clients : cache[n][w] \in Copy
    BY DEF Typed, ObjTyped
  <2> QED
    BY <2>1 DEF Listing, TodoEvents, Copy
<1>3. WorkerOK(k)
  BY <1>1, <1>2 DEF WorkerOK, Works, TodoEvents
<1>4. CASE work' = [work EXCEPT ![n].pc = "resolve", ![n].todo = Listing(n)] /\ UNCHANGED <<queue, faults>>
  <2>1. work' = [work EXCEPT ![n] = k]
    BY <1>1, <1>4
  <2> HIDE DEF k
  <2>2. WorkTyped'
    BY <1>1, <1>3, <2>1, WorkSet
  <2> QED
    BY <1>4, <2>2
       DEF List, keyVars, hostVars, Typed, ObjTyped, KeyTyped, HostTyped, HistoryTyped
<1>5. CASE Fault /\ GiveUp(n)
  <2>1. WorkTyped' /\ queue' \in [Nodes -> SUBSET Clients]
    BY <1>1, <1>5, GiveUpTyped DEF Typed, ObjTyped
  <2>2. faults' \in 0..MaxFaults
    BY <1>5, FaultTyped DEF Typed
  <2> QED
    BY <2>1, <2>2
       DEF List, keyVars, hostVars, Typed, ObjTyped, KeyTyped, HostTyped, HistoryTyped
<1> QED
  BY <1>4, <1>5 DEF List

\* The name of a Secret, and the key that Reconcile finds in its cache.
LEMMA SourceFacts ==
  ASSUME NEW n \in Nodes, NEW e \in TodoEvents
  PROVE  LET source == e.copy.val.spec.source[n]
         IN  /\ source \in Sources /\ source # NoKey
             /\ IsRef(source) => SecretName(e.name, n, source) \in SecretNames
             /\ e.copy.val \in Values /\ e.name \in Clients
<1> DEFINE source == e.copy.val.spec.source[n]
<1>1. e.copy.val \in Values /\ e.name \in Clients
  BY DEF TodoEvents
<1>2. e.copy.val.spec \in [source : [Nodes -> Sources], server : Servers, routes : SUBSET Nets,
                           addr : Addrs, flaw : Flaws]
  BY <1>1, ValueFacts, SpecsTyped
<1>3. source \in Sources
  BY <1>2
<1>4. source # NoKey
  BY <1>3, SentinelsApart, NamesTyped DEF Sources
<1>5. IsRef(source) => SecretName(e.name, n, source) \in SecretNames
  BY <1>1, NamesTyped DEF IsRef, SecretName
<1> QED
  BY <1>1, <1>3, <1>4, <1>5

\* A worker that has found a key.
LEMMA FoundTyped ==
  ASSUME WorkTyped, NEW n \in Nodes, NEW e \in work[n].todo, NEW key \in Keys,
         work[n].pc = "resolve", Found(n, e, key)
  PROVE  /\ WorkTyped'
         /\ work' = [work EXCEPT ![n] =
              [work[n] EXCEPT !.pc = "publish", !.todo = work[n].todo \ {e},
                              !.cur = [name |-> e.name, copy |-> e.copy, key |-> key]]]
<1> DEFINE cur == [name |-> e.name, copy |-> e.copy, key |-> key]
           k == [work[n] EXCEPT !.pc = "publish", !.todo = work[n].todo \ {e}, !.cur = cur]
<1>1. work \in [Nodes -> Works] /\ WorkerOK(work[n])
  BY DEF WorkTyped
<1>2. e \in TodoEvents
  BY <1>1, WorksFacts
<1>3. cur \in CurObjects /\ cur # NoCur
  BY <1>2, SentinelsApart DEF TodoEvents, CurObjects
<1>4. work' = [work EXCEPT ![n] = k]
  BY <1>1 DEF Found
<1> HIDE DEF cur
<1>5. WorkerOK(k)
  BY <1>1, <1>3 DEF WorkerOK, Works, CurObjects
<1> HIDE DEF k
<1>6. WorkTyped'
  BY <1>4, <1>5, WorkSet
<1> QED
  BY <1>4, <1>6 DEF k, cur

\* A Secret that is created has a key that was nowhere yet.
LEMMA CreatedIsNew ==
  ASSUME NEW s, CreateSecret(s, GeneratedKey)
  PROVE  /\ GeneratedKey \in Keys /\ GeneratedKey \notin InUse
         /\ secret[s] = NoKey /\ secret' = [secret EXCEPT ![s] = GeneratedKey]
<1>1. \E k \in Keys : k \notin InUse
  BY DEF CreateSecret
<1>2. GeneratedKey \in Keys /\ GeneratedKey \notin InUse
  BY <1>1 DEF GeneratedKey
<1> QED
  BY <1>2 DEF CreateSecret

\* The key comes from the object, from the cached Secret, or is a new one, and
\* then the Secret is created; or there is an error, perhaps after that.
Fixed(n, e, key) ==
  LET source == e.copy.val.spec.source[n]
      s == SecretName(e.name, n, source)
  IN \/ /\ key = IF IsRef(source) THEN seen[n][s] ELSE source
        /\ UNCHANGED secret
     \/ /\ IsRef(source) /\ seen[n][s] = NoKey
        /\ CreateSecret(s, GeneratedKey) /\ key = GeneratedKey

\* A Resolve finds a key or gives up.
LEMMA ResolveCases ==
  ASSUME Typed, NEW n \in Nodes, NEW e \in work[n].todo, Resolve(n, e)
  PROVE  LET source == e.copy.val.spec.source[n]
             s == SecretName(e.name, n, source)
         IN  /\ work[n].pc = "resolve" /\ e \in TodoEvents
             /\ UNCHANGED <<store, stream, cache, seen, hostVars, ready, published, edits>>
             /\ \/ /\ \E key \in Keys : Fixed(n, e, key) /\ Found(n, e, key)
                   /\ UNCHANGED <<queue, faults>>
                \/ /\ GiveUp(n)
                   /\ UNCHANGED secret \/ (IsRef(source) /\ CreateSecret(s, GeneratedKey))
                   /\ UNCHANGED faults \/ Fault
<1> DEFINE source == e.copy.val.spec.source[n]
           s == SecretName(e.name, n, source)
           key == IF IsRef(source) THEN seen[n][s] ELSE source
<1>1. e \in TodoEvents
  BY WorksFacts DEF Typed, WorkTyped
<1>2. source # NoKey
  BY <1>1, SourceFacts
<1>3. /\ work[n].pc = "resolve"
      /\ UNCHANGED <<store, stream, cache, seen, hostVars, ready, published, edits>>
  BY DEF Resolve
<1>4. \/ key \in Keys /\ Found(n, e, key) /\ UNCHANGED <<secret, queue, faults>>
      \/ key = BadKey /\ GiveUp(n) /\ UNCHANGED <<secret, faults>>
      \/ key = NoKey /\ MakeSecret(n, e, s) /\ UNCHANGED faults
      \/ IsRef(source) /\ Fault /\ GiveUp(n) /\ CreateSecret(s, GeneratedKey)
      \/ IsRef(source) /\ Fault /\ GiveUp(n) /\ UNCHANGED secret
  BY DEF Resolve
<1>5. CASE key \in Keys /\ Found(n, e, key) /\ UNCHANGED <<secret, queue, faults>>
  <2>1. Fixed(n, e, key)
    BY <1>5 DEF Fixed
  <2> QED
    BY <1>1, <1>3, <1>5, <2>1
<1>6. CASE key = NoKey /\ MakeSecret(n, e, s) /\ UNCHANGED faults
  <2>1. IsRef(source) /\ seen[n][s] = NoKey
    BY <1>2, <1>6
  <2>2. CASE CreateSecret(s, GeneratedKey) /\ Found(n, e, GeneratedKey) /\ UNCHANGED queue
    <3>1. GeneratedKey \in Keys
      BY <2>2, CreatedIsNew
    <3>2. Fixed(n, e, GeneratedKey)
      BY <2>1, <2>2 DEF Fixed
    <3> QED
      BY <1>1, <1>3, <1>6, <2>2, <3>1, <3>2
  <2>3. CASE GiveUp(n) /\ UNCHANGED secret
    BY <1>1, <1>3, <1>6, <2>3
  <2> QED
    BY <1>6, <2>2, <2>3 DEF MakeSecret
<1> QED
  BY <1>1, <1>3, <1>4, <1>5, <1>6

\* A Resolve keeps the types.
LEMMA ResolveTyped ==
  ASSUME Typed, NEW n \in Nodes, NEW e \in work[n].todo, Resolve(n, e)
  PROVE  Typed'
<1> DEFINE source == e.copy.val.spec.source[n]
           s == SecretName(e.name, n, source)
<1>1. /\ work[n].pc = "resolve" /\ e \in TodoEvents /\ WorkTyped /\ KeyTyped
      /\ UNCHANGED <<store, stream, cache, seen, hostVars, ready, published, edits>>
  BY ResolveCases DEF Typed
<1>2. IsRef(source) => s \in SecretNames
  BY <1>1, SourceFacts
<1>3. WorkTyped' /\ queue' \in [Nodes -> SUBSET Clients]
  <2>1. queue \in [Nodes -> SUBSET Clients]
    BY DEF Typed, ObjTyped
  <2>2. CASE GiveUp(n)
    BY <1>1, <2>1, <2>2, GiveUpTyped
  <2>3. CASE (\E key \in Keys : Found(n, e, key)) /\ UNCHANGED queue
    BY <1>1, <2>1, <2>3, FoundTyped
  <2> QED
    BY <2>2, <2>3, ResolveCases
<1>4. secret' \in [SecretNames -> Keys \cup {BadKey, NoKey}]
  <2>1. UNCHANGED secret \/ (IsRef(source) /\ CreateSecret(s, GeneratedKey))
    BY ResolveCases DEF Fixed
  <2>2. CASE UNCHANGED secret
    BY <1>1, <2>2 DEF KeyTyped
  <2>3. CASE IsRef(source) /\ CreateSecret(s, GeneratedKey)
    BY <1>1, <1>2, <2>3, CreatedIsNew DEF KeyTyped
  <2> QED
    BY <2>1, <2>2, <2>3
<1>5. faults' \in 0..MaxFaults
  <2>1. Fault \/ UNCHANGED faults
    BY ResolveCases
  <2> QED
    BY <2>1, FaultTyped DEF Typed
<1> QED
  BY <1>1, <1>3, <1>4, <1>5
     DEF hostVars, Typed, ObjTyped, KeyTyped, HostTyped, HistoryTyped

\* The copy a worker looks at, what it makes of it, and the tunnel it is for.
InHand(n) == [name |-> work[n].cur.name, copy |-> work[n].cur.copy]
Corrected(n) == WithKey(work[n].cur.copy.val, n, work[n].cur.key)
TunnelFor(n) ==
  LET spec == work[n].cur.copy.val.spec
  IN [name |-> work[n].cur.name, key |-> work[n].cur.key, server |-> spec.server,
      routes |-> spec.routes, addr |-> spec.addr, flaw |-> spec.flaw]
WithTunnel(n) ==
  [work[n] EXCEPT !.pc = "resolve", !.cur = NoCur, !.peers = Append(work[n].peers, TunnelFor(n))]

\* What it has in hand.
LEMMA PublishFacts ==
  ASSUME WorkTyped, NEW n \in Nodes, work[n].pc = "publish"
  PROVE  /\ work[n].cur \in CurObjects /\ work[n].cur # NoCur
         /\ InHand(n) \in TodoEvents /\ Corrected(n) \in Values
<1>1. work[n].cur \in CurObjects /\ work[n].cur # NoCur
  BY WorksFacts DEF WorkTyped, WorkerOK
<1>2. InHand(n) \in TodoEvents /\ work[n].cur.copy.val \in Values /\ work[n].cur.key \in Keys
  BY <1>1 DEF CurObjects, TodoEvents, InHand
<1> QED
  BY <1>1, <1>2, ValueFacts DEF Corrected

\* An update of the object may be accepted, refused or lost; only after one that
\* was accepted, or none was needed, there is a tunnel to make.
LEMMA PublishCases ==
  ASSUME WorkTyped, NEW n \in Nodes, Publish(n)
  PROVE  /\ work[n].pc = "publish"
         /\ UNCHANGED <<cache, keyVars, hostVars, ready, edits>>
         /\ \/ Save(InHand(n), Corrected(n))
            \/ UNCHANGED <<store, stream, published>>
         /\ \/ GiveUp(n) /\ (Fault \/ UNCHANGED faults)
            \/ /\ work' = [work EXCEPT ![n] = WithTunnel(n)]
               /\ UNCHANGED <<queue, faults>>
               /\ WorkerOK(WithTunnel(n)) /\ TunnelFor(n) \in Tunnels
               /\ \/ Save(InHand(n), Corrected(n))
                  \/ /\ Corrected(n) = work[n].cur.copy.val
                     /\ UNCHANGED <<store, stream, published>>
<1> DEFINE spec == work[n].cur.copy.val.spec
<1>1. work[n].pc = "publish" /\ UNCHANGED <<cache, keyVars, hostVars, ready, edits>>
  BY DEF Publish
<1>2. work \in [Nodes -> Works] /\ WorkerOK(work[n])
  BY DEF WorkTyped
<1>3. work[n].cur \in CurObjects
  BY <1>1, PublishFacts
<1>4. \/ Save(InHand(n), Corrected(n)) /\ Proceed(n) /\ UNCHANGED faults
      \/ GiveUp(n) /\ UNCHANGED <<store, stream, published, faults>>
      \/ Fault /\ GiveUp(n) /\ UNCHANGED <<store, stream, published>>
      \/ Fault /\ GiveUp(n) /\ Save(InHand(n), Corrected(n))
      \/ /\ Corrected(n) = work[n].cur.copy.val
         /\ Proceed(n) /\ UNCHANGED <<store, stream, published, faults>>
  BY DEF Publish, InHand, Corrected
<1>5. ASSUME Proceed(n), ~GiveUp(n)
      PROVE  /\ work' = [work EXCEPT ![n] = WithTunnel(n)] /\ UNCHANGED queue
             /\ WorkerOK(WithTunnel(n)) /\ TunnelFor(n) \in Tunnels
  <2>1. work' = [work EXCEPT ![n].pc = "resolve", ![n].cur = NoCur,
                             ![n].peers = Append(@, TunnelFor(n))]
        /\ UNCHANGED queue /\ spec.flaw # "server"
    BY <1>5 DEF Proceed, TunnelFor
  <2>2. work' = [work EXCEPT ![n] = WithTunnel(n)]
    BY <1>2, <2>1 DEF WithTunnel
  <2>3. spec \in [source : [Nodes -> Sources], server : Servers, routes : SUBSET Nets,
                  addr : Addrs, flaw : Flaws]
    <3>1. spec \in Specs
      BY <1>3, ValueFacts DEF CurObjects
    <3> QED
      BY <3>1, SpecsTyped
  <2>4. TunnelFor(n) \in Tunnels
    BY <1>3, <2>1, <2>3 DEF CurObjects, TunnelFor, Tunnels, Flaws
  <2> DEFINE t == TunnelFor(n)
             new == Append(work[n].peers, t)
  <2>5. new \in Seq(Tunnels) /\ Len(new) = Len(work[n].peers) + 1 /\ Len(work[n].peers) \in Nat
    <3>1. work[n].peers \in Seq(Tunnels)
      BY <1>2, WorksFacts
    <3> HIDE DEF t
    <3> QED
      BY <2>4, <3>1 DEF t
  <2>6. work[n].turn \in 1..(Len(new) + 1)
    BY <1>2, <2>5 DEF WorkerOK
  <2>7. work[n].name \in Clients
    BY <1>1, <1>2 DEF WorkerOK
  <2> HIDE DEF new
  <2>8. WorkerOK([work[n] EXCEPT !.pc = "resolve", !.cur = NoCur, !.peers = new])
    BY <1>2, <2>5, <2>6, <2>7 DEF WorkerOK, Works
  <2> QED
    BY <2>1, <2>2, <2>4, <2>8 DEF WithTunnel, new
<1> QED
  BY <1>1, <1>4, <1>5

\* A Publish keeps the types.
LEMMA PublishTyped ==
  ASSUME Typed, NEW n \in Nodes, Publish(n)
  PROVE  Typed'
<1>1. /\ work[n].pc = "publish" /\ WorkTyped /\ ObjTyped
      /\ UNCHANGED <<cache, keyVars, hostVars, ready, edits>>
  BY PublishCases DEF Typed
<1>2. /\ store' \in [Clients -> Copy] /\ stream' \in [Nodes -> Seq(Event)]
      /\ published' \subseteq Clients \X Nodes \X Keys
  <2>1. InHand(n).name \in Clients /\ Corrected(n) \in Values
    BY <1>1, PublishFacts DEF TodoEvents
  <2>2. CASE UNCHANGED <<store, stream, published>>
    BY <2>2 DEF Typed, ObjTyped, HistoryTyped
  <2>3. CASE Write(InHand(n).name, Corrected(n))
    BY <1>1, <2>1, <2>3, WriteTyped DEF Typed, HistoryTyped
  <2> QED
    BY <1>1, <2>2, <2>3, PublishCases DEF Save
<1>3. WorkTyped' /\ queue' \in [Nodes -> SUBSET Clients] /\ (Fault \/ UNCHANGED faults)
  <2>1. queue \in [Nodes -> SUBSET Clients]
    BY <1>1 DEF ObjTyped
  <2>2. CASE GiveUp(n) /\ (Fault \/ UNCHANGED faults)
    BY <1>1, <2>1, <2>2, GiveUpTyped
  <2>3. CASE /\ work' = [work EXCEPT ![n] = WithTunnel(n)]
             /\ UNCHANGED <<queue, faults>> /\ WorkerOK(WithTunnel(n))
    BY <1>1, <2>1, <2>3, WorkSet
  <2> QED
    BY <1>1, <2>2, <2>3, PublishCases
<1>4. faults' \in 0..MaxFaults
  BY <1>3, FaultTyped DEF Typed
<1> QED
  BY <1>1, <1>2, <1>3, <1>4
     DEF keyVars, hostVars, Typed, ObjTyped, KeyTyped, HostTyped, HistoryTyped

\* The addresses an interface may have at a phase are addresses.
LEMMA AddrsAtTyped ==
  ASSUME NEW phase, NEW t \in Tunnels, NEW old \in SUBSET Addrs, NEW addrs \in AddrsAt(phase, t, old)
  PROVE  addrs \in SUBSET Addrs
<1>1. t.addr \in Addrs
  BY DEF Tunnels
<1>2. AddrsAt(phase, t, old) =
        IF phase = "address" THEN {{t.addr} \cup left : left \in SUBSET old}
        ELSE IF Reached("route", phase) THEN {{t.addr}} ELSE {old}
  BY PhaseFacts DEF AddrsAt
<1>3. CASE phase = "address"
  BY <1>1, <1>2, <1>3
<1>4. CASE phase # "address" /\ Reached("route", phase)
  BY <1>1, <1>2, <1>4
<1>5. CASE phase # "address" /\ ~Reached("route", phase)
  BY <1>2, <1>5
<1> QED
  BY <1>3, <1>4, <1>5

\* A sync routes networks to its interface only, and only when that exists.
LEMMA TablesAtTyped ==
  ASSUME NEW phase, NEW t \in Tunnels, NEW old \in [Nets -> Clients \cup {NoLink}],
         NEW x \in TablesAt(phase, t, old)
  PROVE  /\ x \in [Nets -> Clients \cup {NoLink}]
         /\ \A d \in Nets : x[d] # NoLink =>
              x[d] = old[d] \/ (x[d] = t.name /\ phase \in {"route", "end"})
<1>1. t.name \in Clients
  BY DEF Tunnels
<1>2. TablesAt(phase, t, old) =
        IF phase = "route"
        THEN {Routed(old, t, nets) : nets \in SUBSET t.routes} \cup
             {Unrouted(Routed(old, t, t.routes), t.name, nets) : nets \in SUBSET (Nets \ t.routes)}
        ELSE IF phase = "end"
        THEN {Unrouted(Routed(old, t, t.routes), t.name, Nets \ t.routes)}
        ELSE {old}
  BY DEF TablesAt
<1> DEFINE Fine(y) == /\ y \in [Nets -> Clients \cup {NoLink}]
                      /\ \A d \in Nets : y[d] # NoLink => y[d] = old[d] \/ y[d] = t.name
<1>3. \A nets : Fine(Routed(old, t, nets))
  BY <1>1 DEF Routed
<1>4. \A nets : Fine(Unrouted(Routed(old, t, t.routes), t.name, nets))
  <2> DEFINE y == Routed(old, t, t.routes)
  <2>1. Fine(y)
    BY <1>3
  <2> HIDE DEF y
  <2>2. \A nets : Fine(Unrouted(y, t.name, nets))
    BY <2>1 DEF Unrouted
  <2> QED
    BY <2>2 DEF y
<1> HIDE DEF Fine
<1>5. CASE phase \in {"route", "end"}
  <2>1. Fine(x)
    BY <1>2, <1>3, <1>4, <1>5
  <2> QED
    BY <1>5, <2>1 DEF Fine
<1>6. CASE phase \notin {"route", "end"}
  BY <1>2, <1>6
<1> QED
  BY <1>5, <1>6

\* What a turn of wgcSync makes of the interface of its tunnel: all of it, or
\* there is an error.
Leaves(n, t, old, new, x) ==
  /\ new \in Links \cup {NoLink} /\ x \in [Nets -> Clients \cup {NoLink}]
  /\ links' = [links EXCEPT ![n] = [links[n] EXCEPT ![t.name] = new]]
  /\ old # NoLink => new # NoLink
  /\ new # NoLink => new.key \in {t.key, NoKey} \/ (old # NoLink /\ new.key = old.key)
  /\ table' = [table EXCEPT ![n] = x]
  /\ \A d \in Nets : x[d] # NoLink => x[d] = table[n][d] \/ (x[d] = t.name /\ new # NoLink)
  /\ \/ GiveUp(n) /\ (Fault \/ UNCHANGED faults)
     \/ /\ Carries(new, t)
        /\ work' = [work EXCEPT ![n] = [work[n] EXCEPT !.turn = work[n].turn + 1]]
        /\ UNCHANGED <<queue, faults>>
TunnelNow(n) == work[n].peers[work[n].turn]

\* A SyncLink is one such turn.
LEMMA SyncCases ==
  ASSUME Typed, NEW n \in Nodes, SyncLink(n)
  PROVE  /\ Syncing(n) /\ work[n].turn \in DOMAIN work[n].peers /\ TunnelNow(n) \in Tunnels
         /\ UNCHANGED <<store, stream, cache, keyVars, ready, published, edits>>
         /\ conf' \in [Nodes -> Seq(PeerEntries)]
         /\ \E new, x : Leaves(n, TunnelNow(n), links[n][TunnelNow(n).name], new, x)
<1> DEFINE k == work[n]
           t == k.peers[k.turn]
           old == links[n][t.name]
           has == IF old = NoLink THEN {} ELSE old.addrs
<1>1. /\ Syncing(n) /\ k.turn <= Len(k.peers)
      /\ UNCHANGED <<store, stream, cache, keyVars, ready, published, edits>>
  BY DEF SyncLink
<1>2. /\ work \in [Nodes -> Works] /\ k \in Works /\ k.peers \in Seq(Tunnels)
      /\ k.turn \in 1..(Len(k.peers) + 1)
  BY WorksFacts DEF Typed, WorkTyped, WorkerOK
<1>3. k.turn \in DOMAIN k.peers /\ t \in Tunnels
  <2>1. Len(k.peers) \in Nat /\ DOMAIN k.peers = 1..Len(k.peers)
    BY <1>2
  <2>2. k.turn \in DOMAIN k.peers
    BY <1>1, <1>2, <2>1
  <2> QED
    BY <1>2, <2>2
<1>4. t.name \in Clients
  BY <1>3 DEF Tunnels
<1>5. /\ links \in [Nodes -> [Clients -> Links \cup {NoLink}]] /\ old \in Links \cup {NoLink}
      /\ conf \in [Nodes -> Seq(PeerEntries)]
      /\ table \in [Nodes -> [Nets -> Clients \cup {NoLink}]]
  BY <1>4 DEF Typed, HostTyped
<1>6. has \in SUBSET Addrs
  BY <1>5 DEF Links
<1>7. PICK i \in DOMAIN Phases :
        /\ conf' = [conf EXCEPT ![n] = ConfAt(Phases[i], t, conf[n])]
        /\ \E addrs \in AddrsAt(Phases[i], t, has) :
             links' = [links EXCEPT ![n][t.name] = LinkAt(Phases[i], t, old, addrs, conf'[n])]
        /\ \E x \in TablesAt(Phases[i], t, table[n]) : table' = [table EXCEPT ![n] = x]
        /\ \/ /\ Phases[i] = "end"
              /\ work' = [work EXCEPT ![n].turn = @ + 1]
              /\ UNCHANGED <<queue, faults>>
           \/ GiveUp(n) /\ (Fault \/ UNCHANGED faults)
  BY DEF SyncLink
<1> DEFINE phase == Phases[i]
<1>8. PICK addrs \in AddrsAt(phase, t, has) :
        links' = [links EXCEPT ![n][t.name] = LinkAt(phase, t, old, addrs, conf'[n])]
  BY <1>7
<1>9. PICK x \in TablesAt(phase, t, table[n]) : table' = [table EXCEPT ![n] = x]
  BY <1>7
<1> HIDE DEF phase
<1> DEFINE list == ConfAt(phase, t, conf[n])
           new == LinkAt(phase, t, old, addrs, conf'[n])
<1>10. list \in Seq(PeerEntries)
  BY <1>3, <1>5, RememberFacts DEF ConfAt
<1>11. conf' = [conf EXCEPT ![n] = list]
  BY <1>7 DEF phase
<1> HIDE DEF list
<1>12. conf' \in [Nodes -> Seq(PeerEntries)] /\ conf'[n] = list
  BY <1>5, <1>10, <1>11
<1> HIDE DEF t, old, has
<1>13. addrs \in SUBSET Addrs
  BY <1>3, <1>6, AddrsAtTyped
<1>14. /\ new \in Links \cup {NoLink}
       /\ phase # "start" => new \in Links
       /\ old # NoLink => new # NoLink
       /\ new # NoLink => new.key \in {t.key, NoKey} \/ (old # NoLink /\ new.key = old.key)
  BY <1>3, <1>5, <1>10, <1>12, <1>13, LinkAtTyped
<1>15. /\ x \in [Nets -> Clients \cup {NoLink}]
       /\ \A d \in Nets : x[d] # NoLink =>
            x[d] = table[n][d] \/ (x[d] = t.name /\ phase \in {"route", "end"})
  <2>1. table[n] \in [Nets -> Clients \cup {NoLink}]
    BY <1>5
  <2> QED
    BY <1>3, <2>1, TablesAtTyped
<1>16. phase \in {"route", "end"} => new # NoLink
  BY <1>14, LinksApart
<1>17. phase = "end" => Carries(new, t)
  <2> SUFFICES ASSUME phase = "end" PROVE Carries(new, t)
    OBVIOUS
  <2>1. addrs \in AddrsAt("end", t, IF old = NoLink THEN {} ELSE old.addrs)
    BY <1>8 DEF has
  <2>2. conf[n] \in Seq(PeerEntries)
    BY <1>5
  <2>3. Carries(LinkAt("end", t, old, addrs, ConfAt("end", t, conf[n])), t)
    BY <1>3, <1>5, <2>1, <2>2, EndCarries
  <2> QED
    BY <1>12, <2>3 DEF list
<1> HIDE DEF new
<1>18. links' = [links EXCEPT ![n] = [links[n] EXCEPT ![t.name] = new]]
  <2>1. links' = [links EXCEPT ![n][t.name] = new]
    BY <1>8 DEF new
  <2> QED
    BY <1>5, <2>1
<1>19. \/ GiveUp(n) /\ (Fault \/ UNCHANGED faults)
       \/ /\ Carries(new, t) /\ work' = [work EXCEPT ![n] = [k EXCEPT !.turn = k.turn + 1]]
          /\ UNCHANGED <<queue, faults>>
  <2>1. CASE GiveUp(n) /\ (Fault \/ UNCHANGED faults)
    BY <2>1
  <2>2. CASE phase = "end" /\ work' = [work EXCEPT ![n].turn = @ + 1] /\ UNCHANGED <<queue, faults>>
    BY <1>2, <1>17, <2>2
  <2> QED
    BY <1>7, <2>1, <2>2 DEF phase
<1>20. \A d \in Nets : x[d] # NoLink => x[d] = table[n][d] \/ (x[d] = t.name /\ new # NoLink)
  BY <1>15, <1>16
<1> HIDE DEF k
<1>21. Leaves(n, t, old, new, x)
  BY <1>9, <1>14, <1>15, <1>18, <1>19, <1>20 DEF Leaves, k
<1>22. t = TunnelNow(n) /\ old = links[n][t.name]
  BY DEF t, old, k, TunnelNow
<1>23. Leaves(n, TunnelNow(n), links[n][TunnelNow(n).name], new, x)
  BY <1>21, <1>22
<1> QED
  BY <1>1, <1>3, <1>12, <1>22, <1>23 DEF k
\* A SyncLink keeps the types; the networks are routed to interfaces that exist.
LEMMA SyncTyped ==
  ASSUME Typed, NEW n \in Nodes, SyncLink(n)
  PROVE  Typed'
<1> DEFINE t == TunnelNow(n)
           old == links[n][t.name]
<1>1. /\ Syncing(n) /\ work[n].turn \in DOMAIN work[n].peers /\ t \in Tunnels
      /\ UNCHANGED <<store, stream, cache, keyVars, ready, published, edits>>
      /\ conf' \in [Nodes -> Seq(PeerEntries)]
  BY SyncCases
<1>2. PICK new, x : Leaves(n, t, old, new, x)
  BY SyncCases
<1>3. t.name \in Clients
  BY <1>1 DEF Tunnels
<1> HIDE DEF t
<1>4. /\ links \in [Nodes -> [Clients -> Links \cup {NoLink}]]
      /\ table \in [Nodes -> [Nets -> Clients \cup {NoLink}]]
      /\ \A m \in Nodes, d \in Nets : table[m][d] # NoLink => links[m][table[m][d]] # NoLink
  BY DEF Typed, HostTyped
<1>5. /\ new \in Links \cup {NoLink} /\ x \in [Nets -> Clients \cup {NoLink}]
      /\ links' = [links EXCEPT ![n] = [links[n] EXCEPT ![t.name] = new]]
      /\ table' = [table EXCEPT ![n] = x]
  BY <1>2 DEF Leaves
<1>6. /\ links' \in [Nodes -> [Clients -> Links \cup {NoLink}]]
      /\ table' \in [Nodes -> [Nets -> Clients \cup {NoLink}]]
  BY <1>4, <1>5
<1>7. ASSUME NEW m \in Nodes, NEW d \in Nets, table'[m][d] # NoLink
      PROVE  links'[m][table'[m][d]] # NoLink
  <2>1. CASE m # n
    BY <1>4, <1>5, <1>7, <2>1
  <2>2. CASE m = n
    <3>1. x[d] # NoLink /\ table'[m][d] = x[d] /\ x[d] \in Clients
      BY <1>4, <1>5, <1>7, <2>2
    <3>2. \/ x[d] = table[n][d]
          \/ x[d] = t.name /\ new # NoLink
      BY <1>2, <3>1 DEF Leaves
    <3>3. old # NoLink => new # NoLink
      BY <1>2 DEF Leaves
    <3>4. links'[n][x[d]] = IF x[d] = t.name THEN new ELSE links[n][x[d]]
      BY <1>3, <1>4, <1>5, <3>1
    <3>5. x[d] = table[n][d] => links[n][x[d]] # NoLink
      BY <1>4, <3>1
    <3> QED
      BY <2>2, <3>1, <3>2, <3>3, <3>4, <3>5
  <2> QED
    BY <2>1, <2>2
<1>8. WorkTyped' /\ queue' \in [Nodes -> SUBSET Clients] /\ (Fault \/ UNCHANGED faults)
  <2>1. /\ WorkTyped /\ work \in [Nodes -> Works] /\ WorkerOK(work[n])
        /\ queue \in [Nodes -> SUBSET Clients] /\ work[n].pc = "resolve"
    BY <1>1 DEF Typed, ObjTyped, WorkTyped, Syncing
  <2>2. CASE GiveUp(n) /\ (Fault \/ UNCHANGED faults)
    BY <2>1, <2>2, GiveUpTyped
  <2>3. CASE /\ work' = [work EXCEPT ![n] = [work[n] EXCEPT !.turn = work[n].turn + 1]]
             /\ UNCHANGED <<queue, faults>>
    <3> DEFINE k == [work[n] EXCEPT !.turn = work[n].turn + 1]
    <3>1. work[n].peers \in Seq(Tunnels)
      BY <2>1, WorksFacts
    <3>2. /\ Len(work[n].peers) \in Nat /\ work[n].turn \in 1..Len(work[n].peers)
          /\ work[n].turn + 1 \in 1..(Len(work[n].peers) + 1)
      BY <1>1, <3>1
    <3>3. WorkerOK(k)
      BY <2>1, <3>2 DEF WorkerOK, Works
    <3> HIDE DEF k
    <3>4. WorkTyped'
      BY <2>1, <2>3, <3>3, WorkSet DEF k
    <3> QED
      BY <2>1, <2>3, <3>4
  <2> QED
    BY <1>2, <2>2, <2>3 DEF Leaves
<1>9. faults' \in 0..MaxFaults
  BY <1>8, FaultTyped DEF Typed
<1> QED
  BY <1>1, <1>6, <1>7, <1>8, <1>9
     DEF keyVars, Typed, ObjTyped, KeyTyped, HostTyped, HistoryTyped

\* The routes of an interface go with it.
LEMMA DeleteTyped ==
  ASSUME HostTyped, NEW n \in Nodes, NEW gone \in SUBSET Clients, DeleteLinks(n, gone)
  PROVE  /\ links' \in [Nodes -> [Clients -> Links \cup {NoLink}]]
         /\ table' \in [Nodes -> [Nets -> Clients \cup {NoLink}]]
         /\ \A m \in Nodes, d \in Nets : table'[m][d] # NoLink => links'[m][table'[m][d]] # NoLink
         /\ \A m \in Nodes, w \in Clients :
              links'[m][w] = IF m = n /\ w \in gone THEN NoLink ELSE links[m][w]
<1> DEFINE L == [w \in Clients |-> IF w \in gone THEN NoLink ELSE links[n][w]]
           T == [d \in Nets |-> IF table[n][d] \in gone THEN NoLink ELSE table[n][d]]
<1>1. /\ links \in [Nodes -> [Clients -> Links \cup {NoLink}]]
      /\ table \in [Nodes -> [Nets -> Clients \cup {NoLink}]]
      /\ \A m \in Nodes, d \in Nets : table[m][d] # NoLink => links[m][table[m][d]] # NoLink
  BY DEF HostTyped
<1>2. links' = [links EXCEPT ![n] = L] /\ table' = [table EXCEPT ![n] = T]
  BY <1>1 DEF DeleteLinks
<1>3. L \in [Clients -> Links \cup {NoLink}] /\ T \in [Nets -> Clients \cup {NoLink}]
  BY <1>1
<1>4. /\ \A w \in Clients : L[w] = IF w \in gone THEN NoLink ELSE links[n][w]
      /\ \A d \in Nets : T[d] = IF table[n][d] \in gone THEN NoLink ELSE table[n][d]
  OBVIOUS
<1> HIDE DEF L, T
<1>5. /\ links' \in [Nodes -> [Clients -> Links \cup {NoLink}]]
      /\ table' \in [Nodes -> [Nets -> Clients \cup {NoLink}]]
  BY <1>1, <1>2, <1>3
<1>6. \A m \in Nodes, w \in Clients :
        links'[m][w] = IF m = n /\ w \in gone THEN NoLink ELSE links[m][w]
  BY <1>1, <1>2, <1>4
<1>7. \A m \in Nodes, d \in Nets :
        table'[m][d] = IF m = n /\ table[n][d] \in gone THEN NoLink ELSE table[m][d]
  BY <1>1, <1>2, <1>4
<1>8. \A m \in Nodes, d \in Nets : table[m][d] \in Clients \cup {NoLink}
  BY <1>1
<1>9. \A m \in Nodes, d \in Nets : table'[m][d] # NoLink => links'[m][table'[m][d]] # NoLink
  BY <1>1, <1>6, <1>7, <1>8
<1> QED
  BY <1>5, <1>6, <1>9

\* The last step of a Reconcile deletes interfaces that are no tunnel of its
\* list; it ends well, with or without the label, or there is an error.
LEMMA FinishCases ==
  ASSUME Typed, NEW n \in Nodes, Finish(n)
  PROVE  /\ work[n].pc = "resolve" /\ work[n].turn > Len(work[n].peers) /\ work[n].name \in Clients
         /\ UNCHANGED <<store, stream, cache, keyVars, conf, published, edits>>
         /\ \E gone \in SUBSET Leftovers(n) : DeleteLinks(n, gone)
         /\ work' = [work EXCEPT ![n] = Idle]
         /\ UNCHANGED ready \/ ready' = [ready EXCEPT ![n] = @ \cup {work[n].name}]
         /\ UNCHANGED queue \/ queue' = [queue EXCEPT ![n] = @ \cup {work[n].name}]
         /\ Fault \/ UNCHANGED faults
<1>1. /\ work[n].pc = "resolve" /\ work[n].turn > Len(work[n].peers)
      /\ UNCHANGED <<store, stream, cache, keyVars, conf, published, edits>>
  BY DEF Finish, Syncing
<1>2. work[n].name \in Clients
  BY <1>1 DEF Typed, WorkTyped, WorkerOK
<1>3. \E gone \in SUBSET Leftovers(n) : DeleteLinks(n, gone)
  BY DEF Finish
<1>4. /\ work' = [work EXCEPT ![n] = Idle]
      /\ UNCHANGED queue \/ queue' = [queue EXCEPT ![n] = @ \cup {work[n].name}]
  BY DEF Finish, GiveUp
<1>5. /\ UNCHANGED ready \/ ready' = [ready EXCEPT ![n] = @ \cup {work[n].name}]
      /\ Fault \/ UNCHANGED faults
  BY DEF Finish
<1> QED
  BY <1>1, <1>2, <1>3, <1>4, <1>5

\* A Finish keeps the types.
LEMMA FinishTyped ==
  ASSUME Typed, NEW n \in Nodes, Finish(n)
  PROVE  Typed'
<1>1. /\ work[n].name \in Clients
      /\ UNCHANGED <<store, stream, cache, keyVars, conf, published, edits>>
      /\ work' = [work EXCEPT ![n] = Idle]
      /\ UNCHANGED ready \/ ready' = [ready EXCEPT ![n] = @ \cup {work[n].name}]
      /\ UNCHANGED queue \/ queue' = [queue EXCEPT ![n] = @ \cup {work[n].name}]
      /\ Fault \/ UNCHANGED faults
  BY FinishCases
<1>2. PICK gone \in SUBSET Leftovers(n) : DeleteLinks(n, gone)
  BY FinishCases
<1>3. gone \in SUBSET Clients
  BY DEF Leftovers
<1>4. /\ links' \in [Nodes -> [Clients -> Links \cup {NoLink}]]
      /\ table' \in [Nodes -> [Nets -> Clients \cup {NoLink}]]
      /\ \A m \in Nodes, d \in Nets : table'[m][d] # NoLink => links'[m][table'[m][d]] # NoLink
  BY <1>2, <1>3, DeleteTyped DEF Typed
<1>5. WorkTyped'
  BY <1>1, IdleOK, WorkSet DEF Typed
<1>6. queue' \in [Nodes -> SUBSET Clients] /\ ready' \in [Nodes -> SUBSET Clients]
  <2>1. queue \in [Nodes -> SUBSET Clients] /\ ready \in [Nodes -> SUBSET Clients]
    BY DEF Typed, ObjTyped, HostTyped
  <2>2. \A q \in [Nodes -> SUBSET Clients], w \in Clients : [q EXCEPT ![n] = @ \cup {w}] \in [Nodes -> SUBSET Clients]
    OBVIOUS
  <2> QED
    BY <1>1, <2>1, <2>2
<1>7. faults' \in 0..MaxFaults
  BY <1>1, FaultTyped DEF Typed
<1> QED
  BY <1>1, <1>4, <1>5, <1>6, <1>7
     DEF keyVars, Typed, ObjTyped, KeyTyped, HostTyped, HistoryTyped

\* A Restart keeps the types.
LEMMA RestartTyped ==
  ASSUME Typed, NEW n \in Nodes, Restart(n)
  PROVE  Typed'
<1>1. <<>> \in Seq(Event) /\ <<>> \in Seq(PeerEntries)
  OBVIOUS
<1>2. Unsynced \in [SecretNames -> Keys \cup {BadKey, NoKey}]
  BY DEF Unsynced
<1>3. WorkTyped'
  BY IdleOK, WorkSet DEF Restart, Typed
<1>4. ObjTyped'
  BY <1>1 DEF Restart, Typed, ObjTyped
<1>5. KeyTyped'
  BY <1>2 DEF Restart, Typed, KeyTyped
<1>6. HostTyped'
  BY <1>1 DEF Restart, Typed, HostTyped
<1>7. HistoryTyped'
  BY FaultTyped DEF Restart, Typed, HistoryTyped
<1> QED
  BY <1>3, <1>4, <1>5, <1>6, <1>7 DEF Typed

\* The informers keep the types.
LEMMA CacheTyped ==
  ASSUME Typed, NEW n \in Nodes, Deliver(n) \/ Resync(n) \/ SeeSecrets(n)
  PROVE  Typed'
<1>1. UNCHANGED cacheOthers
  BY DEF Deliver, Resync, SeeSecrets
<1>2. ObjTyped
  BY DEF Typed
<1>3. ObjTyped'
  <2>1. CASE Deliver(n)
    <3> DEFINE s == stream[n]
    <3>1. s \in Seq(Event) /\ s # <<>>
      BY <1>2, <2>1 DEF ObjTyped, Deliver
    <3> HIDE DEF s
    <3>2. Head(s) \in Event /\ Tail(s) \in Seq(Event)
      BY <3>1
    <3>3. Head(s).name \in Clients /\ Head(s).copy \in Copy
      BY <3>2 DEF Event
    <3> QED
      BY <1>1, <1>2, <2>1, <3>2, <3>3 DEF ObjTyped, Deliver, cacheOthers, s
  <2>2. CASE Resync(n)
    BY <1>1, <1>2, <2>2 DEF ObjTyped, Resync, cacheOthers
  <2>3. CASE SeeSecrets(n)
    BY <1>1, <1>2, <2>3 DEF ObjTyped, SeeSecrets, cacheOthers
  <2> QED
    BY <2>1, <2>2, <2>3
<1>4. KeyTyped'
  BY <1>1 DEF Typed, KeyTyped, Deliver, Resync, SeeSecrets, cacheOthers
<1> QED
  BY <1>1, <1>3, <1>4
     DEF cacheOthers, hostVars, Typed, WorkTyped, WorkerOK, HostTyped, HistoryTyped

\* The types are kept, at first and by every step.
LEMMA TypeInit == Init => Typed
<1> SUFFICES ASSUME Init PROVE Typed
  OBVIOUS
<1>1. store \in [Clients -> Copy]
  BY DEF Init, Copy
<1>2. <<>> \in Seq(Event) /\ <<>> \in Seq(PeerEntries)
  OBVIOUS
<1>3. ObjTyped
  BY <1>1, <1>2 DEF Init, ObjTyped
<1>4. KeyTyped
  BY GivenTyped DEF Init, KeyTyped, Unsynced
<1>5. WorkTyped
  BY IdleOK DEF Init, WorkTyped, WorkerOK
<1>6. HostTyped
  BY <1>2 DEF Init, HostTyped
<1>7. HistoryTyped
  BY BoundsTyped DEF Init, HistoryTyped
<1> QED
  BY <1>3, <1>4, <1>5, <1>6, <1>7 DEF Typed

\* One case for each kind of step.
LEMMA TypeStep == Typed /\ [Next]_vars => Typed'
<1> SUFFICES ASSUME Typed, [Next]_vars PROVE Typed'
  OBVIOUS
<1>1. CASE UNCHANGED vars
  BY <1>1 DEF vars, objVars, keyVars, hostVars, Typed, ObjTyped, KeyTyped, WorkTyped, WorkerOK,
              HostTyped, HistoryTyped
<1>2. CASE \/ \E w \in Clients, spec \in Specs : CreateClient(w, spec) \/ EditClient(w, spec)
           \/ \E w \in Clients : DeleteClient(w)
           \/ \E s \in SecretNames : DeleteSecret(s)
  BY <1>2, EditTyped
<1>3. ASSUME NEW n \in Nodes, Deliver(n) \/ Resync(n) \/ SeeSecrets(n)
      PROVE  Typed'
  BY <1>3, CacheTyped
<1>4. ASSUME NEW n \in Nodes, NEW w \in Clients, Take(n, w) \/ ResolveOf(n, w)
      PROVE  Typed'
  BY <1>4, TakeTyped, ResolveTyped DEF ResolveOf
<1>5. ASSUME NEW n \in Nodes, Work(n)
      PROVE  Typed'
  BY <1>5, ListTyped, PublishTyped, SyncTyped, FinishTyped DEF Work
<1>6. ASSUME NEW n \in Nodes, Restart(n)
      PROVE  Typed'
  BY <1>6, RestartTyped
<1> QED
  BY <1>1, <1>2, <1>3, <1>4, <1>5, <1>6 DEF Next

\* In every state.
LEMMA AlwaysTyped == Spec => []Typed
  BY TypeInit, TypeStep, PTL DEF Spec

\* Every variable of ClusterClient has its type, a worker has something in hand
\* only while it reconciles, and a network is only routed to an interface that
\* exists, whatever is edited, fails or restarts.
THEOREM TypeCorrect == Spec => []TypeOK
<1>1. Typed => TypeOK
  BY TypedIsTypeOK
<1> QED
  BY <1>1, AlwaysTyped, PTL

-----------------------------------------------------------------------------
(* What a step may do.                                                     *)

\* The moves of a worker: it starts or ends a Reconcile, lists the objects, has
\* found the key for one, has published that, or has made a tunnel.
Fresh(k) == k.todo = {} /\ k.cur = NoCur /\ k.peers = <<>> /\ k.turn = 1
Move(n, k) ==
  \/ Fresh(k)
  \/ /\ work[n].pc = "list"
     /\ k = [work[n] EXCEPT !.pc = "resolve", !.todo = Listing(n)]
  \/ /\ work[n].pc = "resolve"
     /\ \E e \in work[n].todo, key \in Keys :
          /\ Fixed(n, e, key)
          /\ k = [work[n] EXCEPT !.pc = "publish", !.todo = work[n].todo \ {e},
                                 !.cur = [name |-> e.name, copy |-> e.copy, key |-> key]]
  \/ /\ work[n].pc = "publish" /\ TunnelFor(n) \in Tunnels
     /\ \/ Save(InHand(n), Corrected(n))
        \/ Corrected(n) = work[n].cur.copy.val /\ UNCHANGED <<store, stream, published>>
     /\ k = WithTunnel(n)
  \/ /\ work[n].pc = "resolve" /\ work[n].turn \in DOMAIN work[n].peers
     /\ Carries(links'[n][TunnelNow(n).name], TunnelNow(n))
     /\ k = [work[n] EXCEPT !.turn = work[n].turn + 1]

\* The worker that waits has nothing.
LEMMA IdleFresh == Fresh(Idle)
BY DEF Fresh, Idle

\* An error is the end of a Reconcile.
LEMMA GiveUpMoves ==
  ASSUME WorkTyped, NEW n \in Nodes, GiveUp(n)
  PROVE  \E k : Move(n, k) /\ work' = [work EXCEPT ![n] = k]
<1>1. work' = [work EXCEPT ![n] = Idle]
  BY DEF GiveUp
<1>2. Move(n, Idle)
  BY IdleFresh DEF Move
<1> QED
  BY <1>1, <1>2

\* There are no other moves, and the worker of one node moves at a time.
LEMMA WorkStep ==
  ASSUME Typed, [Next]_vars
  PROVE  UNCHANGED work \/ \E n \in Nodes : \E k : Move(n, k) /\ work' = [work EXCEPT ![n] = k]
<1> DEFINE Goal == UNCHANGED work \/ \E n \in Nodes : \E k : Move(n, k) /\ work' = [work EXCEPT ![n] = k]
<1>1. WorkTyped /\ work \in [Nodes -> Works]
  BY DEF Typed, WorkTyped
<1>2. ASSUME NEW n \in Nodes, GiveUp(n)
      PROVE  Goal
  BY <1>1, <1>2, GiveUpMoves
<1>3. ASSUME work' = work
      PROVE  Goal
  BY <1>3
<1>4. ASSUME NEW n \in Nodes, NEW k, Move(n, k), work' = [work EXCEPT ![n] = k]
      PROVE  Goal
  BY <1>4
<1> HIDE DEF Goal
<1>5. ASSUME NEW n \in Nodes, NEW w \in Clients, Take(n, w)
      PROVE  Goal
  <2> DEFINE k == [Idle EXCEPT !.pc = "list", !.name = w]
  <2>1. Fresh(k)
    BY DEF Fresh, Idle
  <2>2. work' = work \/ work' = [work EXCEPT ![n] = k]
    BY <1>5 DEF Take
  <2> HIDE DEF k
  <2>3. Move(n, k)
    BY <2>1 DEF Move
  <2>4. CASE work' = work
    BY <1>3, <2>4
  <2>5. CASE work' = [work EXCEPT ![n] = k]
    BY <1>4, <2>3, <2>5
  <2> QED
    BY <2>2, <2>4, <2>5
<1>6. ASSUME NEW n \in Nodes, List(n)
      PROVE  Goal
  <2>1. work[n].pc = "list"
    BY <1>6 DEF List
  <2>2. CASE work' = [work EXCEPT ![n].pc = "resolve", ![n].todo = Listing(n)]
    <3> DEFINE k == [work[n] EXCEPT !.pc = "resolve", !.todo = Listing(n)]
    <3>1. Move(n, k)
      BY <2>1 DEF Move
    <3>2. work' = [work EXCEPT ![n] = k]
      BY <1>1, <2>2
    <3> HIDE DEF k
    <3> QED
      BY <1>4, <3>1, <3>2
  <2> QED
    BY <1>2, <1>6, <2>2 DEF List
<1>7. ASSUME NEW n \in Nodes, NEW e \in work[n].todo, Resolve(n, e)
      PROVE  Goal
  <2>1. work[n].pc = "resolve"
    BY <1>7, ResolveCases
  <2>2. ASSUME NEW key \in Keys, Fixed(n, e, key), Found(n, e, key)
        PROVE  Goal
    <3> DEFINE k == [work[n] EXCEPT !.pc = "publish", !.todo = work[n].todo \ {e},
                                    !.cur = [name |-> e.name, copy |-> e.copy, key |-> key]]
    <3>1. Move(n, k)
      BY <2>1, <2>2 DEF Move
    <3>2. work' = [work EXCEPT ![n] = k]
      BY <1>1, <2>1, <2>2, FoundTyped
    <3> HIDE DEF k
    <3> QED
      BY <1>4, <3>1, <3>2
  <2> QED
    BY <1>2, <1>7, <2>2, ResolveCases
<1>8. ASSUME NEW n \in Nodes, Publish(n)
      PROVE  Goal
  <2>1. CASE /\ work' = [work EXCEPT ![n] = WithTunnel(n)] /\ TunnelFor(n) \in Tunnels
             /\ \/ Save(InHand(n), Corrected(n))
                \/ /\ Corrected(n) = work[n].cur.copy.val
                   /\ UNCHANGED <<store, stream, published>>
    <3>1. work[n].pc = "publish"
      BY <1>1, <1>8, PublishCases
    <3>2. Move(n, WithTunnel(n))
      BY <2>1, <3>1 DEF Move
    <3> QED
      BY <1>4, <2>1, <3>2
  <2> QED
    BY <1>1, <1>2, <1>8, <2>1, PublishCases
<1>9. ASSUME NEW n \in Nodes, SyncLink(n)
      PROVE  Goal
  <2> DEFINE t == TunnelNow(n)
  <2>1. /\ work[n].pc = "resolve" /\ work[n].turn \in DOMAIN work[n].peers /\ t \in Tunnels
        /\ \E new, x : Leaves(n, t, links[n][t.name], new, x)
    BY <1>9, SyncCases DEF Syncing
  <2>2. PICK new, x : Leaves(n, t, links[n][t.name], new, x)
    BY <2>1
  <2>3. links \in [Nodes -> [Clients -> Links \cup {NoLink}]] /\ t.name \in Clients
    BY <2>1 DEF Typed, HostTyped, Tunnels
  <2> HIDE DEF t
  <2>4. links'[n][t.name] = new
    BY <2>2, <2>3 DEF Leaves
  <2>5. CASE /\ Carries(new, t)
             /\ work' = [work EXCEPT ![n] = [work[n] EXCEPT !.turn = work[n].turn + 1]]
    <3> DEFINE k == [work[n] EXCEPT !.turn = work[n].turn + 1]
    <3>1. Carries(links'[n][TunnelNow(n).name], TunnelNow(n))
      BY <2>4, <2>5 DEF t
    <3>2. Move(n, k)
      BY <2>1, <3>1 DEF Move
    <3> HIDE DEF k
    <3>3. work' = [work EXCEPT ![n] = k]
      BY <2>5 DEF k
    <3> QED
      BY <1>4, <3>2, <3>3
  <2> QED
    BY <1>2, <2>2, <2>5 DEF Leaves
<1>10. ASSUME NEW n \in Nodes, work' = [work EXCEPT ![n] = Idle]
       PROVE  Goal
  <2>1. Move(n, Idle)
    BY IdleFresh DEF Move
  <2> QED
    BY <1>4, <1>10, <2>1
<1>11. ASSUME NEW n \in Nodes, Work(n)
       PROVE  Goal
  BY <1>6, <1>8, <1>9, <1>10, <1>11, FinishCases DEF Work
<1>12. ASSUME NEW n \in Nodes, Deliver(n) \/ Resync(n) \/ SeeSecrets(n)
       PROVE  Goal
  BY <1>3, <1>12 DEF Deliver, Resync, SeeSecrets, cacheOthers
<1>13. ASSUME NEW n \in Nodes, Restart(n)
       PROVE  Goal
  BY <1>10, <1>13 DEF Restart
<1>14. ASSUME \/ \E w \in Clients, spec \in Specs : CreateClient(w, spec) \/ EditClient(w, spec)
              \/ \E w \in Clients : DeleteClient(w)
              \/ \E s \in SecretNames : DeleteSecret(s)
       PROVE  Goal
  <2>1. Edit
    BY <1>14 DEF CreateClient, EditClient, DeleteClient, DeleteSecret
  <2> QED
    BY <1>3, <2>1 DEF Edit
<1>15. ASSUME UNCHANGED vars
       PROVE  Goal
  BY <1>3, <1>15 DEF vars
<1>16. Goal
  BY <1>5, <1>7, <1>11, <1>12, <1>13, <1>14, <1>15 DEF Next, ResolveOf
<1> QED
  BY <1>16 DEF Goal

\* The same, seen from one node.
LEMMA WorkMoves ==
  ASSUME Typed, [Next]_vars, NEW n \in Nodes
  PROVE  work'[n] = work[n] \/ Move(n, work'[n])
<1>1. work \in [Nodes -> Works]
  BY DEF Typed, WorkTyped
<1>2. ASSUME NEW m \in Nodes, NEW k, Move(m, k), work' = [work EXCEPT ![m] = k]
      PROVE  work'[n] = work[n] \/ Move(n, work'[n])
  <2>1. CASE m = n
    BY <1>1, <1>2, <2>1
  <2>2. CASE m # n
    BY <1>1, <1>2, <2>2
  <2> QED
    BY <2>1, <2>2
<1> QED
  BY <1>2, WorkStep

\* A node publishes a key: onto the copy it read, which is the one at the API server.
Updates(n) ==
  /\ work[n].pc = "publish" /\ Accepted(InHand(n))
  /\ Write(InHand(n).name, Corrected(n))

\* A user writes an object: a key it has in its status was there before.
ByUser(w, val) ==
  /\ Write(w, val)
  /\ val # Absent =>
       \A n \in Nodes : val.keys[n] # NoKey =>
         store[w].val # Absent /\ val.keys[n] = store[w].val.keys[n]

\* Users write objects, and so does a node that publishes a key. Everybody else
\* reads at most.
LEMMA StoreStep ==
  ASSUME Typed, [Next]_vars
  PROVE  \/ UNCHANGED <<store, published, cache, stream>>
         \/ \E n \in Nodes : Deliver(n) \/ Restart(n)
         \/ UNCHANGED cache /\ edits' # edits /\ \E w \in Clients, val \in Values \cup {Absent} : ByUser(w, val)
         \/ UNCHANGED cache /\ \E n \in Nodes : Updates(n)
<1> DEFINE Same == UNCHANGED <<store, published, cache, stream>>
           Users == UNCHANGED cache /\ edits' # edits /\ \E w \in Clients, val \in Values \cup {Absent} : ByUser(w, val)
           Daemons == UNCHANGED cache /\ \E n \in Nodes : Updates(n)
           Goal == Same \/ (\E n \in Nodes : Deliver(n) \/ Restart(n)) \/ Users \/ Daemons
<1>1. ASSUME Edit
      PROVE  UNCHANGED cache /\ edits' # edits
  BY <1>1 DEF Edit, Typed, HistoryTyped
<1>2. ASSUME NEW w \in Clients, NEW spec \in Specs, CreateClient(w, spec) \/ EditClient(w, spec)
      PROVE  Users
  <2>1. Edit
    BY <1>2 DEF CreateClient, EditClient
  <2>2. CASE CreateClient(w, spec)
    <3>1. ByUser(w, [spec |-> spec, keys |-> NoKeys])
      BY <2>2 DEF CreateClient, ByUser, NoKeys
    <3> QED
      BY <1>1, <2>1, <3>1, ValueFacts
  <2>3. CASE EditClient(w, spec)
    <3>1. store[w].val # Absent /\ store[w].val \in Values
      BY <2>3 DEF EditClient, Typed, ObjTyped, Copy
    <3>2. [store[w].val EXCEPT !.spec = spec].keys = store[w].val.keys
      BY <3>1 DEF Values
    <3>3. ByUser(w, [store[w].val EXCEPT !.spec = spec])
      BY <2>3, <3>1, <3>2 DEF EditClient, ByUser
    <3> QED
      BY <1>1, <2>1, <3>1, <3>3, ValueFacts
  <2> QED
    BY <1>2, <2>2, <2>3
<1>3. ASSUME NEW w \in Clients, DeleteClient(w)
      PROVE  Users
  BY <1>1, <1>3 DEF DeleteClient, ByUser
<1>4. ASSUME NEW s \in SecretNames, DeleteSecret(s)
      PROVE  Same
  BY <1>1, <1>4 DEF DeleteSecret
<1>5. ASSUME NEW n \in Nodes, Publish(n)
      PROVE  Same \/ Daemons
  <2>1. /\ work[n].pc = "publish" /\ UNCHANGED cache
        /\ Save(InHand(n), Corrected(n)) \/ UNCHANGED <<store, stream, published>>
    BY <1>5, PublishCases DEF Typed
  <2> QED
    BY <2>1 DEF Save, Updates
<1>6. ASSUME NEW n \in Nodes, NEW e \in work[n].todo, Resolve(n, e)
      PROVE  Same
  BY <1>6 DEF Resolve
<1>7. ASSUME NEW n \in Nodes, List(n) \/ SyncLink(n) \/ Finish(n)
      PROVE  Same
  BY <1>7 DEF List, SyncLink, Finish
<1>8. ASSUME NEW n \in Nodes, Resync(n) \/ SeeSecrets(n)
      PROVE  Same
  BY <1>8 DEF Resync, SeeSecrets, cacheOthers
<1>9. ASSUME NEW n \in Nodes, NEW w \in Clients, Take(n, w)
      PROVE  Same
  BY <1>9 DEF Take
<1>10. ASSUME UNCHANGED vars
       PROVE  Same
  BY <1>10 DEF vars, objVars
<1> HIDE DEF Same, Users, Daemons
<1>11. Goal
  BY <1>2, <1>3, <1>4, <1>5, <1>6, <1>7, <1>8, <1>9, <1>10 DEF Next, Work, ResolveOf
<1> QED
  BY <1>11 DEF Same, Users, Daemons

\* The written copy is the next version; the others are as they were.
LEMMA WriteFacts ==
  ASSUME Typed, NEW w \in Clients, NEW val \in Values \cup {Absent}, Write(w, val)
  PROVE  /\ store'[w].ver = store[w].ver + 1 /\ store'[w].val = val
         /\ \A v \in Clients : v # w => store'[v] = store[v]
         /\ \A n \in Nodes : stream'[n] = Append(stream[n], [name |-> w, copy |-> store'[w]])
         /\ published' = published \cup Published(store')
BY DEF Write, Typed, ObjTyped

\* An accepted update was made from what is at the API server.
LEMMA UpdatesFacts ==
  ASSUME Typed, NEW n \in Nodes, Updates(n)
  PROVE  InHand(n).name \in Clients /\ Corrected(n) \in Values /\ work[n].cur # NoCur
BY PublishFacts DEF Updates, Typed, TodoEvents

\* The copies a node has: in its cache, under way to it, listed, and in hand.
Has(n, e) ==
  \/ \E w \in Clients : e = [name |-> w, copy |-> cache[n][w]]
  \/ \E i \in DOMAIN stream[n] : e = stream[n][i]
  \/ e \in work[n].todo
  \/ work[n].cur # NoCur /\ e = InHand(n)

\* It had them before, or they are what is at the API server now.
LEMMA HasStep ==
  ASSUME Typed, [Next]_vars, NEW n \in Nodes, NEW e, Has(n, e)'
  PROVE  Has(n, e) \/ \E w \in Clients : e = [name |-> w, copy |-> store'[w]]
<1> DEFINE Current == \E w \in Clients : e = [name |-> w, copy |-> store'[w]]
<1>1. /\ stream \in [Nodes -> Seq(Event)] /\ cache \in [Nodes -> [Clients -> Copy]]
      /\ work \in [Nodes -> Works]
  BY DEF Typed, ObjTyped, WorkTyped
<1>2. ASSUME NEW w \in Clients, e = [name |-> w, copy |-> cache'[n][w]]
      PROVE  Has(n, e) \/ Current
  <2>1. CASE UNCHANGED cache
    BY <1>2, <2>1 DEF Has
  <2>2. ASSUME NEW m \in Nodes, Restart(m)
        PROVE  Has(n, e) \/ Current
    BY <1>1, <1>2, <2>2 DEF Restart, Has
  <2>3. ASSUME NEW m \in Nodes, Deliver(m)
        PROVE  Has(n, e) \/ Current
    <3> DEFINE s == stream[m]
    <3>1. s \in Seq(Event) /\ s # <<>> /\ cache' = [cache EXCEPT ![m][Head(s).name] = Head(s).copy]
      BY <1>1, <2>3 DEF Deliver
    <3> HIDE DEF s
    <3>2. 1 \in DOMAIN s /\ Head(s) = s[1] /\ s[1] \in Event
      BY <3>1
    <3>3. s[1] = [name |-> s[1].name, copy |-> s[1].copy] /\ s[1].name \in Clients
      BY <3>2 DEF Event
    <3>4. CASE m = n /\ w = s[1].name
      <4>1. cache'[n][w] = s[1].copy
        BY <1>1, <3>1, <3>2, <3>3, <3>4
      <4>2. e = s[1]
        BY <1>2, <3>3, <3>4, <4>1
      <4> QED
        BY <3>2, <3>4, <4>2 DEF Has, s
    <3>5. CASE ~(m = n /\ w = s[1].name)
      <4>1. cache'[n][w] = cache[n][w]
        BY <1>1, <3>1, <3>2, <3>3, <3>5
      <4> QED
        BY <1>2, <4>1 DEF Has
    <3> QED
      BY <3>4, <3>5
  <2> QED
    BY <2>1, <2>2, <2>3, StoreStep
<1>3. ASSUME NEW i \in DOMAIN stream'[n], e = stream'[n][i]
      PROVE  Has(n, e) \/ Current
  <2>1. CASE UNCHANGED stream
    BY <1>3, <2>1 DEF Has
  <2>2. ASSUME NEW w \in Clients, NEW val \in Values \cup {Absent}, Write(w, val)
        PROVE  Has(n, e) \/ Current
    <3> DEFINE s == stream[n]
               new == [name |-> w, copy |-> store'[w]]
    <3>1. stream'[n] = Append(s, new)
      BY <2>2, WriteFacts
    <3>2. s \in Seq(Event)
      BY <1>1
    <3> HIDE DEF s, new
    <3>3. i \in 1..(Len(s) + 1) /\ Len(s) \in Nat
      BY <1>3, <3>1, <3>2
    <3>4. e = IF i = Len(s) + 1 THEN new ELSE s[i]
      BY <1>3, <3>1, <3>2, <3>3
    <3>5. i # Len(s) + 1 => i \in DOMAIN s
      BY <3>2, <3>3
    <3> QED
      BY <3>4, <3>5 DEF Has, s, new
  <2>3. ASSUME NEW m \in Nodes, Deliver(m)
        PROVE  Has(n, e) \/ Current
    <3> DEFINE s == stream[m]
    <3>1. s \in Seq(Event) /\ s # <<>> /\ stream' = [stream EXCEPT ![m] = Tail(s)]
      BY <1>1, <2>3 DEF Deliver
    <3>2. CASE m # n
      BY <1>1, <1>3, <3>1, <3>2 DEF Has
    <3>3. CASE m = n
      <4> HIDE DEF s
      <4>1. stream'[n] = Tail(s)
        BY <1>1, <3>1, <3>3
      <4>2. i \in DOMAIN Tail(s)
        BY <1>3, <4>1
      <4>3. i + 1 \in DOMAIN s /\ Tail(s)[i] = s[i + 1]
        BY <3>1, <4>2
      <4> QED
        BY <1>3, <3>3, <4>1, <4>3 DEF Has, s
    <3> QED
      BY <3>2, <3>3
  <2>4. ASSUME NEW m \in Nodes, Restart(m)
        PROVE  Has(n, e) \/ Current
    <3>1. CASE m = n
      <4>1. stream'[n] = <<>>
        BY <1>1, <2>4, <3>1 DEF Restart
      <4>2. DOMAIN <<>> = {}
        OBVIOUS
      <4> QED
        BY <1>3, <4>1, <4>2
    <3>2. CASE m # n
      BY <1>1, <1>3, <2>4, <3>2 DEF Restart, Has
    <3> QED
      BY <3>1, <3>2
  <2>5. ASSUME NEW m \in Nodes, Updates(m)
        PROVE  Has(n, e) \/ Current
    BY <2>2, <2>5, UpdatesFacts DEF Updates
  <2> QED
    BY <2>1, <2>2, <2>3, <2>4, <2>5, StoreStep DEF ByUser
<1>4. ASSUME \/ e \in work'[n].todo
             \/ work'[n].cur # NoCur /\ e = [name |-> work'[n].cur.name, copy |-> work'[n].cur.copy]
      PROVE  Has(n, e) \/ Current
  <2>1. CASE work'[n] = work[n]
    BY <1>4, <2>1 DEF Has, InHand
  <2>2. CASE Fresh(work'[n])
    BY <1>4, <2>2 DEF Fresh
  <2>3. CASE work'[n] = [work[n] EXCEPT !.pc = "resolve", !.todo = Listing(n)]
    <3>1. work'[n].todo = Listing(n) /\ work'[n].cur = work[n].cur
      BY <1>1, <2>3 DEF Works
    <3>2. CASE e \in Listing(n)
      BY <3>2 DEF Listing, Has
    <3> QED
      BY <1>4, <3>1, <3>2 DEF Has, InHand
  <2>4. ASSUME NEW d \in work[n].todo, NEW key \in Keys,
               work'[n] = [work[n] EXCEPT !.pc = "publish", !.todo = work[n].todo \ {d},
                             !.cur = [name |-> d.name, copy |-> d.copy, key |-> key]]
        PROVE  Has(n, e) \/ Current
    <3>1. d = [name |-> d.name, copy |-> d.copy]
      BY <1>1, WorksFacts DEF TodoEvents
    <3>2. /\ work'[n].todo = work[n].todo \ {d}
          /\ work'[n].cur = [name |-> d.name, copy |-> d.copy, key |-> key]
      BY <1>1, <2>4 DEF Works
    <3>3. [name |-> work'[n].cur.name, copy |-> work'[n].cur.copy] = d
      BY <3>1, <3>2
    <3> QED
      BY <1>4, <3>2, <3>3 DEF Has
  <2>5. CASE work'[n] = WithTunnel(n)
    <3>1. work'[n].todo = work[n].todo /\ work'[n].cur = NoCur
      BY <1>1, <2>5 DEF WithTunnel, Works
    <3> QED
      BY <1>4, <3>1 DEF Has
  <2>6. CASE work'[n] = [work[n] EXCEPT !.turn = work[n].turn + 1]
    <3>1. work'[n].todo = work[n].todo /\ work'[n].cur = work[n].cur
      BY <1>1, <2>6 DEF Works
    <3> QED
      BY <1>4, <3>1 DEF Has, InHand
  <2> DEFINE Then == Has(n, e) \/ Current
  <2>7. ASSUME Move(n, work'[n]) PROVE Then
    BY <2>2, <2>3, <2>4, <2>5, <2>6, <2>7 DEF Move
  <2> HIDE DEF Then
  <2>8. work'[n] = work[n] => Then
    BY <2>1 DEF Then
  <2>9. Then
    BY <2>7, <2>8, WorkMoves
  <2> QED
    BY <2>9 DEF Then
<1> QED
  BY <1>2, <1>3, <1>4 DEF Has, InHand

-----------------------------------------------------------------------------
(* No write is lost: OthersKept.                                           *)

\* A copy is never newer than the object, and of one version there is one
\* content; and every key it shows has been published.
Good(e, objects, shown) ==
  /\ e \in Event
  /\ e.copy.ver <= objects[e.name].ver
  /\ e.copy.ver = objects[e.name].ver => e.copy = objects[e.name]
  /\ e.copy.val # Absent =>
       \A n \in Nodes : e.copy.val.keys[n] # NoKey => <<e.name, n, e.copy.val.keys[n]>> \in shown
CopiesGood ==
  /\ \A w \in Clients : Good([name |-> w, copy |-> store[w]], store, published)
  /\ \A n \in Nodes : \A e : Has(n, e) => Good(e, store, published)

\* A write leaves copies good, and makes a good one.
LEMMA WriteGood ==
  ASSUME Typed, NEW w \in Clients, NEW val \in Values \cup {Absent}, Write(w, val)
  PROVE  /\ \A e : Good(e, store, published) => Good(e, store', published')
         /\ Good([name |-> w, copy |-> store'[w]], store', published')
<1>1. /\ store \in [Clients -> Copy] /\ store' \in [Clients -> Copy]
      /\ store'[w].ver = store[w].ver + 1 /\ store'[w].val = val
      /\ \A v \in Clients : v # w => store'[v] = store[v]
      /\ published' = published \cup Published(store')
  BY WriteFacts, WriteTyped DEF Typed, ObjTyped, HistoryTyped
<1>2. ASSUME NEW e, Good(e, store, published)
      PROVE  Good(e, store', published')
  <2>1. e \in Event /\ e.name \in Clients /\ e.copy.ver \in Nat /\ store[e.name].ver \in Nat
    BY <1>1, <1>2 DEF Good, Event, Copy
  <2>2. CASE e.name = w
    BY <1>1, <1>2, <2>1, <2>2 DEF Good
  <2>3. CASE e.name # w
    BY <1>1, <1>2, <2>1, <2>3 DEF Good
  <2> QED
    BY <2>2, <2>3
<1>3. Good([name |-> w, copy |-> store'[w]], store', published')
  <2> DEFINE new == [name |-> w, copy |-> store'[w]]
  <2>1. new \in Event /\ new.copy.ver \in Nat
    BY <1>1 DEF Event, Copy
  <2>2. ASSUME store'[w].val # Absent, NEW n \in Nodes, store'[w].val.keys[n] # NoKey
        PROVE  <<w, n, store'[w].val.keys[n]>> \in published'
    BY <1>1, <2>2 DEF Published
  <2> QED
    BY <2>1, <2>2 DEF Good
<1> QED
  BY <1>2, <1>3

\* Every step leaves copies good.
LEMMA StepGood ==
  ASSUME Typed, [Next]_vars
  PROVE  /\ \A e : Good(e, store, published) => Good(e, store', published')
         /\ \A w \in Clients : Good([name |-> w, copy |-> store[w]], store, published)
              => Good([name |-> w, copy |-> store'[w]], store', published')
<1>1. CASE UNCHANGED <<store, published>>
  BY <1>1
<1>2. ASSUME NEW w \in Clients, NEW val \in Values \cup {Absent}, Write(w, val),
             NEW v \in Clients, Good([name |-> v, copy |-> store[v]], store, published)
      PROVE  Good([name |-> v, copy |-> store'[v]], store', published')
  <2>1. CASE v = w
    BY <1>2, <2>1, WriteGood
  <2>2. CASE v # w
    <3>1. store'[v] = store[v]
      BY <1>2, <2>2, WriteFacts
    <3> QED
      BY <1>2, <3>1, WriteGood
  <2> QED
    BY <2>1, <2>2
<1>3. CASE \E w \in Clients, val \in Values \cup {Absent} : Write(w, val)
  BY <1>2, <1>3, WriteGood
<1>4. ASSUME NEW n \in Nodes, Updates(n)
      PROVE  \E w \in Clients, val \in Values \cup {Absent} : Write(w, val)
  BY <1>4, UpdatesFacts DEF Updates
<1>5. ASSUME NEW n \in Nodes, Deliver(n) \/ Restart(n)
      PROVE  UNCHANGED <<store, published>>
  BY <1>5 DEF Deliver, Restart, cacheOthers
<1> QED
  BY <1>1, <1>3, <1>4, <1>5, StoreStep DEF ByUser

\* At first there is nothing to copy.
LEMMA CopiesInit == Init => CopiesGood
<1> SUFFICES ASSUME Init PROVE CopiesGood
  OBVIOUS
<1>1. /\ store = [w \in Clients |-> [ver |-> 0, val |-> Absent]]
      /\ \A n \in Nodes : cache[n] = store /\ stream[n] = <<>> /\ work[n] = Idle
  BY DEF Init
<1>2. \A w \in Clients : Good([name |-> w, copy |-> store[w]], store, published)
  BY <1>1 DEF Good, Event, Copy
<1>3. DOMAIN <<>> = {}
  OBVIOUS
<1>4. ASSUME NEW n \in Nodes, NEW e, Has(n, e)
      PROVE  \E w \in Clients : e = [name |-> w, copy |-> store[w]]
  BY <1>1, <1>3, <1>4 DEF Has, Idle
<1> QED
  BY <1>2, <1>4 DEF CopiesGood

\* The copies stay good.
LEMMA CopiesStep ==
  ASSUME Typed, CopiesGood, [Next]_vars
  PROVE  CopiesGood'
<1>1. \A w \in Clients : Good([name |-> w, copy |-> store'[w]], store', published')
  BY StepGood DEF CopiesGood
<1>2. ASSUME NEW n \in Nodes, NEW e, Has(n, e)'
      PROVE  Good(e, store', published')
  <2>1. CASE Has(n, e)
    BY <2>1, StepGood DEF CopiesGood
  <2> QED
    BY <1>1, <1>2, <2>1, HasStep
<1> QED
  BY <1>1, <1>2 DEF CopiesGood

\* An update that is accepted was made from the object as it is, and changes one
\* entry of its status.
LEMMA UpdateIsOwn ==
  ASSUME Typed, CopiesGood, NEW n \in Nodes, Updates(n)
  PROVE  LET w == work[n].cur.name
         IN  /\ w \in Clients /\ store[w].val \in Values /\ work[n].cur.key \in Keys
             /\ work[n].cur.copy = store[w]
             /\ store'[w].val = WithKey(store[w].val, n, work[n].cur.key)
             /\ \A v \in Clients : v # w => store'[v] = store[v]
<1> DEFINE w == work[n].cur.name
<1>1. work[n].cur \in CurObjects /\ work[n].cur # NoCur
  BY PublishFacts DEF Updates, Typed
<1>2. w \in Clients /\ InHand(n).name = w /\ InHand(n).copy = work[n].cur.copy /\ work[n].cur.key \in Keys
  BY <1>1 DEF CurObjects, InHand
<1>3. work[n].cur.copy = store[w]
  <2>1. Good(InHand(n), store, published)
    BY <1>1 DEF CopiesGood, Has
  <2> QED
    BY <1>2, <2>1 DEF Good, Updates, Accepted
<1>4. store[w].val \in Values
  BY <1>1, <1>3 DEF CurObjects
<1>5. Write(w, Corrected(n)) /\ Corrected(n) \in Values
  BY <1>2, UpdatesFacts DEF Updates
<1>6. store'[w].val = Corrected(n) /\ \A v \in Clients : v # w => store'[v] = store[v]
  BY <1>2, <1>5, WriteFacts
<1> QED
  BY <1>2, <1>3, <1>4, <1>6 DEF Corrected

\* The daemons of all nodes write the whole of an object from copies they read
\* earlier. None undoes what a user or another daemon wrote: a step of a daemon
\* leaves every spec alone, creates and deletes no object, and changes at most
\* one entry of one status. A copy that is one version behind is refused, and a
\* copy of the version that is there has the content that is there.
THEOREM WritesKept == Spec => OthersKept
<1> DEFINE Step ==
      edits' = edits =>
        /\ \A w \in Clients :
             /\ store[w].val = Absent <=> store'[w].val = Absent
             /\ store[w].val # Absent => store'[w].val.spec = store[w].val.spec
        /\ \A x, y \in Entries : x = y
<1>1. ASSUME Typed, CopiesGood, [Next]_vars
      PROVE  Step
  <2> SUFFICES ASSUME edits' = edits
               PROVE  /\ \A w \in Clients :
                           /\ store[w].val = Absent <=> store'[w].val = Absent
                           /\ store[w].val # Absent => store'[w].val.spec = store[w].val.spec
                      /\ \A x, y \in Entries : x = y
    OBVIOUS
  <2>1. CASE UNCHANGED store
    BY <2>1 DEF Entries
  <2>2. ASSUME NEW n \in Nodes, Updates(n)
        PROVE  /\ \A w \in Clients :
                    /\ store[w].val = Absent <=> store'[w].val = Absent
                    /\ store[w].val # Absent => store'[w].val.spec = store[w].val.spec
               /\ \A x \in Entries : x = <<work[n].cur.name, n>>
    <3> DEFINE u == work[n].cur.name
               key == work[n].cur.key
    <3>1. /\ u \in Clients /\ store[u].val \in Values /\ key \in Keys
          /\ store'[u].val = WithKey(store[u].val, n, key)
          /\ \A v \in Clients : v # u => store'[v] = store[v]
      BY <1>1, <2>2, UpdateIsOwn
    <3> HIDE DEF u, key
    <3>2. /\ store'[u].val \in Values /\ store'[u].val.spec = store[u].val.spec
          /\ \A m \in Nodes : m # n => store'[u].val.keys[m] = store[u].val.keys[m]
      BY <3>1, ValueFacts DEF WithKey, Values
    <3>3. ASSUME NEW x \in Entries
          PROVE  x = <<u, n>>
      <4>1. x \in Clients \X Nodes /\ store[x[1]].val.keys[x[2]] # store'[x[1]].val.keys[x[2]]
        BY <3>3 DEF Entries
      <4>2. x[1] = u /\ x[2] = n
        BY <3>1, <3>2, <4>1
      <4> QED
        BY <4>1, <4>2
    <3>4. \A w \in Clients :
            /\ store[w].val = Absent <=> store'[w].val = Absent
            /\ store[w].val # Absent => store'[w].val.spec = store[w].val.spec
      BY <3>1, <3>2, ValueFacts
    <3> QED
      BY <3>3, <3>4 DEF u
  <2>3. ASSUME NEW n \in Nodes, Deliver(n) \/ Restart(n)
        PROVE  UNCHANGED store
    BY <2>3 DEF Deliver, Restart, cacheOthers
  <2> QED
    BY <1>1, <2>1, <2>2, <2>3, StoreStep
<1>2. Spec => [](Typed /\ CopiesGood)
  <2>1. Typed /\ CopiesGood /\ [Next]_vars => (Typed /\ CopiesGood)'
    BY TypeStep, CopiesStep
  <2> QED
    BY <2>1, TypeInit, CopiesInit, PTL DEF Spec
<1>3. Typed /\ CopiesGood /\ [Next]_vars => [Step]_vars
  BY <1>1
<1> HIDE DEF Step
<1>4. Spec => [][Step]_vars
  BY <1>2, <1>3, PTL DEF Spec
<1> QED
  BY <1>4 DEF OthersKept, Step

-----------------------------------------------------------------------------
(* A key is published before it is used: PublishedFirst.                   *)

\* The worker is at the tunnel of interface w, and the interface has that tunnel's
\* key, the one it had, or none.
Touched(n, w) ==
  /\ work[n].turn \in DOMAIN work[n].peers /\ w = TunnelNow(n).name
  /\ links'[n][w] # NoLink =>
       \/ links'[n][w].key \in {TunnelNow(n).key, NoKey}
       \/ links[n][w] # NoLink /\ links'[n][w].key = links[n][w].key

\* An interface is left alone, or it is deleted at the end of a Reconcile, or it
\* is that of the tunnel the worker is at.
LEMMA LinkStep ==
  ASSUME Typed, [Next]_vars, NEW n \in Nodes, NEW w \in Clients
  PROVE  \/ links'[n][w] = links[n][w]
         \/ links'[n][w] = NoLink /\ Fresh(work'[n])
         \/ Touched(n, w) /\ work[n].pc = "resolve" /\
              \/ Fresh(work'[n])
              \/ work'[n] = [work[n] EXCEPT !.turn = work[n].turn + 1]
<1> DEFINE Goal ==
      \/ links'[n][w] = links[n][w]
      \/ links'[n][w] = NoLink /\ Fresh(work'[n])
      \/ Touched(n, w) /\ work[n].pc = "resolve" /\
           \/ Fresh(work'[n])
           \/ work'[n] = [work[n] EXCEPT !.turn = work[n].turn + 1]
<1>1. work \in [Nodes -> Works] /\ links \in [Nodes -> [Clients -> Links \cup {NoLink}]]
  BY DEF Typed, WorkTyped, HostTyped
<1>2. ASSUME NEW m \in Nodes, Finish(m)
      PROVE  Goal
  <2>1. PICK gone \in SUBSET Leftovers(m) : DeleteLinks(m, gone)
    BY <1>2, FinishCases
  <2>2. gone \in SUBSET Clients
    BY DEF Leftovers
  <2>3. links'[n][w] = IF n = m /\ w \in gone THEN NoLink ELSE links[n][w]
    BY <2>1, <2>2, DeleteTyped DEF Typed
  <2>4. work' = [work EXCEPT ![m] = Idle]
    BY <1>2, FinishCases
  <2>5. n = m => Fresh(work'[n])
    BY <1>1, <2>4, IdleFresh
  <2> QED
    BY <2>3, <2>5
<1>3. ASSUME NEW m \in Nodes, SyncLink(m)
      PROVE  Goal
  <2> DEFINE t == TunnelNow(m)
  <2>1. /\ work[m].pc = "resolve" /\ work[m].turn \in DOMAIN work[m].peers /\ t \in Tunnels
        /\ \E new, x : Leaves(m, t, links[m][t.name], new, x)
    BY <1>3, SyncCases DEF Syncing
  <2>2. PICK new, x : Leaves(m, t, links[m][t.name], new, x)
    BY <2>1
  <2>3. t.name \in Clients
    BY <2>1 DEF Tunnels
  <2> HIDE DEF t
  <2>4. /\ links' = [links EXCEPT ![m] = [links[m] EXCEPT ![t.name] = new]]
        /\ new # NoLink =>
             \/ new.key \in {t.key, NoKey}
             \/ links[m][t.name] # NoLink /\ new.key = links[m][t.name].key
    BY <2>2 DEF Leaves
  <2>5. CASE m = n /\ w = t.name
    <3>1. links'[n][w] = new
      BY <1>1, <2>3, <2>4, <2>5
    <3>2. Touched(n, w)
      BY <2>1, <2>4, <2>5, <3>1 DEF Touched, t
    <3>3. \/ work' = [work EXCEPT ![n] = Idle]
          \/ work' = [work EXCEPT ![n] = [work[n] EXCEPT !.turn = work[n].turn + 1]]
      BY <2>2, <2>5 DEF Leaves, GiveUp
    <3>4. work'[n] = Idle \/ work'[n] = [work[n] EXCEPT !.turn = work[n].turn + 1]
      BY <1>1, <3>3
    <3> QED
      BY <2>1, <2>5, <3>2, <3>4, IdleFresh
  <2>6. CASE ~(m = n /\ w = t.name)
    <3>1. links'[n][w] = links[n][w]
      BY <1>1, <2>3, <2>4, <2>6
    <3> QED
      BY <3>1
  <2> QED
    BY <2>5, <2>6
<1>4. ASSUME UNCHANGED links
      PROVE  Goal
  BY <1>4
<1> HIDE DEF Goal
<1>5. ASSUME NEW m \in Nodes, List(m) \/ Publish(m) \/ Restart(m) \/ Deliver(m) \/ Resync(m) \/ SeeSecrets(m)
      PROVE  UNCHANGED links
  BY <1>5 DEF List, Publish, Restart, Deliver, Resync, SeeSecrets, cacheOthers, hostVars
<1>6. ASSUME NEW m \in Nodes, NEW v \in Clients, Take(m, v) \/ ResolveOf(m, v)
      PROVE  UNCHANGED links
  BY <1>6 DEF Take, ResolveOf, Resolve, hostVars
<1>7. ASSUME Edit
      PROVE  UNCHANGED links
  BY <1>7 DEF Edit, hostVars
<1>8. ASSUME \/ \E v \in Clients, spec \in Specs : CreateClient(v, spec) \/ EditClient(v, spec)
             \/ \E v \in Clients : DeleteClient(v)
             \/ \E s \in SecretNames : DeleteSecret(s)
      PROVE  Edit
  BY <1>8 DEF CreateClient, EditClient, DeleteClient, DeleteSecret
<1>9. UNCHANGED vars => UNCHANGED links
  BY DEF vars, hostVars
<1>10. Goal
  BY <1>2, <1>3, <1>4, <1>5, <1>6, <1>7, <1>8, <1>9 DEF Next, Work
<1> QED
  BY <1>10 DEF Goal

\* What has been published stays so.
LEMMA PublishedGrows ==
  ASSUME Typed, [Next]_vars
  PROVE  published \subseteq published'
<1>1. ASSUME NEW w \in Clients, NEW val \in Values \cup {Absent}, Write(w, val)
      PROVE  published \subseteq published'
  BY <1>1 DEF Write
<1>2. ASSUME NEW n \in Nodes, Updates(n)
      PROVE  published \subseteq published'
  BY <1>2 DEF Updates, Write
<1>3. ASSUME NEW n \in Nodes, Deliver(n) \/ Restart(n)
      PROVE  UNCHANGED published
  BY <1>3 DEF Deliver, Restart, cacheOthers
<1> QED
  BY <1>1, <1>2, <1>3, StoreStep DEF ByUser

\* The keys of the tunnels a worker is going to make have been published.
PeersShown ==
  \A n \in Nodes : \A i \in DOMAIN work[n].peers :
    <<work[n].peers[i].name, n, work[n].peers[i].key>> \in published

\* A tunnel is put on the list after the update of its object was accepted, or
\* needed no update.
LEMMA SavedIsShown ==
  ASSUME Typed, CopiesGood, [Next]_vars, NEW n \in Nodes, work[n].pc = "publish",
         \/ Save(InHand(n), Corrected(n))
         \/ Corrected(n) = work[n].cur.copy.val
  PROVE  <<TunnelFor(n).name, n, TunnelFor(n).key>> \in published'
<1> DEFINE w == work[n].cur.name
           key == work[n].cur.key
<1>1. work[n].cur \in CurObjects /\ work[n].cur # NoCur /\ Corrected(n) \in Values
  BY PublishFacts DEF Typed
<1>2. /\ w \in Clients /\ key \in Keys /\ key # NoKey /\ InHand(n).name = w
      /\ InHand(n).copy = work[n].cur.copy /\ work[n].cur.copy.val \in Values
  BY <1>1, SentinelsApart DEF CurObjects, InHand
<1>3. Corrected(n).keys[n] = key /\ Corrected(n) # Absent
  <2>1. work[n].cur.copy.val.keys \in [Nodes -> Keys \cup {NoKey}]
    BY <1>2, ValueFacts
  <2>2. Corrected(n) # Absent
    BY <1>1, ValueFacts
  <2>3. Corrected(n) = WithKey(work[n].cur.copy.val, n, key)
    BY DEF Corrected
  <2>4. WithKey(work[n].cur.copy.val, n, key).keys[n] = key
    BY <1>2, <2>1 DEF WithKey, Values
  <2> QED
    BY <2>2, <2>3, <2>4
<1>4. TunnelFor(n).name = w /\ TunnelFor(n).key = key
  BY DEF TunnelFor
<1> HIDE DEF w, key
<1>5. CASE Corrected(n) = work[n].cur.copy.val
  <2>1. Good(InHand(n), store, published)
    BY <1>1 DEF CopiesGood, Has
  <2> QED
    BY <1>2, <1>3, <1>4, <1>5, <2>1, PublishedGrows DEF Good
<1>6. CASE Save(InHand(n), Corrected(n))
  <2>1. CASE Corrected(n) = store[w].val
    <3>1. Good([name |-> w, copy |-> store[w]], store, published)
      BY <1>2 DEF CopiesGood
    <3> QED
      BY <1>2, <1>3, <1>4, <2>1, <3>1, PublishedGrows DEF Good
  <2>2. CASE Write(w, Corrected(n))
    <3>1. store'[w].val = Corrected(n) /\ Good([name |-> w, copy |-> store'[w]], store', published')
      BY <1>1, <1>2, <2>2, WriteFacts, WriteGood
    <3> QED
      BY <1>2, <1>3, <1>4, <3>1 DEF Good
  <2> QED
    BY <1>2, <1>6, <2>1, <2>2 DEF Save
<1> QED
  BY <1>5, <1>6

\* They stay published, and so do those that are added.
LEMMA PeersStep ==
  ASSUME Typed, CopiesGood, PeersShown, [Next]_vars
  PROVE  PeersShown'
<1> SUFFICES ASSUME NEW n \in Nodes, NEW i \in DOMAIN work'[n].peers
             PROVE  <<work'[n].peers[i].name, n, work'[n].peers[i].key>> \in published'
  BY DEF PeersShown
<1>1. work \in [Nodes -> Works] /\ published \subseteq published'
  BY PublishedGrows DEF Typed, WorkTyped
<1>2. CASE work'[n].peers = work[n].peers
  BY <1>1, <1>2 DEF PeersShown
<1>3. CASE Fresh(work'[n])
  <2>1. DOMAIN <<>> = {}
    OBVIOUS
  <2> QED
    BY <1>3, <2>1 DEF Fresh
<1>4. CASE /\ work[n].pc = "publish" /\ work'[n] = WithTunnel(n)
           /\ \/ Save(InHand(n), Corrected(n))
              \/ Corrected(n) = work[n].cur.copy.val
  <2> DEFINE s == work[n].peers
             t == TunnelFor(n)
  <2>1. work'[n].peers = Append(s, t)
    BY <1>1, <1>4 DEF WithTunnel, Works
  <2>2. s \in Seq(Tunnels)
    BY <1>1, WorksFacts
  <2>3. <<t.name, n, t.key>> \in published'
    BY <1>4, SavedIsShown
  <2> HIDE DEF s, t
  <2>4. i \in 1..(Len(s) + 1) /\ Len(s) \in Nat
    BY <2>1, <2>2
  <2>5. work'[n].peers[i] = IF i = Len(s) + 1 THEN t ELSE s[i]
    BY <2>1, <2>2, <2>4
  <2>6. i # Len(s) + 1 => i \in DOMAIN s
    BY <2>2, <2>4
  <2>7. i # Len(s) + 1 => <<s[i].name, n, s[i].key>> \in published'
    BY <1>1, <2>6 DEF PeersShown, s
  <2> QED
    BY <2>3, <2>5, <2>7
<1>5. ASSUME Move(n, work'[n]), ~Fresh(work'[n]),
             ~(/\ work[n].pc = "publish" /\ work'[n] = WithTunnel(n)
               /\ \/ Save(InHand(n), Corrected(n))
                  \/ Corrected(n) = work[n].cur.copy.val)
      PROVE  work'[n].peers = work[n].peers
  <2>1. work[n] \in Works
    BY <1>1
  <2> QED
    BY <1>5, <2>1 DEF Move, Works
<1> QED
  BY <1>2, <1>3, <1>4, <1>5, WorkMoves

\* In every state copies are good and the keys of listed tunnels published.
LEMMA AlwaysPublished == Spec => [](Typed /\ CopiesGood /\ PeersShown)
<1>1. Init => PeersShown
  <2>1. DOMAIN <<>> = {}
    OBVIOUS
  <2> QED
    BY <2>1 DEF Init, Idle, PeersShown
<1>2. Typed /\ CopiesGood /\ PeersShown /\ [Next]_vars => (Typed /\ CopiesGood /\ PeersShown)'
  BY TypeStep, CopiesStep, PeersStep
<1> QED
  BY <1>1, <1>2, TypeInit, CopiesInit, PTL DEF Spec

\* A key is published before it is used: whatever of copies, Secrets and caches
\* was stale when Reconcile read it, and wherever a sync or a daemon broke off,
\* no interface ever has a key the status has not shown for the node.
THEOREM KeysPublishedFirst == Spec => []PublishedFirst
<1>1. Init => PublishedFirst
  BY DEF Init, PublishedFirst
<1>2. ASSUME Typed, CopiesGood, PeersShown, PublishedFirst, [Next]_vars
      PROVE  PublishedFirst'
  <2> SUFFICES ASSUME NEW n \in Nodes, NEW w \in Clients,
                      links'[n][w] # NoLink, links'[n][w].key # NoKey
               PROVE  <<w, n, links'[n][w].key>> \in published'
    BY DEF PublishedFirst
  <2>1. published \subseteq published'
    BY <1>2, PublishedGrows
  <2>2. CASE links'[n][w] = links[n][w]
    BY <1>2, <2>1, <2>2 DEF PublishedFirst
  <2>3. CASE Touched(n, w)
    <3>1. CASE links[n][w] # NoLink /\ links'[n][w].key = links[n][w].key
      BY <1>2, <2>1, <3>1 DEF PublishedFirst
    <3>2. CASE links'[n][w].key = TunnelNow(n).key
      <4>1. <<TunnelNow(n).name, n, TunnelNow(n).key>> \in published
        BY <1>2, <2>3 DEF Touched, PeersShown, TunnelNow
      <4> QED
        BY <2>1, <2>3, <3>2, <4>1 DEF Touched
    <3> QED
      BY <2>3, <3>1, <3>2 DEF Touched
  <2> QED
    BY <1>2, <2>2, <2>3, LinkStep
<1>3. PublishedFirst /\ (Typed /\ CopiesGood /\ PeersShown) /\ [Next]_vars => PublishedFirst'
  BY <1>2
<1> QED
  BY <1>1, <1>3, AlwaysPublished, PTL DEF Spec

-----------------------------------------------------------------------------
(* Ready objects are usable: ReadyIsUsable.                                *)

\* A list from the cache names an object once, and so do the tunnels made of it.
Apart(k) ==
  /\ k.pc = "list" => k.peers = <<>>
  /\ \A d, e \in k.todo : d.name = e.name => d = e
  /\ k.cur # NoCur =>
       /\ \A e \in k.todo : e.name # k.cur.name
       /\ \A i \in DOMAIN k.peers : k.peers[i].name # k.cur.name
  /\ \A i \in DOMAIN k.peers : \A e \in k.todo : k.peers[i].name # e.name
  /\ \A i, j \in DOMAIN k.peers : k.peers[i].name = k.peers[j].name => i = j

\* A worker that has nothing has nothing twice.
LEMMA FreshApart ==
  ASSUME NEW k, Fresh(k)
  PROVE  Apart(k)
<1>1. DOMAIN <<>> = {}
  OBVIOUS
<1> QED
  BY <1>1 DEF Fresh, Apart

\* Objects move from the list to the hand, and from the hand to the tunnels.
LEMMA MoveApart ==
  ASSUME WorkTyped, NEW n \in Nodes, Apart(work[n]), NEW m, Move(n, m)
  PROVE  Apart(m)
<1> DEFINE k == work[n]
<1>1. k \in Works /\ WorkerOK(k)
  BY DEF WorkTyped
<1>2. CASE Fresh(m)
  BY <1>2, FreshApart
<1>3. CASE k.pc = "list" /\ m = [k EXCEPT !.pc = "resolve", !.todo = Listing(n)]
  <2>1. m.pc = "resolve" /\ m.todo = Listing(n) /\ m.cur = k.cur /\ m.peers = k.peers
    BY <1>1, <1>3 DEF Works
  <2>2. k.cur = NoCur /\ k.peers = <<>>
    BY <1>1, <1>3 DEF WorkerOK, Apart
  <2>3. \A d, e \in Listing(n) : d.name = e.name => d = e
    BY DEF Listing
  <2>4. DOMAIN <<>> = {}
    OBVIOUS
  <2> QED
    BY <2>1, <2>2, <2>3, <2>4 DEF Apart
<1>4. ASSUME NEW e \in k.todo, NEW key \in Keys, k.pc = "resolve",
             m = [k EXCEPT !.pc = "publish", !.todo = k.todo \ {e},
                           !.cur = [name |-> e.name, copy |-> e.copy, key |-> key]]
      PROVE  Apart(m)
  <2>1. m.pc = "publish" /\ m.todo = k.todo \ {e} /\ m.cur.name = e.name /\ m.peers = k.peers
    BY <1>1, <1>4 DEF Works
  <2> QED
    BY <1>4, <2>1 DEF Apart
<1>5. CASE k.pc = "publish" /\ m = WithTunnel(n)
  <2> DEFINE s == k.peers
             t == TunnelFor(n)
  <2>1. m.pc = "resolve" /\ m.todo = k.todo /\ m.cur = NoCur /\ m.peers = Append(s, t)
    BY <1>1, <1>5 DEF WithTunnel, Works
  <2>2. s \in Seq(Tunnels) /\ t.name = k.cur.name /\ k.cur # NoCur
    BY <1>1, <1>5, WorksFacts DEF TunnelFor, WorkerOK
  <2>3. /\ \A e \in k.todo : e.name # t.name
        /\ \A i \in DOMAIN s : s[i].name # t.name
    BY <2>2 DEF Apart
  <2>4. /\ \A i \in DOMAIN s : \A e \in k.todo : s[i].name # e.name
        /\ \A i, j \in DOMAIN s : s[i].name = s[j].name => i = j
        /\ \A d, e \in k.todo : d.name = e.name => d = e
    BY DEF Apart
  <2> HIDE DEF s, t
  <2>5. /\ DOMAIN m.peers = 1..(Len(s) + 1) /\ Len(s) \in Nat /\ DOMAIN s = 1..Len(s)
        /\ \A i \in 1..(Len(s) + 1) : m.peers[i] = IF i = Len(s) + 1 THEN t ELSE s[i]
        /\ \A i \in 1..(Len(s) + 1) : i # Len(s) + 1 => i \in 1..Len(s)
    BY <2>1, <2>2
  <2>6. \A i \in DOMAIN m.peers : \A e \in k.todo : m.peers[i].name # e.name
    BY <2>3, <2>4, <2>5
  <2>7. \A i, j \in DOMAIN m.peers : m.peers[i].name = m.peers[j].name => i = j
    BY <2>3, <2>4, <2>5
  <2> QED
    BY <2>1, <2>4, <2>6, <2>7 DEF Apart
<1>6. CASE k.pc = "resolve" /\ m = [k EXCEPT !.turn = k.turn + 1]
  <2>1. m.pc = "resolve" /\ m.todo = k.todo /\ m.cur = k.cur /\ m.peers = k.peers
    BY <1>1, <1>6 DEF Works
  <2> QED
    BY <2>1 DEF Apart
<1> QED
  BY <1>2, <1>3, <1>4, <1>5, <1>6 DEF Move

\* The tunnels before the turn of the worker are there as their objects ask.
MadeSoFar(n) ==
  \A i \in DOMAIN work[n].peers :
    i < work[n].turn => Carries(links[n][work[n].peers[i].name], work[n].peers[i])

\* Making one leaves the others of the list alone, and an error forgets the list.
LEMMA MadeStep ==
  ASSUME Typed, [Next]_vars, NEW n \in Nodes, Apart(work[n]), MadeSoFar(n)
  PROVE  MadeSoFar(n)'
<1> DEFINE k == work[n]
           s == work[n].peers
<1>1. /\ k \in Works /\ WorkerOK(k) /\ s \in Seq(Tunnels) /\ Len(s) \in Nat
      /\ DOMAIN s = 1..Len(s) /\ k.turn \in 1..(Len(s) + 1)
  BY WorksFacts DEF Typed, WorkTyped, WorkerOK
<1>2. \A i \in DOMAIN s : s[i].name \in Clients
  <2>1. \A i \in DOMAIN s : s[i] \in Tunnels
    BY <1>1
  <2> QED
    BY <2>1 DEF Tunnels
<1> SUFFICES ASSUME NEW i \in DOMAIN work'[n].peers, i < work'[n].turn
             PROVE  Carries(links'[n][work'[n].peers[i].name], work'[n].peers[i])
  BY DEF MadeSoFar
<1>3. ~Fresh(work'[n])
  <2>1. DOMAIN <<>> = {}
    OBVIOUS
  <2> QED
    BY <2>1 DEF Fresh
<1>4. ASSUME work'[n].turn = k.turn, i \in DOMAIN s, work'[n].peers[i] = s[i]
      PROVE  Carries(links'[n][work'[n].peers[i].name], work'[n].peers[i])
  <2>1. work'[n] # [k EXCEPT !.turn = k.turn + 1]
    BY <1>1, <1>4 DEF Works
  <2>2. links'[n][s[i].name] = links[n][s[i].name]
    BY <1>2, <1>3, <1>4, <2>1, LinkStep
  <2> QED
    BY <1>4, <2>2 DEF MadeSoFar
<1>5. CASE work'[n].turn = k.turn /\ work'[n].peers = s
  BY <1>4, <1>5
<1>6. CASE work'[n] = WithTunnel(n)
  <2> DEFINE t == TunnelFor(n)
  <2>1. work'[n].peers = Append(s, t) /\ work'[n].turn = k.turn
    BY <1>1, <1>6 DEF WithTunnel, Works
  <2> HIDE DEF s, t
  <2>2. i \in 1..(Len(s) + 1)
    BY <1>1, <2>1
  <2>3. i \in DOMAIN s
    BY <1>1, <2>1, <2>2
  <2>4. work'[n].peers[i] = s[i]
    BY <1>1, <2>1, <2>3
  <2> QED
    BY <1>4, <2>1, <2>3, <2>4
<1>7. CASE /\ k.pc = "resolve" /\ k.turn \in DOMAIN s
           /\ Carries(links'[n][TunnelNow(n).name], TunnelNow(n))
           /\ work'[n] = [k EXCEPT !.turn = k.turn + 1]
  <2>1. work'[n].peers = s /\ work'[n].turn = k.turn + 1
    BY <1>1, <1>7 DEF Works
  <2>2. CASE i = k.turn
    BY <1>7, <2>1, <2>2 DEF TunnelNow
  <2>3. CASE i # k.turn
    <3>1. i \in DOMAIN s /\ i < k.turn
      BY <1>1, <2>1, <2>3
    <3>2. s[i].name # TunnelNow(n).name
      BY <1>7, <2>3, <3>1 DEF Apart, TunnelNow
    <3>3. links'[n][s[i].name] = links[n][s[i].name]
      BY <1>2, <1>3, <3>1, <3>2, LinkStep DEF Touched
    <3> QED
      BY <2>1, <3>1, <3>3 DEF MadeSoFar
  <2> QED
    BY <2>2, <2>3
<1>8. ASSUME Move(n, work'[n]), work'[n] # WithTunnel(n),
             ~(/\ k.pc = "resolve" /\ k.turn \in DOMAIN s
               /\ Carries(links'[n][TunnelNow(n).name], TunnelNow(n))
               /\ work'[n] = [k EXCEPT !.turn = k.turn + 1])
      PROVE  work'[n].turn = k.turn /\ work'[n].peers = s
  BY <1>1, <1>3, <1>8 DEF Move, Works
<1> QED
  BY <1>5, <1>6, <1>7, <1>8, WorkMoves

\* In every state.
LEMMA AlwaysMade == Spec => [](Typed /\ \A n \in Nodes : Apart(work[n]) /\ MadeSoFar(n))
<1> DEFINE Made == \A n \in Nodes : Apart(work[n]) /\ MadeSoFar(n)
<1>1. Init => Made
  <2>1. Apart(Idle)
    BY IdleFresh, FreshApart
  <2>2. DOMAIN <<>> = {}
    OBVIOUS
  <2> QED
    BY <2>1, <2>2 DEF Init, Idle, MadeSoFar
<1>2. ASSUME Typed, Made, [Next]_vars
      PROVE  Made'
  <2>1. ASSUME NEW n \in Nodes
        PROVE  Apart(work'[n])
    <3>1. Apart(work[n]) /\ WorkTyped
      BY <1>2 DEF Typed
    <3>2. CASE work'[n] = work[n]
      BY <3>1, <3>2
    <3>3. ASSUME NEW m, Move(n, m)
          PROVE  Apart(m)
      BY <3>1, <3>3, MoveApart
    <3> QED
      BY <1>2, <3>2, <3>3, WorkMoves
  <2>2. \A n \in Nodes : MadeSoFar(n)'
    BY <1>2, MadeStep
  <2> QED
    BY <2>1, <2>2
<1> HIDE DEF Made
<1>3. Typed /\ Made /\ [Next]_vars => (Typed /\ Made)'
  BY <1>2, TypeStep
<1>4. Spec => [](Typed /\ Made)
  BY <1>1, <1>3, TypeInit, PTL DEF Spec
<1> QED
  BY <1>4 DEF Made

\* Labels change when a Reconcile ends.
LEMMA ReadyStep ==
  ASSUME [Next]_vars, NEW n \in Nodes, ready'[n] # ready[n]
  PROVE  \E m \in Nodes : Finish(m)
<1>1. ready' # ready
  OBVIOUS
<1>2. \A m \in Nodes : ~(List(m) \/ Publish(m) \/ SyncLink(m) \/ Restart(m))
  BY <1>1 DEF List, Publish, SyncLink, Restart
<1>3. \A m \in Nodes : ~(Deliver(m) \/ Resync(m) \/ SeeSecrets(m))
  BY <1>1 DEF Deliver, Resync, SeeSecrets, cacheOthers
<1>4. \A m \in Nodes, v \in Clients : ~(Take(m, v) \/ ResolveOf(m, v))
  <2>1. \A m \in Nodes, v \in Clients : ~Take(m, v)
    BY <1>1 DEF Take
  <2>2. \A m \in Nodes, v \in Clients : ~ResolveOf(m, v)
    BY <1>1 DEF ResolveOf, Resolve
  <2> QED
    BY <2>1, <2>2
<1>5. ~Edit
  BY <1>1 DEF Edit
<1>6. ~UNCHANGED vars
  BY <1>1 DEF vars
<1>7. ~(\/ \E v \in Clients, spec \in Specs : CreateClient(v, spec) \/ EditClient(v, spec)
        \/ \E v \in Clients : DeleteClient(v)
        \/ \E s \in SecretNames : DeleteSecret(s))
  BY <1>5 DEF CreateClient, EditClient, DeleteClient, DeleteSecret
<1> QED
  BY <1>2, <1>3, <1>4, <1>6, <1>7 DEF Next, Work

\* When the label Ready is set for an object that lists the node, the tunnel is
\* there as the object asked: the syncs of the tunnels after it on the list have
\* not touched it, and it is no leftover.
THEOREM ReadyTunnels == Spec => ReadyIsUsable
<1> DEFINE Made == \A n \in Nodes : Apart(work[n]) /\ MadeSoFar(n)
           Step == \A n \in Nodes :
             ready'[n] # ready[n] =>
               \A i \in DOMAIN work[n].peers :
                 work[n].peers[i].name \in ready'[n] \ ready[n]
                   => Carries(links'[n][work[n].peers[i].name], work[n].peers[i])
<1>1. ASSUME Typed, Made, [Next]_vars
      PROVE  Step
  <2> SUFFICES ASSUME NEW n \in Nodes, ready'[n] # ready[n], NEW i \in DOMAIN work[n].peers
               PROVE  Carries(links'[n][work[n].peers[i].name], work[n].peers[i])
    OBVIOUS
  <2> DEFINE w == work[n].peers[i].name
  <2>1. work[n].peers \in Seq(Tunnels) /\ work[n].turn \in Nat
    BY <1>1, WorksFacts DEF Typed, WorkTyped
  <2>2. w \in Clients
    <3>1. work[n].peers[i] \in Tunnels
      BY <2>1
    <3> QED
      BY <3>1 DEF Tunnels
  <2>3. Finish(n)
    <3>1. PICK m \in Nodes : Finish(m)
      BY <1>1, ReadyStep
    <3>2. UNCHANGED ready \/ ready' = [ready EXCEPT ![m] = @ \cup {work[m].name}]
      BY <1>1, <3>1, FinishCases
    <3>3. ready \in [Nodes -> SUBSET Clients]
      BY <1>1 DEF Typed, HostTyped
    <3>4. m = n
      BY <3>2, <3>3
    <3> QED
      BY <3>1, <3>4
  <2>4. Carries(links[n][w], work[n].peers[i])
    <3>1. work[n].turn > Len(work[n].peers)
      BY <1>1, <2>3, FinishCases
    <3>2. i < work[n].turn
      BY <2>1, <3>1
    <3> QED
      BY <1>1, <3>2 DEF MadeSoFar
  <2>5. PICK gone \in SUBSET Leftovers(n) : DeleteLinks(n, gone)
    BY <1>1, <2>3, FinishCases
  <2>6. w \notin gone /\ gone \in SUBSET Clients
    BY DEF Leftovers
  <2>7. links'[n][w] = links[n][w]
    BY <1>1, <2>2, <2>5, <2>6, DeleteTyped DEF Typed
  <2> QED
    BY <2>4, <2>7
<1>2. Typed /\ Made /\ [Next]_vars => [Step]_vars
  BY <1>1
<1>3. Spec => [](Typed /\ Made)
  BY AlwaysMade
<1> HIDE DEF Made, Step
<1>4. Spec => [][Step]_vars
  BY <1>2, <1>3, PTL DEF Spec
<1> QED
  BY <1>4 DEF ReadyIsUsable, Step

-----------------------------------------------------------------------------
(* No second key: OneKey.                                                  *)

\* A Secret was made anew after the node had seen it: then the node has not met
\* the key it has now.
NewTo(n, key) ==
  /\ \A s \in SecretNames : seen[n][s] # key
  /\ \A w \in Clients : <<w, n, key>> \notin published
  /\ work[n].cur # NoCur => work[n].cur.key # key
  /\ \A spec \in Specs : spec.source[n] # key
Stale(n, s) == seen[n][s] \notin {NoKey, secret[s]} /\ secret[s] # NoKey
StaleIsNew == \A n \in Nodes, s \in SecretNames : Stale(n, s) => NewTo(n, secret[s])

\* A worker about to publish a key does not replace that of the Secret.
Agrees(n) ==
  LET cur == work[n].cur
      source == cur.copy.val.spec.source[n]
      s == SecretName(cur.name, n, source)
  IN IsRef(source) /\ secret[s] # NoKey /\ cur.copy.val.keys[n] = secret[s] => cur.key = secret[s]
KeyAgrees == \A n \in Nodes : work[n].cur # NoCur => Agrees(n)

\* A key that is not in use is new to everyone.
LEMMA UnusedIsNew ==
  ASSUME Typed, NEW key, key \notin InUse
  PROVE  /\ \A n \in Nodes : NewTo(n, key)
         /\ \A s \in SecretNames : secret[s] # key
<1> DEFINE bySecret == {secret[s] : s \in SecretNames}
           bySight == UNION {{seen[n][s] : s \in SecretNames} : n \in Nodes}
           byStatus == {x[3] : x \in published}
           bySpec == UNION {{spec.source[n] : n \in Nodes} : spec \in Specs}
           byHand == {work[n].cur.key : n \in {m \in Nodes : work[m].cur # NoCur}}
<1>1. /\ key \notin bySecret /\ key \notin bySight /\ key \notin byStatus /\ key \notin bySpec
      /\ key \notin byHand
  <2>1. InUse = bySecret \cup bySight \cup byStatus \cup bySpec \cup byHand
    BY DEF InUse
  <2> HIDE DEF bySecret, bySight, byStatus, bySpec, byHand
  <2> QED
    BY <2>1
<1>2. \A s \in SecretNames : secret[s] \in bySecret
  OBVIOUS
<1>3. ASSUME NEW n \in Nodes, NEW s \in SecretNames
      PROVE  seen[n][s] \in bySight
  <2>1. seen[n][s] \in {seen[n][t] : t \in SecretNames}
    OBVIOUS
  <2>2. {seen[n][t] : t \in SecretNames} \in {{seen[m][t] : t \in SecretNames} : m \in Nodes}
    OBVIOUS
  <2> QED
    BY <2>1, <2>2
<1>4. \A n \in Nodes, w \in Clients : <<w, n, key>> \notin published
  <2>1. \A x \in published : x[3] \in byStatus
    OBVIOUS
  <2>2. \A n \in Nodes, w \in Clients : <<w, n, key>>[3] = key
    OBVIOUS
  <2> QED
    BY <1>1, <2>1, <2>2
<1>5. \A n \in Nodes : work[n].cur # NoCur => work[n].cur.key \in byHand
  OBVIOUS
<1>6. \A n \in Nodes, spec \in Specs : spec.source[n] \in bySpec
  OBVIOUS
<1> HIDE DEF bySecret, bySight, byStatus, bySpec, byHand
<1> QED
  BY <1>1, <1>2, <1>3, <1>4, <1>5, <1>6 DEF NewTo

\* A node has published a key of which it had the copy in hand.
LEMMA PublishedStep ==
  ASSUME Typed, CopiesGood, [Next]_vars, NEW w \in Clients, NEW n \in Nodes, NEW key,
         <<w, n, key>> \in published'
  PROVE  \/ <<w, n, key>> \in published
         \/ work[n].cur # NoCur /\ work[n].cur.key = key
<1>1. ASSUME NEW v \in Clients, NEW val \in Values \cup {Absent}, Write(v, val),
             <<w, n, key>> \notin published
      PROVE  w = v /\ val # Absent /\ val.keys[n] = key /\ key # NoKey
  <2>1. <<w, n, key>> \in Published(store')
    BY <1>1, WriteFacts
  <2>2. PICK u \in Clients : store'[u].val # Absent /\ \E m \in Nodes :
          store'[u].val.keys[m] # NoKey /\ <<w, n, key>> = <<u, m, store'[u].val.keys[m]>>
    BY <2>1 DEF Published
  <2>3. u = w /\ store'[w].val # Absent /\ store'[w].val.keys[n] = key /\ key # NoKey
    BY <2>2
  <2>4. CASE w # v
    <3>1. Good([name |-> w, copy |-> store[w]], store, published) /\ store'[w] = store[w]
      BY <1>1, <2>4, WriteFacts DEF CopiesGood
    <3>2. <<w, n, key>> \in published
      BY <2>3, <3>1 DEF Good
    <3> QED
      BY <1>1, <3>2
  <2>5. CASE w = v
    BY <1>1, <2>3, <2>5, WriteFacts
  <2> QED
    BY <2>4, <2>5
<1>2. ASSUME NEW v \in Clients, NEW val \in Values \cup {Absent}, ByUser(v, val)
      PROVE  <<w, n, key>> \in published
  <2> SUFFICES ASSUME <<w, n, key>> \notin published PROVE FALSE
    OBVIOUS
  <2>1. w = v /\ val # Absent /\ val.keys[n] = key /\ key # NoKey
    BY <1>1, <1>2 DEF ByUser
  <2>2. store[w].val # Absent /\ store[w].val.keys[n] = key
    BY <1>2, <2>1 DEF ByUser
  <2>3. Good([name |-> w, copy |-> store[w]], store, published)
    BY DEF CopiesGood
  <2> QED
    BY <2>1, <2>2, <2>3 DEF Good
<1>3. ASSUME NEW m \in Nodes, Updates(m), <<w, n, key>> \notin published
      PROVE  work[n].cur # NoCur /\ work[n].cur.key = key
  <2>1. /\ work[m].cur.name \in Clients /\ store[work[m].cur.name].val \in Values
        /\ work[m].cur.key \in Keys
        /\ store'[work[m].cur.name].val = WithKey(store[work[m].cur.name].val, m, work[m].cur.key)
    BY <1>3, UpdateIsOwn
  <2>2. Write(work[m].cur.name, Corrected(m)) /\ Corrected(m) \in Values /\ work[m].cur # NoCur
    BY <1>3, UpdatesFacts DEF Updates, InHand
  <2>3. w = work[m].cur.name /\ Corrected(m) # Absent /\ Corrected(m).keys[n] = key /\ key # NoKey
    BY <1>1, <1>3, <2>1, <2>2
  <2>4. Corrected(m) = WithKey(store[w].val, m, work[m].cur.key)
    BY <2>1, <2>2, <2>3, WriteFacts
  <2>5. CASE n = m
    BY <2>1, <2>2, <2>3, <2>4, <2>5 DEF WithKey, Values
  <2>6. CASE n # m
    <3>1. \A val \in Values, k \in Keys : WithKey(val, m, k).keys[n] = val.keys[n]
      BY <2>6 DEF WithKey, Values
    <3>2. store[w].val.keys[n] = key /\ store[w].val # Absent
      <4>1. store[w].val \in Values /\ work[m].cur.key \in Keys
        BY <2>1, <2>3
      <4> QED
        BY <2>3, <2>4, <3>1, <4>1, ValueFacts
    <3>3. Good([name |-> w, copy |-> store[w]], store, published)
      BY DEF CopiesGood
    <3> QED
      BY <1>3, <2>3, <3>2, <3>3 DEF Good
  <2> QED
    BY <2>5, <2>6
<1>4. ASSUME NEW m \in Nodes, Deliver(m) \/ Restart(m)
      PROVE  UNCHANGED published
  BY <1>4 DEF Deliver, Restart, cacheOthers
<1> QED
  BY <1>2, <1>3, <1>4, StoreStep

\* What a worker has in hand it had, or it has just found the key for it.
LEMMA CurStep ==
  ASSUME Typed, [Next]_vars, NEW n \in Nodes, work'[n].cur # NoCur
  PROVE  \/ work'[n].cur = work[n].cur
         \/ \E e \in work[n].todo, key \in Keys :
              /\ Fixed(n, e, key)
              /\ work'[n].cur = [name |-> e.name, copy |-> e.copy, key |-> key]
<1>1. work[n] \in Works
  BY DEF Typed, WorkTyped
<1>2. work'[n] = work[n] \/ Move(n, work'[n])
  BY WorkMoves
<1>3. ASSUME NEW e \in work[n].todo, NEW key \in Keys, Fixed(n, e, key),
             work'[n] = [work[n] EXCEPT !.pc = "publish", !.todo = work[n].todo \ {e},
                           !.cur = [name |-> e.name, copy |-> e.copy, key |-> key]]
      PROVE  work'[n].cur = [name |-> e.name, copy |-> e.copy, key |-> key]
  BY <1>1, <1>3 DEF Works
<1>4. CASE \/ work'[n] = [work[n] EXCEPT !.pc = "resolve", !.todo = Listing(n)]
           \/ work'[n] = [work[n] EXCEPT !.turn = work[n].turn + 1]
  BY <1>1, <1>4 DEF Works
<1>5. CASE work'[n] = WithTunnel(n)
  BY <1>1, <1>5 DEF WithTunnel, Works
<1>6. CASE Fresh(work'[n])
  BY <1>6 DEF Fresh
<1> QED
  BY <1>2, <1>3, <1>4, <1>5, <1>6 DEF Move

\* A node makes a Secret where it saw none.
Makes(n, s) ==
  /\ CreateSecret(s, GeneratedKey)
  /\ \A m \in Nodes : m # n => work'[m] = work[m]
  /\ work'[n].cur # NoCur => seen[n][s] = NoKey /\ work'[n].cur.key = GeneratedKey

\* A Secret is deleted by a user, or made by a node that saw none.
LEMMA SecretStep ==
  ASSUME Typed, [Next]_vars
  PROVE  \/ UNCHANGED secret
         \/ edits' # edits /\ UNCHANGED <<seen, work, published>> /\
              \E s \in SecretNames : secret' = [secret EXCEPT ![s] = NoKey]
         \/ UNCHANGED <<seen, published>> /\ \E n \in Nodes, s \in SecretNames : Makes(n, s)
<1> DEFINE Goal ==
      \/ UNCHANGED secret
      \/ edits' # edits /\ UNCHANGED <<seen, work, published>> /\
           \E s \in SecretNames : secret' = [secret EXCEPT ![s] = NoKey]
      \/ UNCHANGED <<seen, published>> /\ \E n \in Nodes, s \in SecretNames : Makes(n, s)
<1>1. ASSUME NEW s \in SecretNames, DeleteSecret(s)
      PROVE  Goal
  <2>1. edits' # edits /\ UNCHANGED <<seen, work>>
    BY <1>1 DEF DeleteSecret, Edit, Typed, HistoryTyped
  <2> QED
    BY <1>1, <2>1 DEF DeleteSecret
<1>2. ASSUME NEW n \in Nodes, NEW e \in work[n].todo, Resolve(n, e)
      PROVE  Goal
  <2> DEFINE source == e.copy.val.spec.source[n]
             s == SecretName(e.name, n, source)
  <2>1. /\ work[n].pc = "resolve" /\ e \in TodoEvents /\ UNCHANGED <<seen, published>>
        /\ work \in [Nodes -> Works]
        /\ \/ \E key \in Keys : Fixed(n, e, key) /\ Found(n, e, key)
           \/ /\ GiveUp(n)
              /\ UNCHANGED secret \/ (IsRef(source) /\ CreateSecret(s, GeneratedKey))
    BY <1>2, ResolveCases DEF Typed, WorkTyped
  <2>2. IsRef(source) => s \in SecretNames
    BY <2>1, SourceFacts
  <2>3. CASE GiveUp(n) /\ IsRef(source) /\ CreateSecret(s, GeneratedKey)
    <3>1. work' = [work EXCEPT ![n] = Idle]
      BY <2>3 DEF GiveUp
    <3>2. work'[n].cur = NoCur /\ \A m \in Nodes : m # n => work'[m] = work[m]
      BY <2>1, <3>1 DEF Idle
    <3>3. Makes(n, s)
      BY <2>3, <3>2 DEF Makes
    <3> QED
      BY <2>1, <2>2, <2>3, <3>3
  <2>4. ASSUME NEW key \in Keys, Fixed(n, e, key), Found(n, e, key)
        PROVE  Goal
    <3>1. UNCHANGED secret \/
            (IsRef(source) /\ seen[n][s] = NoKey /\ CreateSecret(s, GeneratedKey) /\ key = GeneratedKey)
      BY <2>4 DEF Fixed
    <3>2. work' = [work EXCEPT ![n] =
            [work[n] EXCEPT !.pc = "publish", !.todo = work[n].todo \ {e},
                            !.cur = [name |-> e.name, copy |-> e.copy, key |-> key]]]
      BY <2>1, <2>4, FoundTyped DEF Typed
    <3>3. work'[n].cur.key = key /\ \A m \in Nodes : m # n => work'[m] = work[m]
      BY <2>1, <3>2 DEF Works
    <3>4. (IsRef(source) /\ seen[n][s] = NoKey /\ CreateSecret(s, GeneratedKey) /\ key = GeneratedKey)
            => Makes(n, s)
      BY <3>3 DEF Makes
    <3> QED
      BY <2>1, <2>2, <3>1, <3>4
  <2> QED
    BY <2>1, <2>3, <2>4
<1>3. ASSUME UNCHANGED secret
      PROVE  Goal
  BY <1>3
<1> HIDE DEF Goal
<1>4. ASSUME NEW n \in Nodes, Work(n) \/ Deliver(n) \/ Resync(n) \/ SeeSecrets(n) \/ Restart(n)
      PROVE  UNCHANGED secret
  BY <1>4 DEF Work, List, Publish, SyncLink, Finish, Deliver, Resync, SeeSecrets, Restart,
              keyVars, cacheOthers
<1>5. ASSUME NEW w \in Clients, NEW spec \in Specs,
             CreateClient(w, spec) \/ EditClient(w, spec) \/ DeleteClient(w)
      PROVE  UNCHANGED secret
  BY <1>5 DEF CreateClient, EditClient, DeleteClient
<1>6. ASSUME NEW w \in Clients, DeleteClient(w)
      PROVE  UNCHANGED secret
  BY <1>6 DEF DeleteClient
<1>7. ASSUME NEW n \in Nodes, NEW w \in Clients, Take(n, w)
      PROVE  UNCHANGED secret
  BY <1>7 DEF Take, keyVars
<1>8. UNCHANGED vars => UNCHANGED secret
  BY DEF vars, keyVars
<1>9. Goal
  BY <1>1, <1>2, <1>3, <1>4, <1>5, <1>6, <1>7, <1>8 DEF Next, ResolveOf
<1> QED
  BY <1>9 DEF Goal

\* A node looks at the Secrets as they are, or has seen none yet.
LEMMA SeenStep ==
  ASSUME Typed, [Next]_vars, NEW n \in Nodes
  PROVE  \/ seen'[n] = seen[n]
         \/ UNCHANGED secret /\ seen'[n] \in {secret, Unsynced}
<1> DEFINE Goal == seen'[n] = seen[n] \/ (UNCHANGED secret /\ seen'[n] \in {secret, Unsynced})
<1>1. ASSUME NEW m \in Nodes, SeeSecrets(m) \/ Restart(m)
      PROVE  Goal
  BY <1>1 DEF SeeSecrets, Restart, cacheOthers, Typed, KeyTyped
<1>2. ASSUME UNCHANGED seen
      PROVE  Goal
  BY <1>2
<1> HIDE DEF Goal
<1>3. ASSUME NEW m \in Nodes, Work(m) \/ Deliver(m) \/ Resync(m)
      PROVE  UNCHANGED seen
  BY <1>3 DEF Work, List, Publish, SyncLink, Finish, Deliver, Resync, keyVars
<1>4. ASSUME NEW m \in Nodes, NEW w \in Clients, Take(m, w) \/ ResolveOf(m, w)
      PROVE  UNCHANGED seen
  BY <1>4 DEF Take, ResolveOf, Resolve, keyVars
<1>5. ASSUME Edit
      PROVE  UNCHANGED seen
  BY <1>5 DEF Edit
<1>6. ASSUME \/ \E v \in Clients, spec \in Specs : CreateClient(v, spec) \/ EditClient(v, spec)
             \/ \E v \in Clients : DeleteClient(v)
             \/ \E s \in SecretNames : DeleteSecret(s)
      PROVE  Edit
  BY <1>6 DEF CreateClient, EditClient, DeleteClient, DeleteSecret
<1>7. UNCHANGED vars => UNCHANGED seen
  BY DEF vars, keyVars
<1>8. Goal
  BY <1>1, <1>2, <1>3, <1>4, <1>5, <1>6, <1>7 DEF Next
<1> QED
  BY <1>8 DEF Goal

\* A key that a node has not met stays so if the node does not take it in hand
\* and sees no other Secrets.
LEMMA NewKept ==
  ASSUME Typed, CopiesGood, [Next]_vars, NEW n \in Nodes, NEW key, NewTo(n, key),
         seen'[n] = seen[n], work'[n].cur # NoCur => work'[n].cur.key # key
  PROVE  NewTo(n, key)'
<1>1. \A w \in Clients : <<w, n, key>> \notin published'
  BY PublishedStep DEF NewTo
<1> QED
  BY <1>1 DEF NewTo

\* As long as no Secret is made, the keys it takes in hand it had met.
LEMMA HandNew ==
  ASSUME Typed, [Next]_vars, NEW n \in Nodes, NEW key, NewTo(n, key),
         UNCHANGED secret, work'[n].cur # NoCur
  PROVE  work'[n].cur.key # key
<1>1. CASE work'[n].cur = work[n].cur
  BY <1>1 DEF NewTo
<1>2. ASSUME NEW e \in work[n].todo, NEW k \in Keys, Fixed(n, e, k),
             work'[n].cur = [name |-> e.name, copy |-> e.copy, key |-> k]
      PROVE  work'[n].cur.key # key
  <2> DEFINE source == e.copy.val.spec.source[n]
             s == SecretName(e.name, n, source)
  <2>1. e \in TodoEvents
    BY WorksFacts DEF Typed, WorkTyped
  <2>2. IsRef(source) => s \in SecretNames
    BY <2>1, SourceFacts
  <2>3. e.copy.val.spec \in Specs
    BY <2>1, ValueFacts DEF TodoEvents
  <2>4. CASE k = IF IsRef(source) THEN seen[n][s] ELSE source
    <3>1. source # key
      BY <2>3 DEF NewTo
    <3>2. IsRef(source) => seen[n][s] # key
      BY <2>2 DEF NewTo
    <3>3. k # key
      BY <2>4, <3>1, <3>2
    <3> QED
      BY <1>2, <3>3
  <2>5. CASE IsRef(source) /\ CreateSecret(s, GeneratedKey)
    <3>1. /\ secret[s] = NoKey /\ secret' = [secret EXCEPT ![s] = GeneratedKey]
          /\ GeneratedKey # NoKey
      BY <2>5, CreatedIsNew, SentinelsApart
    <3>2. secret'[s] = GeneratedKey
      BY <2>2, <2>5, <3>1 DEF Typed, KeyTyped
    <3> QED
      BY <3>1, <3>2
  <2> QED
    BY <1>2, <2>4, <2>5 DEF Fixed
<1> QED
  BY <1>1, <1>2, CurStep

\* A Secret that is made has a key nobody has met.
LEMMA MadeIsNew ==
  ASSUME Typed, NEW m \in Nodes, NEW s \in SecretNames, Makes(m, s)
  PROVE  /\ secret'[s] = GeneratedKey /\ secret[s] = NoKey
         /\ \A r \in SecretNames : r # s => secret'[r] = secret[r] /\ secret[r] # GeneratedKey
         /\ \A n \in Nodes : NewTo(n, GeneratedKey)
<1>1. /\ GeneratedKey \notin InUse /\ secret[s] = NoKey
      /\ secret' = [secret EXCEPT ![s] = GeneratedKey]
  BY CreatedIsNew DEF Makes
<1>2. secret \in [SecretNames -> Keys \cup {BadKey, NoKey}]
  BY DEF Typed, KeyTyped
<1> QED
  BY <1>1, <1>2, UnusedIsNew

\* What a node saw of a Secret differs from a key there now only if the Secret
\* was made since, with a key that was nowhere.
LEMMA StaleStep ==
  ASSUME Typed, CopiesGood, StaleIsNew, [Next]_vars
  PROVE  StaleIsNew'
<1> DEFINE NewNow(n, k) ==
      /\ \A r \in SecretNames : seen'[n][r] # k
      /\ \A w \in Clients : <<w, n, k>> \notin published'
      /\ work'[n].cur # NoCur => work'[n].cur.key # k
      /\ \A spec \in Specs : spec.source[n] # k
<1> SUFFICES ASSUME NEW n \in Nodes, NEW s \in SecretNames,
                    seen'[n][s] # NoKey, seen'[n][s] # secret'[s], secret'[s] # NoKey
             PROVE  NewNow(n, secret'[s])
  BY DEF StaleIsNew, Stale, NewTo
<1>1. ASSUME secret'[s] = secret[s], seen'[n] = seen[n]
      PROVE  NewTo(n, secret[s])
  BY <1>1 DEF StaleIsNew, Stale
<1>2. ASSUME NEW k, NewTo(n, k), seen'[n] = seen[n], work'[n].cur # NoCur => work'[n].cur.key # k
      PROVE  NewNow(n, k)
  BY <1>2, NewKept DEF NewTo
<1> HIDE DEF NewNow
<1>3. ASSUME UNCHANGED secret
      PROVE  NewNow(n, secret'[s])
  <2>1. seen'[n] = seen[n]
    BY <1>3, SeenStep DEF Unsynced
  <2>2. NewTo(n, secret[s]) /\ secret'[s] = secret[s]
    BY <1>1, <1>3, <2>1
  <2>3. work'[n].cur # NoCur => work'[n].cur.key # secret[s]
    BY <1>3, <2>2, HandNew
  <2> QED
    BY <1>2, <2>1, <2>2, <2>3
<1>4. ASSUME UNCHANGED <<seen, work, published>>, NEW r \in SecretNames,
             secret' = [secret EXCEPT ![r] = NoKey]
      PROVE  NewNow(n, secret'[s])
  <2>1. secret \in [SecretNames -> Keys \cup {BadKey, NoKey}]
    BY DEF Typed, KeyTyped
  <2>2. secret'[s] = secret[s]
    BY <1>4, <2>1
  <2>3. NewTo(n, secret[s])
    BY <1>1, <1>4, <2>2
  <2>4. work'[n].cur # NoCur => work'[n].cur.key # secret[s]
    BY <1>4, <2>3 DEF NewTo
  <2> QED
    BY <1>2, <1>4, <2>2, <2>3, <2>4
<1>5. ASSUME UNCHANGED <<seen, published>>, NEW m \in Nodes, NEW r \in SecretNames, Makes(m, r)
      PROVE  NewNow(n, secret'[s])
  <2>1. /\ secret'[r] = GeneratedKey /\ secret[r] = NoKey
        /\ s # r => secret'[s] = secret[s] /\ secret[s] # GeneratedKey
        /\ NewTo(n, GeneratedKey)
    BY <1>5, MadeIsNew
  <2>2. NewTo(n, secret'[s])
    BY <1>1, <1>5, <2>1
  <2>3. ASSUME work'[n].cur # NoCur
        PROVE  work'[n].cur.key # secret'[s]
    <3>1. CASE n # m
      <4>1. work'[n] = work[n]
        BY <1>5, <3>1 DEF Makes
      <4> QED
        BY <2>2, <2>3, <4>1 DEF NewTo
    <3>2. CASE n = m
      <4>1. seen[n][r] = NoKey /\ work'[n].cur.key = GeneratedKey
        BY <1>5, <2>3, <3>2 DEF Makes
      <4>2. s # r
        BY <1>5, <4>1
      <4> QED
        BY <2>1, <4>1, <4>2
    <3> QED
      BY <3>1, <3>2
  <2> QED
    BY <1>2, <1>5, <2>2, <2>3
<1> QED
  BY <1>3, <1>4, <1>5, SecretStep

\* A worker takes an object in hand with the key of its Secret, unless it saw
\* an older Secret or none; then the copy cannot show the key of the new one.
LEMMA AgreesStep ==
  ASSUME Typed, CopiesGood, StaleIsNew, KeyAgrees, [Next]_vars
  PROVE  KeyAgrees'
<1> SUFFICES ASSUME NEW n \in Nodes, work'[n].cur # NoCur
             PROVE  Agrees(n)'
  BY DEF KeyAgrees
<1> DEFINE cur == work'[n].cur
           source == cur.copy.val.spec.source[n]
           s == SecretName(cur.name, n, source)
           shown == cur.copy.val.keys[n]
<1> SUFFICES ASSUME IsRef(source), secret'[s] # NoKey, shown = secret'[s]
             PROVE  cur.key = secret'[s]
  BY DEF Agrees
<1>1. work'[n] \in Works
  BY TypeStep DEF Typed, WorkTyped
<1>2. cur \in CurObjects
  BY <1>1, WorksFacts
<1>3. s \in SecretNames /\ cur.copy.val # Absent
  <2>1. [name |-> cur.name, copy |-> cur.copy] \in TodoEvents /\ cur.copy.val \in Values
    BY <1>2 DEF CurObjects, TodoEvents
  <2> QED
    BY <2>1, SourceFacts, ValueFacts
<1>4. CASE cur = work[n].cur
  <2>1. <<cur.name, n, shown>> \in published
    <3>1. Good(InHand(n), store, published)
      BY <1>4 DEF CopiesGood, Has
    <3>2. InHand(n).name = cur.name /\ InHand(n).copy = cur.copy
      BY <1>4 DEF InHand
    <3> QED
      BY <1>3, <3>1, <3>2 DEF Good
  <2>2. cur.name \in Clients
    BY <1>2 DEF CurObjects
  <2>3. ASSUME NEW m \in Nodes, Makes(m, s)
        PROVE  FALSE
    <3>1. NewTo(n, GeneratedKey) /\ secret'[s] = GeneratedKey
      BY <1>3, <2>3, MadeIsNew
    <3> QED
      BY <2>1, <2>2, <3>1 DEF NewTo
  <2>4. secret'[s] = secret[s]
    <3>1. secret \in [SecretNames -> Keys \cup {BadKey, NoKey}]
      BY DEF Typed, KeyTyped
    <3>2. ASSUME NEW r \in SecretNames, secret' = [secret EXCEPT ![r] = NoKey]
          PROVE  secret'[s] = secret[s]
      BY <1>3, <3>1, <3>2
    <3>3. ASSUME NEW m \in Nodes, NEW r \in SecretNames, Makes(m, r)
          PROVE  secret'[s] = secret[s]
      BY <1>3, <2>3, <3>3, MadeIsNew
    <3> QED
      BY <3>2, <3>3, SecretStep
  <2> QED
    BY <1>4, <2>4 DEF KeyAgrees, Agrees
<1>5. ASSUME NEW e \in work[n].todo, NEW k \in Keys, Fixed(n, e, k),
             cur = [name |-> e.name, copy |-> e.copy, key |-> k]
      PROVE  cur.key = secret'[s]
  <2>1. e.name = cur.name /\ e.copy = cur.copy /\ k = cur.key
    BY <1>5
  <2>2. e.name \in Clients
    BY <1>2, <2>1 DEF CurObjects
  <2> HIDE DEF cur
  <2>3. CASE UNCHANGED secret /\ k = seen[n][s]
    <3> SUFFICES ASSUME seen[n][s] # secret[s] PROVE FALSE
      BY <2>1, <2>3
    <3>1. k # NoKey
      BY SentinelsApart
    <3>2. NewTo(n, secret[s])
      BY <1>3, <2>3, <3>1 DEF StaleIsNew, Stale
    <3>3. Good(e, store, published)
      BY DEF CopiesGood, Has
    <3>4. <<e.name, n, secret[s]>> \in published
      BY <1>3, <2>1, <2>3, <3>3 DEF Good
    <3> QED
      BY <2>2, <3>2, <3>4 DEF NewTo
  <2>4. CASE CreateSecret(s, GeneratedKey) /\ k = GeneratedKey
    <3>1. secret \in [SecretNames -> Keys \cup {BadKey, NoKey}]
      BY DEF Typed, KeyTyped
    <3> QED
      BY <1>3, <2>1, <2>4, <3>1, CreatedIsNew
  <2> QED
    BY <1>5, <2>1, <2>3, <2>4 DEF Fixed
<1> QED
  BY <1>4, <1>5, CurStep

\* In every state.
LEMMA AlwaysAgrees == Spec => [](Typed /\ CopiesGood /\ StaleIsNew /\ KeyAgrees)
<1>1. Init => StaleIsNew /\ KeyAgrees
  BY DEF Init, Idle, Unsynced, StaleIsNew, Stale, KeyAgrees
<1>2. Typed /\ CopiesGood /\ StaleIsNew /\ KeyAgrees /\ [Next]_vars
        => (Typed /\ CopiesGood /\ StaleIsNew /\ KeyAgrees)'
  BY TypeStep, CopiesStep, StaleStep, AgreesStep
<1> QED
  BY <1>1, <1>2, TypeInit, CopiesInit, PTL DEF Spec

\* As long as nobody deletes a Secret its key stays, and a node whose status
\* shows that key goes on showing it: a Secret that "could not be read" is made
\* anew without harm, in spite of errors, stale caches, two nodes that make one
\* Secret at the same time, and restarts.
THEOREM KeysStay == Spec => OneKey
<1> DEFINE Step ==
      edits' = edits =>
        /\ \A s \in SecretNames : secret[s] # NoKey => secret'[s] = secret[s]
        /\ \A w \in Clients, n \in Nodes, s \in SecretNames :
             ShowsKeyOf(w, n, s) => store'[w].val.keys[n] = secret[s]
           Inv == Typed /\ CopiesGood /\ StaleIsNew /\ KeyAgrees
<1>1. ASSUME Inv, [Next]_vars, edits' = edits, NEW s \in SecretNames, secret[s] # NoKey
      PROVE  secret'[s] = secret[s]
  BY <1>1, SecretStep, MadeIsNew
<1>2. ASSUME Inv, [Next]_vars, edits' = edits, NEW w \in Clients, NEW n \in Nodes,
             NEW s \in SecretNames, ShowsKeyOf(w, n, s)
      PROVE  store'[w].val.keys[n] = secret[s]
  <2>1. /\ store[w].val # Absent /\ store[w].val.keys[n] = secret[s] /\ secret[s] # NoKey
        /\ SecretName(w, n, store[w].val.spec.source[n]) = s
    BY <1>2 DEF ShowsKeyOf
  <2>2. ASSUME NEW m \in Nodes, Updates(m)
        PROVE  store'[w].val.keys[n] = secret[s]
    <3>1. /\ work[m].cur.name \in Clients /\ store[work[m].cur.name].val \in Values
          /\ work[m].cur.key \in Keys /\ work[m].cur.copy = store[work[m].cur.name]
          /\ store'[work[m].cur.name].val = WithKey(store[work[m].cur.name].val, m, work[m].cur.key)
          /\ \A v \in Clients : v # work[m].cur.name => store'[v] = store[v]
          /\ work[m].cur # NoCur
      BY <1>2, <2>2, UpdateIsOwn, UpdatesFacts
    <3>2. CASE w # work[m].cur.name
      BY <2>1, <3>1, <3>2
    <3>3. CASE w = work[m].cur.name /\ n # m
      <4>1. \A val \in Values, k \in Keys : WithKey(val, m, k).keys[n] = val.keys[n]
        BY <3>3 DEF WithKey, Values
      <4> QED
        BY <2>1, <3>1, <3>3, <4>1
    <3>4. CASE w = work[m].cur.name /\ n = m
      <4>1. \A val \in Values, k \in Keys : WithKey(val, m, k).keys[m] = k
        BY DEF WithKey, Values
      <4>2. IsRef(store[w].val.spec.source[n])
        <5>1. store[w].val.spec \in Specs
          BY <3>1, <3>4, ValueFacts
        <5>2. store[w].val.spec.source[n] \in Sources
          BY <5>1, SpecsTyped
        <5> QED
          BY <2>1, <5>2, SentinelsApart DEF Sources, SecretName, IsRef
      <4>3. work[n].cur.key = secret[s]
        BY <1>2, <2>1, <3>1, <3>4, <4>2 DEF KeyAgrees, Agrees
      <4> QED
        BY <3>1, <3>4, <4>1, <4>3
    <3> QED
      BY <3>2, <3>3, <3>4
  <2>3. CASE UNCHANGED store
    BY <2>1, <2>3
  <2>4. ASSUME NEW m \in Nodes, Deliver(m) \/ Restart(m)
        PROVE  UNCHANGED store
    BY <2>4 DEF Deliver, Restart, cacheOthers
  <2> QED
    BY <1>2, <2>2, <2>3, <2>4, StoreStep
<1>3. Inv /\ [Next]_vars => [Step]_vars
  BY <1>1, <1>2
<1>4. Spec => []Inv
  BY AlwaysAgrees
<1> HIDE DEF Inv, Step
<1>5. Spec => [][Step]_vars
  BY <1>3, <1>4, PTL DEF Spec
<1> QED
  BY <1>5 DEF OneKey, Step
=============================================================================
