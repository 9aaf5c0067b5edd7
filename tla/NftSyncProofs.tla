--------------------------- MODULE NftSyncProofs ---------------------------
(***************************************************************************)
(* NftSync for any number of workers, and any peers, access rules,         *)
(* addresses, comments, configurations and bounds.                         *)
(***************************************************************************)
EXTENDS NftSync, SequenceFacts

-----------------------------------------------------------------------------
(* The operators of NftSync.                                               *)

\* No turn of the loop is one of the rule for port 80 and 443.
LEMMA LoopTyped ==
  ASSUME NEW c
  PROVE  Loop(c) \subseteq Turns /\ \A t \in Loop(c) : t.port # "80,443"
BY DEF Loop, Routes, Lookups

\* What is in the chain is finite, and so is what a worker reads of it.
LEMMA InstalledFinite ==
  ASSUME chain \in Seq(KernelRules)
  PROVE  /\ IsFiniteSet(Installed) /\ Installed \subseteq KernelRules
         /\ IsFiniteSet(Latest) /\ Latest \subseteq Installed
<1>1. DOMAIN chain = 1..Len(chain) /\ Len(chain) \in Nat
  OBVIOUS
<1>2. IsFiniteSet(DOMAIN chain)
  BY <1>1, FS_Interval
<1>3. chain = [i \in DOMAIN chain |-> chain[i]]
  OBVIOUS
<1>4. IsFiniteSet(Installed)
  BY <1>2, <1>3, ImageFinite DEF Installed
<1>5. Installed \subseteq KernelRules
  BY <1>1 DEF Installed
<1>6. Latest \subseteq Installed
  BY DEF Latest, Installed
<1> QED
  BY <1>4, <1>5, <1>6, FS_Subset

\* A worker remembers finitely many rules.
MapsFinite == \A w \in Workers : IsFiniteSet(ruleMap[w])

\* What the chain and the workers know is finite, so a handle is free.
LEMMA FreshHandle ==
  ASSUME chain \in Seq(KernelRules), ruleMap \in [Workers -> SUBSET KernelRules], MapsFinite
  PROVE  Fresh \in Nat /\ \A r \in Known : r.handle # Fresh
<1> DEFINE maps == {ruleMap[w] : w \in Workers}
           f == [r \in Known |-> r.handle]
           H == {f[r] : r \in Known}
           n == Cardinality(Known)
<1>1. IsFiniteSet(Known)
  <2>1. ruleMap = [w \in Workers |-> ruleMap[w]] /\ DOMAIN ruleMap = Workers
    OBVIOUS
  <2>2. IsFiniteSet(maps)
    BY <2>1, WorkersFinite, ImageFinite
  <2>3. IsFiniteSet(UNION maps)
    BY <2>2, FS_UNION DEF MapsFinite
  <2> QED
    BY <2>3, InstalledFinite, FS_Union DEF Known
<1>2. n \in Nat
  BY <1>1, FS_CardinalityType
<1>3. IsFiniteSet(H) /\ Cardinality(H) <= n
  BY <1>1, ImageFinite
<1>4. \E h \in 0..n : h \notin H
  <2> SUFFICES ASSUME 0..n \subseteq H PROVE FALSE
    OBVIOUS
  <2>1. Cardinality(0..n) = n + 1
    BY <1>2, FS_Interval
  <2>2. Cardinality(0..n) <= Cardinality(H)
    BY <1>3, FS_Subset
  <2>3. Cardinality(H) \in Nat
    BY <1>3, FS_CardinalityType
  <2> QED
    BY <1>2, <1>3, <2>1, <2>2, <2>3
<1>5. \E h \in 0..n : \A r \in Known : r.handle # h
  BY <1>4
<1> QED
  BY <1>2, <1>5 DEF Fresh

-----------------------------------------------------------------------------
(* Types, and handles that stand for one rule.                             *)

OneHandle == \A i, j \in DOMAIN chain : chain[i].handle = chain[j].handle => i = j

\* The rule that nft adds has a handle of its own.
LEMMA AddTyped ==
  ASSUME chain \in Seq(KernelRules), OneHandle, MapsFinite,
         ruleMap \in [Workers -> SUBSET KernelRules],
         NEW t \in Turns, NftAdd(t)
  PROVE  chain' \in Seq(KernelRules) /\ OneHandle'
<1> DEFINE r == [handle |-> Fresh, src |-> t.src, dst |-> t.dst, port |-> t.port]
           n == Len(chain)
<1>1. Fresh \in Nat /\ \A i \in DOMAIN chain : chain[i].handle # Fresh
  BY FreshHandle DEF Known, Installed
<1>2. r \in KernelRules /\ r.handle = Fresh
  BY <1>1 DEF Turns, KernelRules
<1>3. chain' = Append(chain, r) /\ n \in Nat
  BY DEF NftAdd
<1> HIDE DEF r
<1>4. chain' \in Seq(KernelRules) /\ DOMAIN chain' = 1..(n + 1) /\ DOMAIN chain = 1..n
  BY <1>2, <1>3
<1>5. \A i \in 1..n : chain'[i] = chain[i]
  BY <1>2, <1>3
<1>6. chain'[n + 1] = r
  BY <1>2, <1>3
<1>7. ASSUME NEW i \in 1..(n + 1), NEW j \in 1..(n + 1), chain'[i].handle = chain'[j].handle
      PROVE  i = j
  <2>1. CASE i \in 1..n /\ j \in 1..n
    BY <1>4, <1>5, <1>7, <2>1 DEF OneHandle
  <2>2. CASE i \in 1..n /\ j = n + 1
    BY <1>1, <1>2, <1>4, <1>5, <1>6, <1>7, <2>2
  <2>3. CASE i = n + 1 /\ j \in 1..n
    BY <1>1, <1>2, <1>4, <1>5, <1>6, <1>7, <2>3
  <2> QED
    BY <1>3, <2>1, <2>2, <2>3
<1> QED
  BY <1>4, <1>7 DEF OneHandle

\* Deletion keeps the handles apart.
LEMMA WithoutTyped ==
  ASSUME chain \in Seq(KernelRules), OneHandle, NEW X, chain' = Without(chain, X)
  PROVE  chain' \in Seq(KernelRules) /\ OneHandle'
<1>1. PICK f \in Injection(DOMAIN chain', DOMAIN chain) : \A j \in DOMAIN chain' : chain'[j] = chain[f[j]]
  BY WithoutFacts
<1>2. /\ f \in [DOMAIN chain' -> DOMAIN chain]
      /\ \A i, j \in DOMAIN chain' : f[i] = f[j] => i = j
  BY DEF Injection, IsInjective
<1>3. OneHandle'
  BY <1>1, <1>2 DEF OneHandle
<1> QED
  BY <1>3, WithoutFacts

\* The types, with the maps of the workers finite: a free handle exists because
\* they are.
Typed == TypeOK /\ MapsFinite

\* A turn of a worker keeps the types.
LEMMA TurnTyped ==
  ASSUME Typed, NEW w \in Workers, NEW t \in todo[w],
         Recognise(w, t) \/ Skip(w, t) \/ Add(w, t) \/ FailToAdd(w, t)
  PROVE  Typed'
<1>1. /\ t \in Turns /\ todo \in [Workers -> SUBSET Turns] /\ ruleMap \in [Workers -> SUBSET KernelRules]
      /\ chain \in Seq(KernelRules) /\ OneHandle /\ MapsFinite
  BY DEF Typed, TypeOK, OneHandle
<1>2. pc[w] = "apply" /\ UNCHANGED <<config, pc, cfg, edits>>
  BY DEF Recognise, Skip, Add, FailToAdd, Turn
<1>3. chain' \in Seq(KernelRules) /\ OneHandle'
  <2>1. CASE UNCHANGED chain
    BY <1>1, <2>1 DEF OneHandle
  <2>2. CASE NftAdd(t)
    BY <1>1, <2>2, AddTyped
  <2> QED
    BY <2>1, <2>2 DEF Recognise, Skip, Add, FailToAdd
<1>4. /\ ruleMap' \in [Workers -> SUBSET KernelRules] /\ MapsFinite'
      /\ \A v \in Workers : ruleMap'[v] \subseteq ruleMap[v]
  <2>1. CASE UNCHANGED ruleMap
    BY <1>1, <2>1 DEF MapsFinite
  <2>2. CASE Recognise(w, t)
    <3>1. ruleMap' = [ruleMap EXCEPT ![w] = ruleMap[w] \ Seen(w, t)]
      BY <2>2 DEF Recognise
    <3>2. ASSUME NEW v \in Workers
          PROVE  ruleMap'[v] \subseteq ruleMap[v] /\ IsFiniteSet(ruleMap'[v])
      BY <1>1, <3>1, FS_Subset DEF MapsFinite
    <3> QED
      BY <1>1, <3>1, <3>2 DEF MapsFinite
  <2> QED
    BY <2>1, <2>2 DEF Skip, Add, FailToAdd
<1>5. todo' \in [Workers -> SUBSET Turns] /\ \A v \in Workers : v # w => todo'[v] = todo[v]
  <2>1. CASE todo' = [todo EXCEPT ![w] = todo[w] \ {t}]
    BY <1>1, <2>1
  <2>2. CASE Add(w, t)
    <3> DEFINE u == [t EXCEPT !.port = "80,443"]
    <3>1. u \in Turns
      BY <1>1 DEF Turns, Ports
    <3>2. todo' = [todo EXCEPT ![w] = (todo[w] \ {t}) \cup {x \in {u} : t.port = "53"}]
      BY <2>2 DEF Add
    <3> QED
      BY <1>1, <3>1, <3>2
  <2> QED
    BY <2>1, <2>2 DEF Recognise, Skip, FailToAdd
<1>6. faults' \in 0..MaxFaults
  <2>1. faults \in 0..MaxFaults
    BY DEF Typed, TypeOK
  <2>2. UNCHANGED faults \/ Fault
    BY DEF Recognise, Skip, Add, FailToAdd
  <2> QED
    BY <2>1, <2>2, BoundsTyped DEF Fault
<1>7. \A v \in Workers : pc'[v] # "apply" => todo'[v] = {} /\ ruleMap'[v] = {}
  BY <1>2, <1>4, <1>5 DEF Typed, TypeOK
<1> QED
  BY <1>2, <1>3, <1>4, <1>5, <1>6, <1>7 DEF Typed, TypeOK, OneHandle

\* The end of a sync keeps the types, whatever the batch does.
LEMMA FinishTyped ==
  ASSUME Typed, NEW w \in Workers, Flush(w) \/ FailToFlush(w)
  PROVE  Typed'
<1>1. /\ chain \in Seq(KernelRules) /\ OneHandle /\ MapsFinite
      /\ ruleMap \in [Workers -> SUBSET KernelRules] /\ pc \in [Workers -> {"idle", "fetch", "read", "apply"}]
      /\ cfg \in [Workers -> Lists \cup {NoConfig}]
  BY DEF Typed, TypeOK, OneHandle
<1>2. Finish(w)
  BY DEF Flush, FailToFlush
<1>3. chain' \in Seq(KernelRules) /\ OneHandle'
  <2>1. CASE UNCHANGED chain
    BY <1>1, <2>1 DEF OneHandle
  <2>2. CASE chain' = Without(chain, Batch(w))
    BY <1>1, <2>2, WithoutTyped
  <2> QED
    BY <2>1, <2>2 DEF Flush, FailToFlush
<1>4. ruleMap' = [ruleMap EXCEPT ![w] = {}] /\ MapsFinite'
  <2>1. ruleMap' = [ruleMap EXCEPT ![w] = {}]
    BY <1>2 DEF Finish
  <2> QED
    BY <1>1, <2>1, FS_EmptySet DEF MapsFinite
<1>5. faults' \in 0..MaxFaults
  BY BoundsTyped DEF Typed, TypeOK, Flush, FailToFlush, Fault
<1>6. /\ pc' = [pc EXCEPT ![w] = "idle"] /\ cfg' = [cfg EXCEPT ![w] = NoConfig]
      /\ UNCHANGED <<config, todo, edits>> /\ todo[w] = {}
  BY <1>2 DEF Finish
<1>7. \A v \in Workers : pc'[v] = "idle" <=> cfg'[v] = NoConfig
  BY <1>1, <1>6 DEF Typed, TypeOK
<1>8. \A v \in Workers : pc'[v] # "apply" => todo'[v] = {} /\ ruleMap'[v] = {}
  BY <1>1, <1>4, <1>6 DEF Typed, TypeOK
<1> QED
  BY <1>1, <1>3, <1>4, <1>5, <1>6, <1>7, <1>8 DEF Typed, TypeOK, OneHandle

\* A worker that lists the peers or the rules keeps the types.
LEMMA ListTyped ==
  ASSUME Typed, NEW w \in Workers, ListPeers(w) \/ ListRules(w)
  PROVE  Typed'
<1>1. /\ pc \in [Workers -> {"idle", "fetch", "read", "apply"}]
      /\ cfg \in [Workers -> Lists \cup {NoConfig}] /\ config \in Lists
      /\ \A v \in Workers : pc[v] = "idle" <=> cfg[v] = NoConfig
  BY ConfigsTyped DEF Typed, TypeOK
<1>2. UNCHANGED <<config, chain, todo, ruleMap, edits, faults>>
  BY DEF ListPeers, ListRules
<1>3. \E l \in Lists, s \in {"fetch", "read"} :
        /\ cfg' = [cfg EXCEPT ![w] = l] /\ pc' = [pc EXCEPT ![w] = s] /\ pc[w] # "apply"
  <2>1. CASE ListPeers(w)
    <3> DEFINE l == [peers |-> config.peers, rules |-> [r \in AccessRules |-> {}]]
    <3>1. l \in Lists
      BY <1>1 DEF Lists
    <3> QED
      BY <2>1, <3>1 DEF ListPeers
  <2>2. CASE ListRules(w)
    <3>1. cfg[w] \in Lists
      BY <1>1, <2>2 DEF ListRules
    <3>2. [cfg[w] EXCEPT !.rules = config.rules] \in Lists
      BY <1>1, <3>1 DEF Lists
    <3> QED
      BY <2>2, <3>2 DEF ListRules
  <2> QED
    BY <2>1, <2>2
<1>4. \A v \in Workers : pc'[v] = "idle" <=> cfg'[v] = NoConfig
  BY <1>1, <1>3, SentinelsApart
<1>5. \A v \in Workers : pc'[v] # "apply" => todo'[v] = {} /\ ruleMap'[v] = {}
  BY <1>1, <1>2, <1>3 DEF Typed, TypeOK
<1> QED
  BY <1>1, <1>2, <1>3, <1>4, <1>5 DEF Typed, TypeOK, MapsFinite

\* A worker that reads the chain keeps the types.
LEMMA ReadTyped ==
  ASSUME Typed, NEW w \in Workers, ReadChain(w)
  PROVE  Typed'
<1>1. /\ ruleMap \in [Workers -> SUBSET KernelRules] /\ pc \in [Workers -> {"idle", "fetch", "read", "apply"}]
      /\ todo \in [Workers -> SUBSET Turns] /\ MapsFinite
      /\ chain \in Seq(KernelRules)
  BY DEF Typed, TypeOK
<1>2. IsFiniteSet(Latest) /\ Latest \subseteq KernelRules /\ Loop(cfg[w]) \subseteq Turns
  BY <1>1, InstalledFinite, LoopTyped
<1>3. /\ pc[w] = "read" /\ pc' = [pc EXCEPT ![w] = "apply"]
      /\ ruleMap' = [ruleMap EXCEPT ![w] = Latest]
      /\ todo' = [todo EXCEPT ![w] = Loop(cfg[w])]
      /\ UNCHANGED <<config, chain, cfg, edits, faults>>
  BY DEF ReadChain
<1>4. MapsFinite'
  BY <1>1, <1>2, <1>3 DEF MapsFinite
<1>5. ruleMap' \in [Workers -> SUBSET KernelRules] /\ todo' \in [Workers -> SUBSET Turns]
  BY <1>1, <1>2, <1>3
<1>6. \A v \in Workers : pc'[v] # "apply" => todo'[v] = {} /\ ruleMap'[v] = {}
  BY <1>1, <1>3 DEF Typed, TypeOK
<1>7. \A v \in Workers : pc'[v] = "idle" <=> cfg'[v] = NoConfig
  BY <1>1, <1>3 DEF Typed, TypeOK
<1> QED
  BY <1>1, <1>3, <1>4, <1>5, <1>6, <1>7 DEF Typed, TypeOK

\* A new process keeps the types.
LEMMA RestartTyped ==
  ASSUME Typed, Restart
  PROVE  Typed'
<1>1. chain' \in Seq(KernelRules) /\ OneHandle'
  <2>1. chain \in Seq(KernelRules) /\ OneHandle
    BY DEF Typed, TypeOK, OneHandle
  <2>2. CASE chain' = chain
    BY <2>1, <2>2 DEF OneHandle
  <2>3. CASE chain' = <<>>
    <3>1. chain' \in Seq(KernelRules) /\ DOMAIN chain' = {}
      BY <2>3
    <3> QED
      BY <3>1 DEF OneHandle
  <2> QED
    BY <2>2, <2>3 DEF Restart
<1>2. faults' \in 0..MaxFaults
  BY BoundsTyped DEF Typed, TypeOK, Restart, Fault
<1>3. MapsFinite'
  BY FS_EmptySet DEF MapsFinite, Restart
<1> QED
  BY <1>1, <1>2, <1>3 DEF Typed, TypeOK, Restart, OneHandle

\* Every step keeps the types.
LEMMA TypeStep ==
  ASSUME Typed, [Next]_vars
  PROVE  Typed'
<1>1. CASE Edit
  <2>1. edits' \in 0..MaxEdits /\ config' \in Configs /\ UNCHANGED <<chain, workVars, faults>>
    BY <1>1, BoundsTyped DEF Typed, TypeOK, Edit
  <2> QED
    BY <2>1 DEF Typed, TypeOK, workVars, MapsFinite
<1>2. ASSUME NEW w \in Workers, ListPeers(w) \/ ListRules(w)
      PROVE  Typed'
  BY <1>2, ListTyped
<1>3. ASSUME NEW w \in Workers, Work(w)
      PROVE  Typed'
  BY <1>2, <1>3, ReadTyped, TurnTyped, FinishTyped DEF Work, Apply
<1>4. CASE Restart
  BY <1>4, RestartTyped
<1>5. CASE UNCHANGED vars
  BY <1>5 DEF Typed, TypeOK, MapsFinite, vars, workVars
<1> QED
  BY <1>1, <1>2, <1>3, <1>4, <1>5 DEF Next

\* The initial states have the types.
LEMMA TypeInit ==
  ASSUME Init
  PROVE  Typed
<1>1. MapsFinite
  BY FS_EmptySet DEF MapsFinite, Init
<1>2. <<>> \in Seq(KernelRules) /\ DOMAIN <<>> = {}
  OBVIOUS
<1> QED
  BY <1>1, <1>2, BoundsTyped DEF Typed, TypeOK, Init

\* Typed is an invariant.
LEMMA AlwaysTyped == Spec => []Typed
<1>1. Typed /\ [Next]_vars => Typed'
  BY TypeStep
<1> QED
  BY TypeInit, <1>1, PTL DEF Spec

\* Every variable always has its type; a worker has turns and rules of the
\* chain in hand only while it applies them; nft never hands out the handle of a
\* rule that is there, however many syncs add and delete.
THEOREM TypeCorrect == Spec => []TypeOK
<1>1. Typed => TypeOK
  BY DEF Typed
<1> QED
  BY AlwaysTyped, <1>1, PTL

-----------------------------------------------------------------------------
(* The copies of a rule.                                                   *)

Accesses == [src : Addrs, dst : Nets, port : Ports]

\* A worker may yet add a rule for turn t that accepts a, because nothing it
\* read has the comment; after the rule for port 53 comes the one for 80 and 443.
MayAdd(w, t, a) ==
  /\ t.src = a.src /\ t.dst = a.dst
  /\ t.port = a.port \/ (t.port = "53" /\ a.port = "80,443")
  /\ t.port = "80,443" \/ \A r \in ruleMap[w] : Comment(r) # Comment(t)

Adders(a) == {w \in Workers : \E t \in todo[w] : MayAdd(w, t, a)}

\* No turn a worker has left hides the rule of another.
TurnsApart ==
  \A w \in Workers : \A t, u \in todo[w] : t # u => ~Contains(Comment(t), Comment(u))

\* A worker that may yet add a rule has not added it: each copy of it in the
\* chain is the doing of another.
Room(a) == Cardinality(Places(a)) + Cardinality(Adders(a)) <= Cardinality(Workers)

\* What a worker has listed is of objects that were in the cache, though the
\* peers and the rules need not have been there together.
Listing ==
  \A w \in Workers :
    /\ pc[w] = "fetch" => \E c \in Configs : cfg[w].peers = c.peers
    /\ pc[w] = "read" => \E c, d \in Configs : cfg[w] = Mixed(c, d)

CInv == Typed /\ Listing /\ (CommentsApart => TurnsApart /\ \A a \in Accesses : Room(a))

\* Every step keeps it.
LEMMA ListingStep ==
  ASSUME Typed, Listing, [Next]_vars
  PROVE  Listing'
<1>1. /\ pc \in [Workers -> {"idle", "fetch", "read", "apply"}]
      /\ cfg \in [Workers -> Lists \cup {NoConfig}] /\ config \in Configs
      /\ \A w \in Workers : pc[w] = "idle" <=> cfg[w] = NoConfig
  BY DEF Typed, TypeOK
<1>2. ASSUME NEW w \in Workers, ListPeers(w)
      PROVE  Listing'
  <2>1. cfg'[w].peers = config.peers /\ pc'[w] = "fetch"
    BY <1>1, <1>2 DEF ListPeers
  <2>2. \A v \in Workers : v # w => cfg'[v] = cfg[v] /\ pc'[v] = pc[v]
    BY <1>1, <1>2 DEF ListPeers
  <2>3. \A v \in Workers \ {w} :
          /\ pc'[v] = "fetch" => \E c \in Configs : cfg'[v].peers = c.peers
          /\ pc'[v] = "read" => \E c, d \in Configs : cfg'[v] = Mixed(c, d)
    BY <2>2 DEF Listing
  <2>4. \E c \in Configs : cfg'[w].peers = c.peers
    BY <1>1, <2>1
  <2> QED
    BY <2>1, <2>3, <2>4 DEF Listing, Mixed
<1>3. ASSUME NEW w \in Workers, ListRules(w)
      PROVE  Listing'
  <2>1. cfg[w] \in Lists /\ \E c \in Configs : cfg[w].peers = c.peers
    BY <1>1, <1>3 DEF ListRules, Listing
  <2>2. cfg'[w] = [peers |-> cfg[w].peers, rules |-> config.rules] /\ pc'[w] = "read"
    BY <1>1, <1>3, <2>1 DEF ListRules, Lists
  <2>3. \E c, d \in Configs : cfg'[w] = Mixed(c, d)
    <3>1. PICK c \in Configs : cfg[w].peers = c.peers
      BY <2>1
    <3>2. cfg'[w] = Mixed(c, config)
      BY <2>2, <3>1 DEF Mixed
    <3> QED
      BY <1>1, <3>2
  <2>4. \A v \in Workers : v # w => cfg'[v] = cfg[v] /\ pc'[v] = pc[v]
    BY <1>1, <1>3 DEF ListRules
  <2>5. \A v \in Workers \ {w} :
          /\ pc'[v] = "fetch" => \E c \in Configs : cfg'[v].peers = c.peers
          /\ pc'[v] = "read" => \E c, d \in Configs : cfg'[v] = Mixed(c, d)
    BY <2>4 DEF Listing
  <2> QED
    BY <2>2, <2>3, <2>5 DEF Listing, Mixed
<1>4. ASSUME NEW w \in Workers, ReadChain(w) \/ Apply(w) \/ Flush(w) \/ FailToFlush(w)
      PROVE  Listing'
  <2>1. /\ \A v \in Workers : pc'[v] \in {"fetch", "read"} => pc'[v] = pc[v]
        /\ \A v \in Workers : pc'[v] \in {"fetch", "read"} => cfg'[v] = cfg[v]
    BY <1>1, <1>4
    DEF ReadChain, Apply, Recognise, Skip, Add, FailToAdd, Turn, Flush, FailToFlush, Finish
  <2> QED
    BY <2>1 DEF Listing, Mixed
<1>5. CASE Edit \/ UNCHANGED vars
  BY <1>5 DEF Listing, Mixed, Edit, vars, workVars
<1>6. CASE Restart
  BY <1>6 DEF Listing, Restart
<1> QED
  BY <1>2, <1>3, <1>4, <1>5, <1>6 DEF Next, Work

\* The sets that are counted are finite.
LEMMA CountsFinite ==
  ASSUME chain \in Seq(KernelRules), NEW a
  PROVE  /\ IsFiniteSet(Places(a)) /\ Cardinality(Places(a)) \in Nat
         /\ IsFiniteSet(Adders(a)) /\ Cardinality(Adders(a)) \in Nat
         /\ Cardinality(Adders(a)) <= Cardinality(Workers) /\ Cardinality(Workers) \in Nat
<1>1. IsFiniteSet(DOMAIN chain) /\ Places(a) \subseteq DOMAIN chain
  <2>1. DOMAIN chain = 1..Len(chain) /\ Len(chain) \in Nat
    OBVIOUS
  <2> QED
    BY <2>1, FS_Interval DEF Places
<1>2. IsFiniteSet(Places(a))
  BY <1>1, FS_Subset
<1>3. Adders(a) \subseteq Workers
  BY DEF Adders
<1>4. IsFiniteSet(Adders(a)) /\ Cardinality(Adders(a)) <= Cardinality(Workers)
  BY <1>3, WorkersFinite, FS_Subset
<1> QED
  BY <1>2, <1>4, WorkersFinite, FS_CardinalityType

\* There is room still when nobody new may add, and no copy was added.
LEMMA RoomKept ==
  ASSUME chain \in Seq(KernelRules), chain' \in Seq(KernelRules), NEW a, Room(a),
         Cardinality(Places(a)') <= Cardinality(Places(a)), Adders(a)' \subseteq Adders(a)
  PROVE  Room(a)'
<1> DEFINE old == Adders(a)
           new == Adders(a)'
           before == Places(a)
           after == Places(a)'
<1>1. IsFiniteSet(old) /\ IsFiniteSet(new) /\ IsFiniteSet(after) /\ IsFiniteSet(before)
  <2>1. IsFiniteSet(DOMAIN chain')
    <3>1. DOMAIN chain' = 1..Len(chain') /\ Len(chain') \in Nat
      OBVIOUS
    <3> QED
      BY <3>1, FS_Interval
  <2>2. Places(a)' \subseteq DOMAIN chain'
    BY DEF Places
  <2> QED
    BY <2>1, <2>2, CountsFinite, FS_Subset
<1>2. /\ Cardinality(old) \in Nat /\ Cardinality(new) \in Nat /\ Cardinality(before) \in Nat
      /\ Cardinality(after) \in Nat /\ Cardinality(Workers) \in Nat
  BY <1>1, WorkersFinite, FS_CardinalityType
<1>3. Cardinality(new) <= Cardinality(old)
  BY <1>1, FS_Subset
<1>4. Cardinality(before) + Cardinality(old) <= Cardinality(Workers) /\ Cardinality(after) <= Cardinality(before)
  BY DEF Room
<1> HIDE DEF old, new, before, after
<1>5. Cardinality(after) + Cardinality(new) <= Cardinality(Workers)
  BY <1>2, <1>3, <1>4
<1> QED
  BY <1>5 DEF Room, old, new, before, after

\* There is room still when the copy that was added is that of a worker that may
\* no longer add it.
LEMMA RoomUsed ==
  ASSUME chain \in Seq(KernelRules), NEW a, Room(a), NEW w \in Adders(a), NEW i,
         Places(a)' \subseteq Places(a) \cup {i}, Adders(a)' \subseteq Adders(a) \ {w}
  PROVE  Room(a)'
<1> DEFINE old == Adders(a)
           new == Adders(a)'
           before == Places(a)
           after == Places(a)'
<1>1. IsFiniteSet(old) /\ IsFiniteSet(before)
  BY CountsFinite
<1>2. /\ Cardinality(old) \in Nat /\ Cardinality(before) \in Nat /\ Cardinality(Workers) \in Nat
  BY <1>1, WorkersFinite, FS_CardinalityType
<1>3. IsFiniteSet(before \cup {i}) /\ Cardinality(before \cup {i}) <= Cardinality(before) + 1
  <2>1. /\ IsFiniteSet(before \cup {i})
        /\ Cardinality(before \cup {i}) =
             IF i \in before THEN Cardinality(before) ELSE Cardinality(before) + 1
    BY <1>1, FS_AddElement
  <2> HIDE DEF before
  <2> QED
    BY <1>2, <2>1
<1>4. IsFiniteSet(after) /\ Cardinality(after) <= Cardinality(before) + 1
  <2>1. IsFiniteSet(after) /\ Cardinality(after) <= Cardinality(before \cup {i})
    BY <1>3, FS_Subset
  <2>2. Cardinality(after) \in Nat /\ Cardinality(before \cup {i}) \in Nat
    BY <1>3, <2>1, FS_CardinalityType
  <2> QED
    BY <1>2, <1>3, <2>1, <2>2
<1>5. IsFiniteSet(old \ {w}) /\ Cardinality(old \ {w}) = Cardinality(old) - 1
  BY <1>1, FS_RemoveElement
<1>6. IsFiniteSet(new) /\ Cardinality(new) <= Cardinality(old) - 1
  BY <1>5, FS_Subset
<1>7. Cardinality(after) \in Nat /\ Cardinality(new) \in Nat
  BY <1>4, <1>6, FS_CardinalityType
<1>8. Cardinality(before) + Cardinality(old) <= Cardinality(Workers)
  BY DEF Room
<1> HIDE DEF old, new, before, after
<1>9. Cardinality(after) + Cardinality(new) <= Cardinality(Workers)
  BY <1>2, <1>4, <1>6, <1>7, <1>8
<1> QED
  BY <1>9 DEF Room, old, new, before, after

\* The turns of the loop are apart, and none of them may add a copy of a rule
\* that is there: its comment is in what the worker has just read.
LEMMA ReadCopies ==
  ASSUME CInv, CommentsApart, NEW w \in Workers, ReadChain(w)
  PROVE  TurnsApart' /\ \A a \in Accesses : Room(a)'
<1>1. /\ chain \in Seq(KernelRules) /\ todo \in [Workers -> SUBSET Turns]
      /\ ruleMap \in [Workers -> SUBSET KernelRules] /\ pc \in [Workers -> {"idle", "fetch", "read", "apply"}]
      /\ cfg \in [Workers -> Lists \cup {NoConfig}] /\ TurnsApart /\ \A a \in Accesses : Room(a)
  BY DEF CInv, Typed, TypeOK
<1>2. /\ pc[w] = "read" /\ ruleMap' = [ruleMap EXCEPT ![w] = Latest]
      /\ todo' = [todo EXCEPT ![w] = Loop(cfg[w])] /\ UNCHANGED chain
  BY DEF ReadChain
<1>3. \E c, d \in Configs : cfg[w] = Mixed(c, d)
  BY <1>2 DEF CInv, Listing
<1>4. \A t, u \in Loop(cfg[w]) : t # u => ~Contains(Comment(t), Comment(u))
  BY <1>3 DEF CommentsApart
<1>5. TurnsApart'
  BY <1>1, <1>2, <1>4 DEF TurnsApart, Contains, Comment
<1>6. ASSUME NEW a \in Accesses
      PROVE  Room(a)'
  <2>1. Places(a)' = Places(a)
    BY <1>2 DEF Places
  <2>2. CASE Places(a) = {}
    <3>1. chain' \in Seq(KernelRules)
      BY <1>1, <1>2
    <3> DEFINE new == Adders(a)'
    <3>2. new \subseteq Workers
      BY DEF Adders
    <3>3. IsFiniteSet(new) /\ Cardinality(new) <= Cardinality(Workers)
      BY <3>2, WorkersFinite, FS_Subset
    <3>4. Cardinality(new) \in Nat /\ Cardinality(Workers) \in Nat
      BY <3>3, WorkersFinite, FS_CardinalityType
    <3>5. Cardinality(Places(a)') = 0
      BY <2>1, <2>2, FS_EmptySet
    <3> HIDE DEF new
    <3>6. Cardinality(Places(a)') + Cardinality(new) <= Cardinality(Workers)
      BY <3>3, <3>4, <3>5
    <3> QED
      BY <3>6 DEF Room, new
  <2>3. CASE Places(a) # {}
    <3> DEFINE c == CommentFor[<<a.src, a.dst>>]
               n == Len(chain)
               alike == {j \in 1..n : Comment(chain[j]) = c}
    <3>1. DOMAIN chain = 1..n /\ n \in Nat
      BY <1>1
    <3>2. PICK i \in DOMAIN chain : chain[i].src = a.src /\ chain[i].dst = a.dst
      BY <2>3 DEF Places, Access, Accesses
    <3>3. i \in alike
      BY <3>1, <3>2 DEF Comment
    <3>4. PICK m \in alike : \A k \in alike : k <= m
      BY <3>1, <3>3, LastOf
    <3>5. chain[m] \in Latest
      <4>1. m \in DOMAIN chain /\ Comment(chain[m]) = c
        BY <3>1, <3>4
      <4>2. \A k \in DOMAIN chain : k > m => Comment(chain[k]) # c
        BY <3>1, <3>4
      <4> QED
        BY <4>1, <4>2 DEF Latest
    <3>6. Comment(chain[m]) = c /\ chain[m] \in ruleMap'[w]
      BY <1>1, <1>2, <3>4, <3>5
    <3>7. \A t \in todo'[w] : t.port # "80,443"
      BY <1>1, <1>2, LoopTyped
    <3>8. w \notin Adders(a)'
      BY <3>6, <3>7 DEF Adders, MayAdd, Comment
    <3>9. Adders(a)' \subseteq Adders(a)
      <4>1. \A v \in Workers : v # w => todo'[v] = todo[v] /\ ruleMap'[v] = ruleMap[v]
        BY <1>1, <1>2
      <4> QED
        BY <3>8, <4>1 DEF Adders, MayAdd
    <3>10. Cardinality(Places(a)') <= Cardinality(Places(a))
      BY <1>1, <2>1, CountsFinite
    <3> QED
      BY <1>1, <1>2, <3>9, <3>10, RoomKept
  <2> QED
    BY <2>2, <2>3
<1> QED
  BY <1>5, <1>6

\* A turn leaves those apart that are left, also when the rule for port 80 and
\* 443 comes in the place of the one for port 53: both have one comment.
LEMMA TurnApart ==
  ASSUME Typed, TurnsApart, NEW w \in Workers, NEW t \in todo[w],
         Recognise(w, t) \/ Skip(w, t) \/ Add(w, t) \/ FailToAdd(w, t)
  PROVE  TurnsApart'
<1> DEFINE http == [t EXCEPT !.port = "80,443"]
<1>1. todo \in [Workers -> SUBSET Turns] /\ t \in Turns
  BY DEF Typed, TypeOK
<1>2. /\ todo'[w] \subseteq (todo[w] \ {t}) \cup {http}
      /\ \A v \in Workers : v # w => todo'[v] = todo[v]
  <2>1. CASE todo' = [todo EXCEPT ![w] = todo[w] \ {t}]
    BY <1>1, <2>1
  <2>2. CASE todo' = [todo EXCEPT ![w] = (todo[w] \ {t}) \cup {x \in {http} : t.port = "53"}]
    BY <1>1, <2>2
  <2> QED
    BY <2>1, <2>2 DEF Recognise, Skip, Add, FailToAdd
<1>3. Comment(http) = Comment(t)
  BY <1>1 DEF Turns, Comment
<1> HIDE DEF http
<1>4. \A x, y \in todo'[w] : x # y => ~Contains(Comment(x), Comment(y))
  BY <1>2, <1>3 DEF TurnsApart
<1> QED
  BY <1>2, <1>4 DEF TurnsApart, Contains, Comment

\* A turn that adds nothing makes room for none: the rule it recognises is not
\* the one that another turn would have recognised.
LEMMA TurnWithout ==
  ASSUME Typed, TurnsApart, NEW w \in Workers, NEW t \in todo[w],
         Recognise(w, t) \/ Skip(w, t) \/ FailToAdd(w, t), UNCHANGED chain,
         NEW a, Room(a)
  PROVE  Room(a)'
<1>1. /\ chain \in Seq(KernelRules) /\ todo \in [Workers -> SUBSET Turns]
      /\ ruleMap \in [Workers -> SUBSET KernelRules]
  BY DEF Typed, TypeOK
<1>2. todo'[w] = todo[w] \ {t} /\ \A v \in Workers : v # w => todo'[v] = todo[v]
  BY <1>1 DEF Recognise, Skip, FailToAdd
<1>3. /\ \A v \in Workers : v # w => ruleMap'[v] = ruleMap[v]
      /\ ruleMap[w] \ Seen(w, t) \subseteq ruleMap'[w]
  BY <1>1 DEF Recognise, Skip, FailToAdd
<1>4. ASSUME NEW u \in todo'[w], MayAdd(w, u, a)'
      PROVE  MayAdd(w, u, a)
  <2>1. u \in todo[w] /\ ~Contains(Comment(u), Comment(t))
    BY <1>2 DEF TurnsApart
  <2>2. \A r \in Seen(w, t) : Comment(r) # Comment(u)
    BY <2>1 DEF Seen
  <2>3. u.port = "80,443" \/ \A r \in ruleMap'[w] : Comment(r) # Comment(u)
    BY <1>4 DEF MayAdd, Comment
  <2>4. u.port = "80,443" \/ \A r \in ruleMap[w] : Comment(r) # Comment(u)
    BY <1>3, <2>2, <2>3
  <2> QED
    BY <1>4, <2>4 DEF MayAdd
<1>5. ASSUME NEW v \in Workers, v # w, NEW u \in todo'[v], MayAdd(v, u, a)'
      PROVE  u \in todo[v] /\ MayAdd(v, u, a)
  BY <1>2, <1>3, <1>5 DEF MayAdd, Comment
<1>6. Adders(a)' \subseteq Adders(a)
  BY <1>2, <1>4, <1>5 DEF Adders
<1>7. Places(a)' = Places(a)
  BY DEF Places
<1>8. Cardinality(Places(a)') <= Cardinality(Places(a))
  BY <1>1, <1>7, CountsFinite
<1> QED
  BY <1>1, <1>6, <1>8, RoomKept

\* A turn that adds a rule was one that might, and is no more: no other turn of
\* the worker has its comment.
LEMMA TurnWith ==
  ASSUME Typed, TurnsApart, NEW w \in Workers, NEW t \in todo[w],
         Add(w, t) \/ FailToAdd(w, t), NftAdd(t),
         NEW a \in Accesses, Room(a)
  PROVE  Room(a)'
<1> DEFINE http == [t EXCEPT !.port = "80,443"]
           n == Len(chain)
<1>1. /\ chain \in Seq(KernelRules) /\ todo \in [Workers -> SUBSET Turns] /\ t \in Turns
      /\ ruleMap \in [Workers -> SUBSET KernelRules] /\ MapsFinite /\ OneHandle /\ n \in Nat
  BY DEF Typed, TypeOK, OneHandle
<1>2. chain' \in Seq(KernelRules)
  BY <1>1, AddTyped
<1>3. UNCHANGED ruleMap /\ Missing(w, t)
  BY DEF Add, FailToAdd
<1>4. /\ todo'[w] \subseteq (todo[w] \ {t}) \cup {x \in {http} : t.port = "53"}
      /\ \A v \in Workers : v # w => todo'[v] = todo[v]
  BY <1>1 DEF Add, FailToAdd
<1>5. Comment(http) = Comment(t) /\ http.port = "80,443" /\ http.src = t.src /\ http.dst = t.dst
  BY <1>1 DEF Turns, Comment
<1> HIDE DEF http
<1>6. \A r \in ruleMap[w] : t.port = "80,443" \/ Comment(r) # Comment(t)
  BY <1>3 DEF Missing, Seen, Contains
<1>7. Places(a)' = Places(a) \cup {i \in {n + 1} : Access(t) = a}
  <2> DEFINE r == [handle |-> Fresh, src |-> t.src, dst |-> t.dst, port |-> t.port]
  <2>1. chain' = Append(chain, r) /\ Access(r) = Access(t)
    BY DEF NftAdd, Access
  <2> HIDE DEF r
  <2>2. DOMAIN chain' = 1..(n + 1) /\ DOMAIN chain = 1..n /\ n + 1 \notin 1..n
    BY <1>1, <2>1
  <2>3. \A i \in 1..(n + 1) : chain'[i] = IF i = n + 1 THEN r ELSE chain[i]
    BY <1>1, <2>1
  <2>4. 1..(n + 1) = (1..n) \cup {n + 1}
    BY <1>1
  <2> QED
    BY <2>1, <2>2, <2>3, <2>4 DEF Places, Access
<1>8. Adders(a)' \subseteq Adders(a)
  <2>1. ASSUME NEW u \in todo'[w], MayAdd(w, u, a)'
        PROVE  w \in Adders(a)
    <3>1. MayAdd(w, u, a)
      BY <1>3, <2>1 DEF MayAdd, Comment
    <3>2. CASE u \in todo[w]
      BY <3>1, <3>2 DEF Adders
    <3>3. CASE u = http /\ t.port = "53"
      <4>1. t.src = a.src /\ t.dst = a.dst /\ a.port = "80,443"
        BY <1>5, <3>1, <3>3 DEF MayAdd
      <4>2. MayAdd(w, t, a)
        BY <1>6, <3>3, <4>1 DEF MayAdd
      <4> QED
        BY <4>2 DEF Adders
    <3> QED
      BY <1>4, <3>2, <3>3
  <2>2. ASSUME NEW v \in Workers, v # w, NEW u \in todo'[v], MayAdd(v, u, a)'
        PROVE  v \in Adders(a)
    BY <1>3, <1>4, <2>2 DEF Adders, MayAdd, Comment
  <2> QED
    BY <2>1, <2>2 DEF Adders
<1>9. CASE Access(t) # a
  <2>1. Places(a)' = Places(a)
    BY <1>7, <1>9
  <2>2. Cardinality(Places(a)') <= Cardinality(Places(a))
    BY <1>1, <2>1, CountsFinite
  <2> QED
    BY <1>1, <1>2, <1>8, <2>2, RoomKept
<1>10. CASE Access(t) = a
  <2>1. t.src = a.src /\ t.dst = a.dst /\ t.port = a.port
    BY <1>10 DEF Access
  <2>2. MayAdd(w, t, a)
    BY <1>6, <2>1 DEF MayAdd
  <2>3. w \in Adders(a)
    BY <2>2 DEF Adders
  <2>4. ASSUME NEW u \in todo'[w], MayAdd(w, u, a)'
        PROVE  FALSE
    <3>1. u.src = a.src /\ u.dst = a.dst /\ (u.port = a.port \/ (u.port = "53" /\ a.port = "80,443"))
      BY <2>4 DEF MayAdd
    <3>2. CASE u \in todo[w] \ {t}
      <4>1. Comment(u) = Comment(t)
        BY <2>1, <3>1 DEF Comment
      <4> QED
        BY <3>2, <4>1 DEF TurnsApart, Contains
    <3>3. CASE u = http /\ t.port = "53"
      BY <1>5, <2>1, <3>1, <3>3
    <3> QED
      BY <1>4, <3>2, <3>3
  <2>5. w \notin Adders(a)'
    BY <2>4 DEF Adders
  <2>6. Places(a)' \subseteq Places(a) \cup {n + 1}
    BY <1>7
  <2> QED
    BY <1>1, <1>8, <2>3, <2>5, <2>6, RoomUsed
<1> QED
  BY <1>9, <1>10

\* The end of a sync makes room, if it changes anything.
LEMMA FinishCopies ==
  ASSUME CInv, CommentsApart, NEW w \in Workers, Flush(w) \/ FailToFlush(w)
  PROVE  TurnsApart' /\ \A a \in Accesses : Room(a)'
<1>1. /\ chain \in Seq(KernelRules) /\ TurnsApart /\ \A a \in Accesses : Room(a)
      /\ ruleMap \in [Workers -> SUBSET KernelRules]
  BY DEF CInv, Typed, TypeOK
<1>2. UNCHANGED todo /\ todo[w] = {} /\ ruleMap' = [ruleMap EXCEPT ![w] = {}]
  BY DEF Flush, FailToFlush, Finish
<1>3. TurnsApart'
  BY <1>1, <1>2 DEF TurnsApart, Contains, Comment
<1>4. chain' = chain \/ chain' = Without(chain, Batch(w))
  BY DEF Flush, FailToFlush
<1>5. chain' \in Seq(KernelRules)
  BY <1>1, <1>4, WithoutFacts
<1>6. ASSUME NEW a \in Accesses
      PROVE  Room(a)'
  <2>1. Adders(a)' \subseteq Adders(a)
    BY <1>1, <1>2 DEF Adders, MayAdd, Comment
  <2>2. Cardinality(Places(a)') <= Cardinality(Places(a))
    <3>1. CASE chain' = chain
      <4>1. Places(a)' = Places(a)
        BY <3>1 DEF Places
      <4> QED
        BY <1>1, <4>1, CountsFinite
    <3>2. CASE chain' = Without(chain, Batch(w))
      <4> DEFINE after == Places(a)'
      <4>1. PICK f \in Injection(DOMAIN chain', DOMAIN chain) :
              \A j \in DOMAIN chain' : chain'[j] = chain[f[j]]
        BY <1>1, <3>2, WithoutFacts
      <4>2. /\ f \in [DOMAIN chain' -> DOMAIN chain]
            /\ \A i, j \in DOMAIN chain' : f[i] = f[j] => i = j
        BY DEF Injection, IsInjective
      <4>3. after \subseteq DOMAIN chain'
        BY DEF Places
      <4>4. \A i \in after : f[i] \in Places(a)
        BY <4>1, <4>2 DEF Places
      <4> HIDE DEF after
      <4>5. [i \in after |-> f[i]] \in Injection(after, Places(a))
        BY <4>2, <4>3, <4>4 DEF Injection, IsInjective
      <4>6. Cardinality(after) <= Cardinality(Places(a))
        BY <1>1, <4>5, CountsFinite, FS_Injection
      <4> QED
        BY <4>6 DEF after
    <3> QED
      BY <1>4, <3>1, <3>2
  <2> QED
    BY <1>1, <1>5, <2>1, <2>2, RoomKept
<1> QED
  BY <1>3, <1>6

\* A new process has nothing left to add.
LEMMA RestartCopies ==
  ASSUME CInv, CommentsApart, Restart
  PROVE  TurnsApart' /\ \A a \in Accesses : Room(a)'
<1>1. chain \in Seq(KernelRules) /\ \A a \in Accesses : Room(a)
  BY DEF CInv, Typed, TypeOK
<1>2. chain' \in {chain, <<>>} /\ \A w \in Workers : todo'[w] = {}
  BY DEF Restart
<1>3. TurnsApart'
  BY <1>2 DEF TurnsApart
<1>4. chain' \in Seq(KernelRules)
  <2>1. <<>> \in Seq(KernelRules)
    OBVIOUS
  <2> QED
    BY <1>1, <1>2, <2>1
<1>5. ASSUME NEW a \in Accesses
      PROVE  Room(a)'
  <2>1. Adders(a)' \subseteq Adders(a)
    BY <1>2 DEF Adders
  <2>2. Places(a)' \subseteq Places(a)
    <3>1. DOMAIN <<>> = {}
      OBVIOUS
    <3> QED
      BY <1>2, <3>1 DEF Places
  <2>3. Cardinality(Places(a)') <= Cardinality(Places(a))
    BY <1>1, <2>2, CountsFinite, FS_Subset
  <2> QED
    BY <1>1, <1>4, <2>1, <2>3, RoomKept
<1> QED
  BY <1>3, <1>5

\* Every step leaves room.
LEMMA CopiesStep ==
  ASSUME CInv, [Next]_vars
  PROVE  CInv'
<1>1. Typed' /\ Listing'
  BY TypeStep, ListingStep DEF CInv
<1>2. CommentsApart' <=> CommentsApart
  BY DEF CommentsApart
<1> SUFFICES ASSUME CommentsApart
             PROVE  TurnsApart' /\ \A a \in Accesses : Room(a)'
  BY <1>1, <1>2 DEF CInv
<1>3. Typed /\ TurnsApart /\ \A a \in Accesses : Room(a)
  BY DEF CInv
<1>4. CASE UNCHANGED <<chain, todo, ruleMap>>
  <2>1. TurnsApart'
    BY <1>3, <1>4 DEF TurnsApart, Contains, Comment
  <2>2. ASSUME NEW a \in Accesses
        PROVE  Room(a)'
    <3>1. Places(a)' = Places(a)
      BY <1>4 DEF Places, Access
    <3>2. Adders(a)' = Adders(a)
      BY <1>4 DEF Adders, MayAdd, Comment
    <3> QED
      BY <1>3, <3>1, <3>2 DEF Room
  <2> QED
    BY <2>1, <2>2
<1>5. ASSUME NEW w \in Workers, Work(w)
      PROVE  TurnsApart' /\ \A a \in Accesses : Room(a)'
  <2>1. CASE ReadChain(w)
    BY <2>1, ReadCopies
  <2>2. CASE Flush(w) \/ FailToFlush(w)
    BY <2>2, FinishCopies
  <2>3. ASSUME NEW t \in todo[w], Recognise(w, t) \/ Skip(w, t) \/ Add(w, t) \/ FailToAdd(w, t)
        PROVE  TurnsApart' /\ \A a \in Accesses : Room(a)'
    <3>1. TurnsApart'
      BY <1>3, <2>3, TurnApart
    <3>2. CASE NftAdd(t) /\ (Add(w, t) \/ FailToAdd(w, t))
      BY <1>3, <3>1, <3>2, TurnWith
    <3>3. CASE UNCHANGED chain /\ (Recognise(w, t) \/ Skip(w, t) \/ FailToAdd(w, t))
      BY <1>3, <3>1, <3>3, TurnWithout
    <3> QED
      BY <2>3, <3>2, <3>3 DEF Recognise, Skip, Add, FailToAdd
  <2>4. CASE ListRules(w)
    BY <1>4, <2>4 DEF ListRules
  <2> QED
    BY <1>5, <2>1, <2>2, <2>3, <2>4 DEF Work, Apply
<1>6. CASE Restart
  BY <1>6, RestartCopies
<1>7. ASSUME NEW w \in Workers, ListPeers(w)
      PROVE  UNCHANGED <<chain, todo, ruleMap>>
  BY <1>7 DEF ListPeers
<1>8. Edit \/ UNCHANGED vars => UNCHANGED <<chain, todo, ruleMap>>
  BY DEF Edit, vars, workVars
<1> QED
  BY <1>4, <1>5, <1>6, <1>7, <1>8 DEF Next

\* There is room before the first sync.
LEMMA CopiesInit ==
  ASSUME Init
  PROVE  CInv
<1>1. Typed /\ Listing
  BY TypeInit DEF Listing, Init
<1>2. TurnsApart
  BY DEF TurnsApart, Init
<1>3. ASSUME NEW a \in Accesses
      PROVE  Room(a)
  <2>1. Places(a) = {} /\ Adders(a) = {}
    BY DEF Places, Adders, Init
  <2>2. Cardinality(Places(a)) = 0 /\ Cardinality(Adders(a)) = 0
    BY <2>1, FS_EmptySet
  <2>3. Cardinality(Workers) \in Nat
    BY WorkersFinite, FS_CardinalityType
  <2> QED
    BY <2>2, <2>3 DEF Room
<1> QED
  BY <1>1, <1>2, <1>3 DEF CInv

\* If no two turns have comments that are alike, whatever peers and rules were
\* listed together, then however
\* the workers interleave, fail and restart, and though the configuration
\* changes meanwhile, no rule is ever in the chain more often than there are
\* workers: the chain does not grow with every sync.
THEOREM CopiesStayBounded == Spec => []CopiesBounded
<1>1. CInv => CopiesBounded
  <2> SUFFICES ASSUME CInv, CommentsApart, NEW a \in Accepted
               PROVE  Cardinality(Places(a)) <= Cardinality(Workers)
    BY DEF CopiesBounded
  <2>1. chain \in Seq(KernelRules)
    BY DEF CInv, Typed, TypeOK
  <2>2. a \in Accesses
    BY <2>1, InstalledFinite DEF Accepted, Access, KernelRules, Accesses
  <2>3. Room(a)
    BY <2>2 DEF CInv
  <2>4. /\ Cardinality(Places(a)) \in Nat /\ Cardinality(Adders(a)) \in Nat
        /\ Cardinality(Workers) \in Nat
    BY <2>1, CountsFinite
  <2> QED
    BY <2>3, <2>4 DEF Room
<1>2. CInv /\ [Next]_vars => CInv'
  BY CopiesStep
<1> QED
  BY CopiesInit, <1>1, <1>2, PTL DEF Spec
=============================================================================
