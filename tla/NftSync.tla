------------------------------ MODULE NftSync ------------------------------
(***************************************************************************)
(* nftSync (operator/nft.go): the workers of the endpoint process bring    *)
(* the chain "wga" of the packet filter in line with the peers and access  *)
(* rules they listed. A worker reads the chain, adds missing rules one by  *)
(* one with the nft command, and in the end deletes in a single batch what *)
(* it read and did not recognise. Nothing keeps two workers from doing so  *)
(* at the same time.                                                       *)
(*                                                                         *)
(* Rules are recognised by their comment, which is made of the peer's and  *)
(* the destination's address. All rules accept and the chain drops what    *)
(* none accepts, so the order of the rules carries no information.         *)
(***************************************************************************)
EXTENDS Naturals, Sequences, FiniteSets, SequenceOps

CONSTANTS
  Workers,     \* the workers that call WGASync
  Peers, AccessRules,
  Addrs,       \* addresses of peers
  Nets,        \* destinations of access rules, addresses of DNS servers
  V6,          \* which of these two are IPv6
  Comments, CommentFor,  \* the comment of an address and a destination
  Within,      \* pairs of comments, the first contained in the second
  Configs,     \* what the objects in the cache can be, see ConfigsTyped
  NoServer,    \* status.dns is empty
  NoStatus,    \* there is no such peer, or its status is nil
  NoConfig,    \* the worker has fetched none
  MaxEdits,    \* bound: changes of the configuration
  MaxFaults    \* bound: failing commands and process restarts

PeerEntries == [ips : SUBSET Addrs, access : SUBSET AccessRules, dns : Nets \cup {NoServer}]

\* An access rule that does not exist has no destinations; one that does not
\* parse is not one of its destinations.
Lists == [peers : [Peers -> PeerEntries \cup {NoStatus}], rules : [AccessRules -> SUBSET Nets]]
ASSUME ConfigsTyped == Configs \subseteq Lists
ASSUME CommentsTyped ==
  /\ CommentFor \in [Addrs \X Nets -> Comments]
  /\ Within \subseteq Comments \X Comments
ASSUME BoundsTyped == MaxEdits \in Nat /\ MaxFaults \in Nat
ASSUME WorkersFinite == IsFiniteSet(Workers)
ASSUME SentinelsApart ==
  NoServer \notin Nets /\ NoStatus \notin PeerEntries /\ NoConfig \notin Lists

VARIABLES
  config,   \* the objects in the informer's cache
  chain,    \* the rules in the kernel, in the order they came
  pc,       \* what each worker does next
  cfg,      \* the configuration each worker fetches, first its peers
  todo,     \* the turns left of the loop over peers, access rules, destinations
  ruleMap,  \* the rules each worker read and has not recognised
  edits, faults

workVars == <<pc, cfg, todo, ruleMap>>
vars == <<config, chain, workVars, edits, faults>>

Ports == {"any", "53", "80,443"}
KernelRules == [handle : Nat, src : Addrs, dst : Nets, port : Ports]

\* One turn of the loop: a port of a destination for an address of a peer. via
\* tells apart turns that come to the same, because several access rules of a
\* peer name one destination.
Turns == [peer : Peers, src : Addrs, dst : Nets, port : Ports, via : AccessRules \cup {NoServer}]

Listed(c) == {p \in Peers : c.peers[p] # NoStatus}

Routes(c) ==
  {t \in Turns :
     /\ t.peer \in Listed(c) /\ t.src \in c.peers[t.peer].ips
     /\ t.via \in c.peers[t.peer].access /\ t.dst \in c.rules[t.via]
     /\ t.port = "any"}

\* Only for IPv6 peers, and only to the first server.
Lookups(c) ==
  {t \in Turns :
     /\ t.peer \in Listed(c) /\ t.src \in c.peers[t.peer].ips \cap V6
     /\ t.via = NoServer /\ t.dst = c.peers[t.peer].dns
     /\ t.port = "53"}

\* Mutant: the loop passes over a peer without a DNS server.
Loop_OnlyWithServer(c) == {t \in Routes(c) : c.peers[t.peer].dns # NoServer} \cup Lookups(c)

Loop(c) == Routes(c) \cup Lookups(c)

Installed == {chain[i] : i \in DOMAIN chain}

Comment(x) == CommentFor[<<x.src, x.dst>>]

\* strings.Contains(ud, comment)
Contains(ud, comment) == ud = comment \/ <<comment, ud>> \in Within

SameFamily(x) == x.src \in V6 <=> x.dst \in V6
-----------------------------------------------------------------------------
Init ==
  /\ config \in Configs
  /\ chain = <<>>
  /\ pc = [w \in Workers |-> "idle"]
  /\ cfg = [w \in Workers |-> NoConfig]
  /\ todo = [w \in Workers |-> {}]
  /\ ruleMap = [w \in Workers |-> {}]
  /\ edits = 0
  /\ faults = 0

\* Users, and the reconciler that gives peers their addresses.
Edit ==
  /\ edits < MaxEdits
  /\ edits' = edits + 1
  /\ config' \in Configs \ {config}
  /\ UNCHANGED <<chain, workVars, faults>>

\* Fetch lists the peers and then, maybe after a change, the rules.
ListPeers(w) ==
  /\ pc[w] = "idle"
  /\ pc' = [pc EXCEPT ![w] = "fetch"]
  /\ cfg' = [cfg EXCEPT ![w] = [peers |-> config.peers, rules |-> [r \in AccessRules |-> {}]]]
  /\ UNCHANGED <<config, chain, todo, ruleMap, edits, faults>>

ListRules(w) ==
  /\ pc[w] = "fetch"
  /\ pc' = [pc EXCEPT ![w] = "read"]
  /\ cfg' = [cfg EXCEPT ![w].rules = config.rules]
  /\ UNCHANGED <<config, chain, todo, ruleMap, edits, faults>>

\* The rules by comment: of those that share one the last remains.
Latest ==
  {chain[i] : i \in {j \in DOMAIN chain :
                       \A k \in DOMAIN chain : k > j => Comment(chain[k]) # Comment(chain[j])}}

ReadChain(w) ==
  /\ pc[w] = "read"
  /\ pc' = [pc EXCEPT ![w] = "apply"]
  /\ ruleMap' = [ruleMap EXCEPT ![w] = Latest]
  /\ todo' = [todo EXCEPT ![w] = Loop(cfg[w])]
  /\ UNCHANGED <<config, chain, cfg, edits, faults>>
-----------------------------------------------------------------------------
\* Peers and access rules come in no particular order, but for each address
\* the DNS server comes after the access rules.
Turn(w, t) ==
  /\ pc[w] = "apply"
  /\ t \in todo[w]
  /\ t.port # "any" =>
       ~\E u \in todo[w] : u.port = "any" /\ u.peer = t.peer /\ u.src = t.src
  /\ UNCHANGED <<config, pc, cfg, edits>>

\* Mutant: every rule is unknown.
Seen_Never(w, t) == {}

Seen(w, t) == {r \in ruleMap[w] : Contains(Comment(r), Comment(t))}

\* The rule for port 80 and 443 comes with the one for port 53, unasked.
Recognise(w, t) ==
  /\ Turn(w, t)
  /\ t.port # "80,443" /\ Seen(w, t) # {}
  /\ ruleMap' = [ruleMap EXCEPT ![w] = @ \ Seen(w, t)]
  /\ todo' = [todo EXCEPT ![w] = @ \ {t}]
  /\ UNCHANGED <<chain, faults>>

Missing(w, t) == t.port = "80,443" \/ Seen(w, t) = {}

\* A route between families is skipped; the nft command refuses an "ip6" rule
\* with the IPv4 address of a DNS server.
Skip(w, t) ==
  /\ Turn(w, t)
  /\ Missing(w, t) /\ ~SameFamily(t)
  /\ todo' = [todo EXCEPT ![w] = @ \ {t}]
  /\ UNCHANGED <<chain, ruleMap, faults>>

\* The kernel gives every rule a handle it never gave before. Here a handle
\* comes back once neither the chain nor a worker has it: nobody can tell.
Known == Installed \cup UNION {ruleMap[w] : w \in Workers}
Fresh == CHOOSE h \in 0..Cardinality(Known) : \A r \in Known : r.handle # h

\* nft add rule.
NftAdd(t) ==
  chain' = Append(chain, [handle |-> Fresh, src |-> t.src, dst |-> t.dst, port |-> t.port])

\* After dnsRule comes httpRule.
Add(w, t) ==
  /\ Turn(w, t)
  /\ Missing(w, t) /\ SameFamily(t)
  /\ NftAdd(t)
  /\ todo' = [todo EXCEPT ![w] = (@ \ {t}) \cup
                {u \in {[t EXCEPT !.port = "80,443"]} : t.port = "53"}]
  /\ UNCHANGED <<ruleMap, faults>>

Fault == faults < MaxFaults /\ faults' = faults + 1

\* The command fails, or times out after it has done its work; the error is
\* logged. If it was the one for port 53 the other is not tried.
FailToAdd(w, t) ==
  /\ Turn(w, t)
  /\ Missing(w, t) /\ SameFamily(t)
  /\ Fault
  /\ NftAdd(t) \/ UNCHANGED chain
  /\ todo' = [todo EXCEPT ![w] = @ \ {t}]
  /\ UNCHANGED ruleMap

-----------------------------------------------------------------------------
\* Mutant: nothing is ever deleted.
Batch_Empty(w) == {}

\* What Flush sends: the deletion of each rule that was not recognised.
Batch(w) == ruleMap[w]

\* Mutant: the map of rules outlives the call.
Finish_KeepsMap(w) ==
  /\ pc[w] = "apply" /\ todo[w] = {}
  /\ pc' = [pc EXCEPT ![w] = "idle"]
  /\ cfg' = [cfg EXCEPT ![w] = NoConfig]
  /\ UNCHANGED <<config, todo, ruleMap, edits>>

Finish(w) ==
  /\ pc[w] = "apply" /\ todo[w] = {}
  /\ pc' = [pc EXCEPT ![w] = "idle"]
  /\ ruleMap' = [ruleMap EXCEPT ![w] = {}]
  /\ cfg' = [cfg EXCEPT ![w] = NoConfig]
  /\ UNCHANGED <<config, todo, edits>>

\* The batch is a transaction: it fails as a whole when one of its rules is
\* gone, and nobody looks at the error.
Flush(w) ==
  /\ Finish(w)
  /\ chain' = IF Batch(w) \subseteq Installed
              THEN Without(chain, Batch(w)) ELSE chain
  /\ UNCHANGED faults

FailToFlush(w) == Finish(w) /\ Fault /\ UNCHANGED chain

\* A new process, also after the panics of nftSync. It deletes the device, with
\* which the kernel drops the chain that hooks it; newer ones keep the chain.
Restart ==
  /\ Fault
  /\ chain' \in {chain, <<>>}
  /\ pc' = [w \in Workers |-> "idle"]
  /\ cfg' = [w \in Workers |-> NoConfig]
  /\ todo' = [w \in Workers |-> {}]
  /\ ruleMap' = [w \in Workers |-> {}]
  /\ UNCHANGED <<config, edits>>

-----------------------------------------------------------------------------
Apply(w) ==
  \E t \in todo[w] : Recognise(w, t) \/ Skip(w, t) \/ Add(w, t) \/ FailToAdd(w, t)

Work(w) == ListRules(w) \/ ReadChain(w) \/ Apply(w) \/ Flush(w) \/ FailToFlush(w)

Next == Edit \/ (\E w \in Workers : ListPeers(w) \/ Work(w)) \/ Restart

\* A worker that has begun goes on; Endpoint says when one begins. The premise of
\* the liveness properties is that one worker begins again and again: the rule
\* worker does with every resync of a rule, the peer worker need not.
Fairness == \A w \in Workers : WF_vars(Work(w))
Repeats == \E w \in Workers : WF_vars(ListPeers(w))

Spec == Init /\ [][Next]_vars
FairSpec == Spec /\ Fairness

-----------------------------------------------------------------------------
\* Every variable has its type; a worker has turns and rules of the chain in
\* hand only during the sync; a handle stands for one rule.
TypeOK ==
  /\ config \in Configs
  /\ chain \in Seq(KernelRules)
  /\ \A i, j \in DOMAIN chain : chain[i].handle = chain[j].handle => i = j
  /\ pc \in [Workers -> {"idle", "fetch", "read", "apply"}]
  /\ cfg \in [Workers -> Lists \cup {NoConfig}]
  /\ \A w \in Workers : pc[w] = "idle" <=> cfg[w] = NoConfig
  /\ todo \in [Workers -> SUBSET Turns]
  /\ ruleMap \in [Workers -> SUBSET KernelRules]
  /\ \A w \in Workers : pc[w] # "apply" => todo[w] = {} /\ ruleMap[w] = {}
  /\ edits \in 0..MaxEdits
  /\ faults \in 0..MaxFaults

Access(x) == [src |-> x.src, dst |-> x.dst, port |-> x.port]

Wanted(c) == {Access(t) : t \in {u \in Routes(c) \cup Lookups(c) : SameFamily(u)}}
Accepted == {Access(r) : r \in Installed}

\* nftSync asks whether a rule is there before it adds it, but asks a list it
\* read earlier. However the workers interleave, fail and restart, and though
\* the configuration changes meanwhile, no rule is in the chain more often than
\* there are workers: the chain cannot grow with every sync. (If two turns never
\* have comments that are alike, whatever peers and rules were listed together.)
Mixed(c, d) == [peers |-> c.peers, rules |-> d.rules]
CommentsApart ==
  \A c, d \in Configs : \A t, u \in Loop(Mixed(c, d)) :
    t # u => ~Contains(Comment(t), Comment(u))
Places(a) == {i \in DOMAIN chain : Access(chain[i]) = a}
CopiesBounded ==
  CommentsApart => \A a \in Accepted : Cardinality(Places(a)) <= Cardinality(Workers)

\* Once nobody edits, the repeated nftSyncs of one worker settle on a chain that
\* accepts what the access rules ask for, though syncs of others that read an
\* older configuration, or half of one, may delete what a newer one has added,
\* and commands fail. (It cannot be said of the DNS server: if its rule for port
\* 53 is lost or never made while the one for port 80 and 443 is there, their
\* common comment counts as recognised.)
RoutesConverge == Repeats => <>[]({a \in Wanted(config) : a.port = "any"} \subseteq Accepted)

\* And nothing else is accepted but, with each DNS server, its port 80 and 443:
\* a batch that fails because another worker deleted one of its rules, and
\* copies that hide behind each other in the map, do not keep a rule alive.
Stale == {a \in Accepted : a \notin Wanted(config) /\ [a EXCEPT !.port = "53"] \notin Wanted(config)}
StaleGone == Repeats => <>[](Stale = {})

\* "stale rules deleted" (operator/nft.go): when the only worker there is has
\* ended its sync and nothing failed, every rule of the chain is one that the
\* configuration it fetched asks for.
StaleDeleted ==
  [][\A w \in Workers :
       Workers = {w} /\ pc[w] = "apply" /\ pc'[w] = "idle" /\ faults' = faults
         => \A i \in DOMAIN chain' :
              \E t \in Routes(cfg[w]) \cup Lookups(cfg[w]) : Comment(chain'[i]) = Comment(t)]_vars
=============================================================================
