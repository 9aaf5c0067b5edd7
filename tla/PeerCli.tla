------------------------------ MODULE PeerCli ------------------------------
(***************************************************************************)
(* The commands "wga peers add" and "wga peers wgc" (peers.go). Each name  *)
(* has a goroutine (NewWGAPeer): it creates the peer with keys of its own, *)
(* then watches it until the controller has set its status. All share one  *)
(* context with a deadline of 15 seconds. Several commands may run, for    *)
(* the same names. The controller is what AddressLease says of it.         *)
(***************************************************************************)
EXTENDS Naturals, Sequences

CONSTANTS
  Peers,      \* names of peers
  Addrs,      \* addresses of the client networks
  Cmds,       \* runs of the commands
  Names,      \* of each run: the peers it makes, one for each of its nodes
  Foreign,    \* keys of a peer that is made or edited otherwise
  NoLease,
  MaxEdits,   \* bound: writes of other users
  MaxFaults   \* bound: failing calls and killed commands

ASSUME NamesTyped == \A c \in Cmds : Names[c] \in Seq(Peers)
ASSUME BoundsTyped == MaxEdits \in Nat /\ MaxFaults \in Nat

\* A goroutine is also the name of the keys it generates.
Goroutines == UNION {{c} \X DOMAIN Names[c] : c \in Cmds}
Of(c) == {c} \X DOMAIN Names[c]
PeerOf(g) == Names[g[1]][g[2]]

ASSUME SentinelsApart ==
  /\ Foreign \notin Goroutines
  /\ NoLease \notin [spec : Goroutines \cup {Foreign}, addrs : SUBSET Addrs]

VARIABLES
  lease,     \* the peers at the API server, see AddressLease
  step,      \* of each goroutine: the call it makes next, or how it ended
  log,       \* of each name: the events of its peers, see Record
  next,      \* of each goroutine: the event its watch sends next, 0 if it has none
  got,       \* of each goroutine: the addresses it returned
  result,    \* of each command: how it ended
  expired,   \* commands whose deadline has passed
  touched,   \* history: goroutines whose peer a user deleted or edited since
  edits, faults

vars == <<lease, log, step, next, got, result, expired, touched, edits, faults>>

Lease == INSTANCE AddressLease WITH Specs <- Goroutines \cup {Foreign}, Moved <- {}

Init ==
  /\ lease = [p \in Peers |-> NoLease]
  /\ log = [p \in Peers |-> <<>>]
  /\ step = [g \in Goroutines |-> "create"]
  /\ next = [g \in Goroutines |-> 0]
  /\ got = [g \in Goroutines |-> {}]
  /\ result = [c \in Cmds |-> "running"]
  /\ expired = {}
  /\ touched = {}
  /\ edits = 0
  /\ faults = 0

-----------------------------------------------------------------------------
\* Each write of a peer is an event; that of a deletion carries the last copy.
Record(p) ==
  log' = [log EXCEPT ![p] =
            Append(@, IF lease'[p] = NoLease THEN [peer |-> lease[p], gone |-> TRUE]
                                             ELSE [peer |-> lease'[p], gone |-> FALSE])]

Assign(p) ==
  /\ \E a \in Addrs : Lease!Assign(p, a)
  /\ Record(p)
  /\ UNCHANGED <<step, next, got, result, expired, touched, edits, faults>>

\* Other users, through kubectl.
OtherUser(p) ==
  /\ edits < MaxEdits
  /\ edits' = edits + 1
  /\ \/ Lease!Request(p, Foreign)
     \/ Lease!Amend(p, Foreign) /\ lease'[p] # lease[p]
     \/ Lease!End(p)
  /\ touched' = touched \cup {g \in Goroutines : PeerOf(g) = p /\ step[g] # "create"}
  /\ Record(p)
  /\ UNCHANGED <<step, next, got, result, expired, faults>>

-----------------------------------------------------------------------------
\* NewWGAPeer.
Running(g) == result[g[1]] = "running"
To(g, s) == step' = [step EXCEPT ![g] = s]
Fault == faults < MaxFaults /\ faults' = faults + 1

\* Mutant: a peer that exists already will do.
Create_IgnoresExisting(g) ==
  \/ Lease!Request(PeerOf(g), g) /\ Record(PeerOf(g))
  \/ Lease!Held(PeerOf(g)) /\ UNCHANGED <<lease, log>>

Create(g) == Lease!Request(PeerOf(g), g) /\ Record(PeerOf(g))

\* The peer is created; or the call is not made, the name is taken, or it
\* fails on the way there; or it fails on the way back.
CreatePeer(g) ==
  /\ step[g] = "create" /\ Running(g)
  /\ \/ g[1] \notin expired /\ Create(g) /\ To(g, "created") /\ UNCHANGED faults
     \/ g[1] \in expired /\ To(g, "failed") /\ UNCHANGED <<lease, log, faults>>
     \/ Lease!Held(PeerOf(g)) /\ To(g, "failed") /\ UNCHANGED <<lease, log, faults>>
     \/ Fault /\ To(g, "failed") /\ UNCHANGED <<lease, log>>
     \/ g[1] \notin expired /\ Fault /\ Create(g) /\ To(g, "failed")
  /\ UNCHANGED <<next, got, result, expired, touched, edits>>

\* Mutant: only what changes after the call is sent.
Starts_After(p) == {Len(log[p]) + 1}

\* A Watch without a version begins at any version, maybe one from before the
\* call: with the peer as it was then, if there was one, and goes on with all
\* that happened since.
Starts(p) ==
  {i \in DOMAIN log[p] : ~log[p][i].gone} \cup {i \in {Len(log[p]) + 1} : ~Lease!Held(p)}

StartWatch(g) ==
  /\ step[g] = "created" /\ Running(g)
  /\ \/ /\ g[1] \notin expired
        /\ \E i \in Starts(PeerOf(g)) : next' = [next EXCEPT ![g] = i]
        /\ To(g, "watch")
        /\ UNCHANGED faults
     \/ g[1] \in expired /\ To(g, "failed") /\ UNCHANGED <<next, faults>>
     \/ Fault /\ To(g, "failed") /\ UNCHANGED next
  /\ UNCHANGED <<lease, log, got, result, expired, touched, edits>>

\* Mutant: the first event is returned.
HasStatus_Any(peer) == TRUE

\* peer.Status # nil: the controller sets the status and its addresses in one write.
HasStatus(peer) == peer.addrs # {}

\* The loop looks at no key and no UID: any event of the name will do.
See(g) ==
  /\ step[g] = "watch" /\ Running(g)
  /\ next[g] \in DOMAIN log[PeerOf(g)]
  /\ LET peer == log[PeerOf(g)][next[g]].peer
     IN  IF HasStatus(peer)
         THEN /\ got' = [got EXCEPT ![g] = peer.addrs]
              /\ next' = [next EXCEPT ![g] = 0]
              /\ To(g, "got")
         ELSE next' = [next EXCEPT ![g] = @ + 1] /\ UNCHANGED <<step, got>>
  /\ UNCHANGED <<lease, log, result, expired, touched, edits, faults>>

\* Mutant: the watch does not end with the context.
Closed_OnlyByServer(g) == Fault

\* ResultChan is closed, which loses events: the deadline, or the server.
Closed(g) == \/ g[1] \in expired /\ UNCHANGED faults
             \/ Fault

WatchEnds(g) ==
  /\ step[g] = "watch" /\ Running(g)
  /\ Closed(g)
  /\ To(g, "failed")
  /\ next' = [next EXCEPT ![g] = 0]
  /\ UNCHANGED <<lease, log, got, result, expired, touched, edits>>

-----------------------------------------------------------------------------
Expire(c) ==
  /\ result[c] = "running"
  /\ c \notin expired
  /\ expired' = expired \cup {c}
  /\ UNCHANGED <<lease, log, step, next, got, result, touched, edits, faults>>

\* group.Wait returns the error of any goroutine, but only after all have ended.
Outcome(c) == IF \A g \in Of(c) : step[g] = "got" THEN "printed" ELSE "error"

Finish(c) ==
  /\ result[c] = "running"
  /\ \A g \in Of(c) : step[g] \in {"got", "failed"}
  /\ result' = [result EXCEPT ![c] = Outcome(c)]
  /\ UNCHANGED <<lease, log, step, next, got, expired, touched, edits, faults>>

\* The command is killed; what it has created stays.
Kill(c) ==
  /\ result[c] = "running"
  /\ Fault
  /\ result' = [result EXCEPT ![c] = "error"]
  /\ next' = [g \in Goroutines |-> IF g \in Of(c) THEN 0 ELSE next[g]]
  /\ step' = [g \in Goroutines |-> IF g \in Of(c) THEN "failed" ELSE step[g]]
  /\ UNCHANGED <<lease, log, got, expired, touched, edits>>

Next ==
  \/ \E p \in Peers : Assign(p) \/ OtherUser(p)
  \/ \E g \in Goroutines : CreatePeer(g) \/ StartWatch(g) \/ See(g) \/ WatchEnds(g)
  \/ \E c \in Cmds : Expire(c) \/ Finish(c) \/ Kill(c)

\* A goroutine that can go on without a failure does.
Fairness ==
  /\ \A g \in Goroutines :
       /\ WF_vars(CreatePeer(g)) /\ WF_vars(StartWatch(g)) /\ WF_vars(See(g))
       /\ WF_vars(g[1] \in expired /\ WatchEnds(g))
  /\ \A c \in Cmds : WF_vars(Finish(c))

\* The two premises of the liveness properties: the timer fires; the
\* controller answers (Endpoint!EveryPeerAddressed).
Deadlines == \A c \in Cmds : WF_vars(Expire(c))
Answers == \A p \in Peers : WF_vars(Assign(p))

Spec == Init /\ [][Next]_vars
FairSpec == Spec /\ Fairness

-----------------------------------------------------------------------------
Steps == {"create", "created", "watch", "got", "failed"}

Events == [peer : Lease!Leases, gone : BOOLEAN]

\* Every variable has its type; the log of a name ends with the peer as it is; a
\* goroutine has a place in the log only while it watches, and addresses only if
\* it got them from its watch.
TypeOK ==
  /\ lease \in [Peers -> Lease!Leases \cup {NoLease}]
  /\ log \in [Peers -> Seq(Events)]
  /\ \A p \in Peers : Lease!Held(p) =>
       log[p] # <<>> /\ log[p][Len(log[p])] = [peer |-> lease[p], gone |-> FALSE]
  /\ step \in [Goroutines -> Steps]
  /\ next \in [Goroutines -> Nat]
  /\ \A g \in Goroutines :
       next[g] \in IF step[g] = "watch" THEN 1..(Len(log[PeerOf(g)]) + 1) ELSE {0}
  /\ got \in [Goroutines -> SUBSET Addrs]
  /\ \A g \in Goroutines : step[g] = "got" => got[g] # {}
  /\ result \in [Cmds -> {"running", "printed", "error"}]
  /\ expired \subseteq Cmds
  /\ touched \subseteq Goroutines
  /\ edits \in 0..MaxEdits
  /\ faults \in 0..MaxFaults

Printed(g) == result[g[1]] = "printed" /\ g \notin touched

\* The addresses are those of a peer that had the name, with other keys.
Older(g) ==
  \E i \in DOMAIN log[PeerOf(g)] :
    LET peer == log[PeerOf(g)][i].peer
    IN  peer.spec # g /\ peer.addrs = got[g]

\* A configuration that was printed is good: as long as no user deletes or edits
\* them, the peers in it exist at the API server, with the keys that were printed,
\* whatever other commands for the same names, retries and failures there are;
\* and the addresses are theirs, if the name is a new one. If not, they may be
\* those of a peer that had the name before.
PrintedIsHeld ==
  \A g \in Goroutines :
    Printed(g) =>
      /\ Lease!Held(PeerOf(g)) /\ lease[PeerOf(g)].spec = g
      /\ got[g] = lease[PeerOf(g)].addrs \/ Older(g)

\* "generate a configuration for a WireguardAccessClient" (peers.go): the keys
\* and the addresses it has are those of one peer, also if the name is not new.
PrintedIsOwn ==
  \A g \in Goroutines : Printed(g) => lease[PeerOf(g)] = [spec |-> g, addrs |-> got[g]]

\* NewWGAPeer creates first and watches second, and the controller may answer
\* in between: a command none of whose calls fails, whose deadline does not
\* pass and whose peers nobody touches prints its configuration.
Undisturbed(c) ==
  /\ c \notin expired
  /\ \A g \in Of(c) : step[g] # "failed" /\ g \notin touched
AnswerIsSeen ==
  Answers => \A c \in Cmds : []Undisturbed(c) => <>(result[c] = "printed")

\* No command waits for ever: whatever it waits for, it ends once the deadline
\* passes.
CommandsEnd == Deadlines => \A c \in Cmds : <>(result[c] # "running")
=============================================================================
