--------------------------- MODULE PeerCliProofs ---------------------------
(***************************************************************************)
(* PeerCli for any commands, names, addresses and bounds.                  *)
(***************************************************************************)
EXTENDS PeerCli, TLAPS

Requesters == Goroutines \cup {Foreign}

-----------------------------------------------------------------------------
(* Names and leases.                                                       *)

\* Each goroutine belongs to one command and makes one peer.
LEMMA GoroutinesNamed ==
  /\ \A g \in Goroutines : g[1] \in Cmds /\ PeerOf(g) \in Peers
  /\ \A c \in Cmds : \A g : g \in Of(c) <=> g \in Goroutines /\ g[1] = c
<1>1. ASSUME NEW g \in Goroutines
      PROVE  g[1] \in Cmds /\ g \in Of(g[1]) /\ PeerOf(g) \in Peers
  <2>1. PICK c \in Cmds : g \in {c} \X DOMAIN Names[c]
    BY DEF Goroutines
  <2>2. g[1] = c /\ g[2] \in DOMAIN Names[c]
    BY <2>1
  <2>3. Names[c] \in Seq(Peers)
    BY NamesTyped
  <2>4. Names[c][g[2]] \in Peers
    BY <2>2, <2>3
  <2> QED
    BY <2>1, <2>2, <2>4 DEF Of, PeerOf
<1>2. ASSUME NEW c \in Cmds, NEW g \in Of(c)
      PROVE  g \in Goroutines /\ g[1] = c
  BY <1>2 DEF Of, Goroutines
<1> QED
  BY <1>1, <1>2

\* What a step of AddressLease does to the leases: one peer changes.
LEMMA LeaseSteps ==
  ASSUME TypeOK, NEW p \in Peers
  PROVE  /\ NoLease \notin Lease!Leases
         /\ \A spec \in Requesters :
              Lease!Request(p, spec) =>
                /\ lease[p] = NoLease /\ lease'[p] = [spec |-> spec, addrs |-> {}]
                /\ lease'[p] \in Lease!Leases /\ \A q \in Peers \ {p} : lease'[q] = lease[q]
                /\ lease' \in [Peers -> Lease!Leases \cup {NoLease}]
         /\ \A spec \in Requesters :
              Lease!Amend(p, spec) =>
                /\ lease[p] \in Lease!Leases /\ lease'[p] \in Lease!Leases
                /\ \A q \in Peers \ {p} : lease'[q] = lease[q]
                /\ lease' \in [Peers -> Lease!Leases \cup {NoLease}]
         /\ Lease!End(p) =>
              /\ lease[p] \in Lease!Leases /\ \A q \in Peers \ {p} : lease'[q] = lease[q]
              /\ lease' \in [Peers -> Lease!Leases \cup {NoLease}]
         /\ \A a \in Addrs :
              Lease!Assign(p, a) =>
                /\ lease[p] \in Lease!Leases /\ lease[p].addrs = {}
                /\ lease'[p] \in Lease!Leases
                /\ lease'[p].spec = lease[p].spec /\ lease'[p].addrs = {a}
                /\ \A q \in Peers \ {p} : lease'[q] = lease[q]
                /\ lease' \in [Peers -> Lease!Leases \cup {NoLease}]
<1>1. lease \in [Peers -> Lease!Leases \cup {NoLease}]
  BY DEF TypeOK
<1>2. ASSUME NEW spec \in Requesters
      PROVE  [spec |-> spec, addrs |-> {}] \in Lease!Leases
  BY DEF Requesters, Lease!Leases
<1>3. ASSUME NEW l \in Lease!Leases, NEW spec \in Requesters
      PROVE  [l EXCEPT !.spec = spec] \in Lease!Leases
  BY DEF Requesters, Lease!Leases
<1>4. ASSUME NEW l \in Lease!Leases, NEW a \in Addrs
      PROVE  /\ [l EXCEPT !.addrs = {a}] \in Lease!Leases
             /\ [l EXCEPT !.addrs = {a}].spec = l.spec
             /\ [l EXCEPT !.addrs = {a}].addrs = {a}
  BY DEF Lease!Leases
<1>5. ASSUME NEW spec \in Requesters, Lease!Request(p, spec)
      PROVE  /\ lease[p] = NoLease
             /\ lease' = [lease EXCEPT ![p] = [spec |-> spec, addrs |-> {}]]
  BY <1>5 DEF Lease!Request, Lease!Held
<1>6. ASSUME NEW spec \in Requesters, Lease!Amend(p, spec)
      PROVE  /\ lease[p] \in Lease!Leases
             /\ lease' = [lease EXCEPT ![p] = [lease[p] EXCEPT !.spec = spec]]
  BY <1>1, <1>6 DEF Lease!Amend, Lease!Held
<1>7. ASSUME Lease!End(p)
      PROVE  lease[p] \in Lease!Leases /\ lease' = [lease EXCEPT ![p] = NoLease]
  BY <1>1, <1>7 DEF Lease!End, Lease!Held
<1>8. ASSUME NEW a \in Addrs, Lease!Assign(p, a)
      PROVE  /\ lease[p] \in Lease!Leases /\ lease[p].addrs = {}
             /\ lease' = [lease EXCEPT ![p] = [lease[p] EXCEPT !.addrs = {a}]]
  BY <1>1, <1>8 DEF Lease!Assign, Lease!Held, Lease!Answered
<1>9. ASSUME NEW new, lease' = [lease EXCEPT ![p] = new], new \in Lease!Leases \cup {NoLease}
      PROVE  /\ lease'[p] = new /\ \A q \in Peers \ {p} : lease'[q] = lease[q]
             /\ lease' \in [Peers -> Lease!Leases \cup {NoLease}]
  BY <1>1, <1>9
<1>10. \A spec \in Requesters :
          Lease!Request(p, spec) =>
            /\ lease[p] = NoLease /\ lease'[p] = [spec |-> spec, addrs |-> {}]
            /\ lease'[p] \in Lease!Leases /\ \A q \in Peers \ {p} : lease'[q] = lease[q]
            /\ lease' \in [Peers -> Lease!Leases \cup {NoLease}]
  BY <1>2, <1>5, <1>9
<1>11. \A spec \in Requesters :
          Lease!Amend(p, spec) =>
            /\ lease[p] \in Lease!Leases /\ lease'[p] \in Lease!Leases
            /\ \A q \in Peers \ {p} : lease'[q] = lease[q]
            /\ lease' \in [Peers -> Lease!Leases \cup {NoLease}]
  BY <1>3, <1>6, <1>9
<1>12. Lease!End(p) =>
          /\ lease[p] \in Lease!Leases /\ \A q \in Peers \ {p} : lease'[q] = lease[q]
          /\ lease' \in [Peers -> Lease!Leases \cup {NoLease}]
  BY <1>7, <1>9
<1>13. ASSUME NEW a \in Addrs, Lease!Assign(p, a)
       PROVE  /\ lease[p] \in Lease!Leases /\ lease[p].addrs = {}
              /\ lease'[p] \in Lease!Leases
              /\ lease'[p].spec = lease[p].spec /\ lease'[p].addrs = {a}
              /\ \A q \in Peers \ {p} : lease'[q] = lease[q]
              /\ lease' \in [Peers -> Lease!Leases \cup {NoLease}]
  <2> DEFINE new == [lease[p] EXCEPT !.addrs = {a}]
  <2>1. lease[p] \in Lease!Leases /\ lease[p].addrs = {} /\ lease' = [lease EXCEPT ![p] = new]
    BY <1>8, <1>13
  <2>2. new \in Lease!Leases /\ new.spec = lease[p].spec /\ new.addrs = {a}
    BY <1>4, <2>1
  <2> HIDE DEF new
  <2>3. /\ lease'[p] = new /\ \A q \in Peers \ {p} : lease'[q] = lease[q]
        /\ lease' \in [Peers -> Lease!Leases \cup {NoLease}]
    BY <1>9, <2>1, <2>2
  <2> QED
    BY <2>1, <2>2, <2>3
<1>14. NoLease \notin Lease!Leases
  BY SentinelsApart DEF Lease!Leases
<1> QED
  BY <1>10, <1>11, <1>12, <1>13, <1>14

\* A sequence with one more element.
LEMMA Appended ==
  ASSUME NEW S, NEW old \in Seq(S), NEW x \in S
  PROVE  /\ Append(old, x) \in Seq(S) /\ Len(old) \in Nat /\ DOMAIN old = 1..Len(old)
         /\ DOMAIN Append(old, x) = 1..(Len(old) + 1)
         /\ Len(Append(old, x)) = Len(old) + 1 /\ Append(old, x) # <<>>
         /\ \A i \in DOMAIN old : Append(old, x)[i] = old[i]
         /\ Append(old, x)[Len(old) + 1] = x
<1>1. Append(old, x) \in Seq(S) /\ Len(old) \in Nat /\ DOMAIN old = 1..Len(old)
  OBVIOUS
<1>2. Len(Append(old, x)) = Len(old) + 1 /\ DOMAIN Append(old, x) = 1..(Len(old) + 1)
  OBVIOUS
<1>3. Append(old, x) # <<>>
  BY <1>1, <1>2
<1>4. \A i \in 1..Len(old) : Append(old, x)[i] = old[i]
  OBVIOUS
<1>5. Append(old, x)[Len(old) + 1] = x
  OBVIOUS
<1> QED
  BY <1>1, <1>2, <1>3, <1>4, <1>5

\* A change of p is the last event of p, and no other name has an event.
LEMMA Recorded ==
  ASSUME TypeOK, NEW p \in Peers, Record(p),
         lease' \in [Peers -> Lease!Leases \cup {NoLease}],
         \A q \in Peers \ {p} : lease'[q] = lease[q],
         lease[p] # NoLease \/ lease'[p] # NoLease
  PROVE  LET e == IF lease'[p] = NoLease THEN lease[p] ELSE lease'[p]
         IN  /\ log' \in [Peers -> Seq(Events)]
             /\ \A q \in Peers \ {p} : log'[q] = log[q]
             /\ Len(log[p]) \in Nat /\ DOMAIN log[p] = 1..Len(log[p])
             /\ DOMAIN log'[p] = 1..(Len(log[p]) + 1)
             /\ \A i \in DOMAIN log[p] : log'[p][i] = log[p][i]
             /\ log'[p][Len(log[p]) + 1].peer = e
             /\ \A q \in Peers : lease'[q] # NoLease =>
                  /\ log'[q] # <<>>
                  /\ log'[q][Len(log'[q])] = [peer |-> lease'[q], gone |-> FALSE]
             /\ \A q \in Peers : Len(log[q]) \in Nat /\ Len(log'[q]) \in Nat
                                 /\ Len(log[q]) <= Len(log'[q])
<1> DEFINE e == IF lease'[p] = NoLease THEN lease[p] ELSE lease'[p]
           event == [peer |-> e, gone |-> lease'[p] = NoLease]
           old == log[p]
<1>1. event \in Events /\ event.peer = e
  <2>1. e \in Lease!Leases
    BY DEF TypeOK
  <2> HIDE DEF e
  <2>2. (lease'[p] = NoLease) \in BOOLEAN
    OBVIOUS
  <2> QED
    BY <2>1, <2>2 DEF Events
<1>2. lease'[p] # NoLease => event = [peer |-> lease'[p], gone |-> FALSE]
  OBVIOUS
<1>3. log' = [log EXCEPT ![p] = Append(old, event)]
  <2>1. (IF lease'[p] = NoLease THEN [peer |-> lease[p], gone |-> TRUE]
                                ELSE [peer |-> lease'[p], gone |-> FALSE]) = event
    OBVIOUS
  <2> QED
    BY <2>1 DEF Record
<1> HIDE DEF event, e
<1>4. log \in [Peers -> Seq(Events)] /\ old \in Seq(Events)
  BY DEF TypeOK
<1> HIDE DEF old
<1>5. /\ Append(old, event) \in Seq(Events) /\ Len(old) \in Nat /\ DOMAIN old = 1..Len(old)
      /\ DOMAIN Append(old, event) = 1..(Len(old) + 1)
      /\ Len(Append(old, event)) = Len(old) + 1 /\ Append(old, event) # <<>>
      /\ \A i \in DOMAIN old : Append(old, event)[i] = old[i]
      /\ Append(old, event)[Len(old) + 1] = event
  BY <1>1, <1>4, Appended
<1>6. /\ log' \in [Peers -> Seq(Events)] /\ log'[p] = Append(old, event)
      /\ \A q \in Peers \ {p} : log'[q] = log[q]
  BY <1>3, <1>4, <1>5
<1>7. ASSUME NEW q \in Peers
      PROVE  /\ Len(log[q]) \in Nat /\ Len(log'[q]) \in Nat /\ Len(log[q]) <= Len(log'[q])
             /\ lease'[q] # NoLease =>
                  /\ log'[q] # <<>>
                  /\ log'[q][Len(log'[q])] = [peer |-> lease'[q], gone |-> FALSE]
  <2>1. CASE q = p
    <3>1. log[q] = old /\ log'[q] = Append(old, event)
      BY <1>6, <2>1 DEF old
    <3>2. Len(old) \in Nat /\ Len(log'[q]) = Len(old) + 1 /\ log'[q] # <<>>
      BY <1>5, <3>1
    <3>3. log'[q][Len(log'[q])] = event
      BY <1>5, <3>1, <3>2
    <3> QED
      BY <1>2, <2>1, <3>1, <3>2, <3>3
  <2>2. CASE q # p
    <3>1. log'[q] = log[q] /\ lease'[q] = lease[q] /\ log[q] \in Seq(Events)
      BY <1>4, <1>6, <2>2
    <3>2. Len(log[q]) \in Nat
      BY <3>1
    <3> QED
      BY <3>1, <3>2 DEF TypeOK, Lease!Held
  <2> QED
    BY <2>1, <2>2
<1> QED
  BY <1>1, <1>5, <1>6, <1>7 DEF old, e

-----------------------------------------------------------------------------
(* The invariant. A goroutine owns its peer from the answer to its Create   *)
(* until a user deletes or edits it.                                       *)

Own(g) == g \notin touched /\ step[g] \in {"created", "watch", "got"}

\* Of an event with the keys of g: it is older than the status, or it is the
\* peer as it is.
Recent(l, g) == l.addrs = {} \/ l = lease[PeerOf(g)]

\* What is so of the peer of g as long as g owns it.
Mine(g) ==
  /\ lease[PeerOf(g)] # NoLease /\ lease[PeerOf(g)].spec = g
  /\ \A i \in DOMAIN log[PeerOf(g)] :
       log[PeerOf(g)][i].peer.spec = g => Recent(log[PeerOf(g)][i].peer, g)
  /\ step[g] = "got" => got[g] = lease[PeerOf(g)].addrs \/ Older(g)

\* The keys of g are its own: no peer had them before it makes one.
Unused(g) == \A i \in DOMAIN log[PeerOf(g)] : log[PeerOf(g)][i].peer.spec # g

Known(g) ==
  /\ Own(g) => Mine(g)
  /\ step[g] = "create" => Unused(g)
  /\ result[g[1]] = "printed" => step[g] = "got"

IInv == TypeOK /\ \A g \in Goroutines : Known(g)

\* It holds at the start.
LEMMA InitKnown == Init => IInv
<1> SUFFICES ASSUME Init PROVE IInv
  OBVIOUS
<1>1. TypeOK
  BY BoundsTyped DEF Init, TypeOK, Steps, Lease!Held
<1>2. \A g \in Goroutines : Known(g)
  BY GoroutinesNamed DEF Init, Known, Own, Unused
<1> QED
  BY <1>1, <1>2 DEF IInv

\* What a step leaves alone stays known, also at the end of its command.
LEMMA FrameAtEnd ==
  ASSUME NEW g \in Goroutines, Known(g),
         step'[g] = step[g], log'[PeerOf(g)] = log[PeerOf(g)], got'[g] = got[g],
         lease'[PeerOf(g)] = lease[PeerOf(g)], touched \subseteq touched',
         result'[g[1]] = "printed" => step[g] = "got"
  PROVE  Known(g)'
<1>1. PeerOf(g)' = PeerOf(g)
  BY DEF PeerOf
<1>2. Mine(g)' <=> Mine(g)
  BY <1>1 DEF Mine, Recent, Older
<1>3. Unused(g)' <=> Unused(g)
  BY <1>1 DEF Unused
<1>4. Own(g)' => Own(g)
  BY DEF Own
<1> QED
  BY <1>2, <1>3, <1>4 DEF Known

\* What a step leaves alone stays known.
LEMMA Frame ==
  ASSUME NEW g \in Goroutines, Known(g),
         step'[g] = step[g], log'[PeerOf(g)] = log[PeerOf(g)], got'[g] = got[g],
         lease'[PeerOf(g)] = lease[PeerOf(g)],
         result'[g[1]] = result[g[1]], touched \subseteq touched'
  PROVE  Known(g)'
BY FrameAtEnd DEF Known

\* A goroutine that failed, or whose peer a user touched, knows nothing.
LEMMA NothingKnown ==
  ASSUME NEW g \in Goroutines, ~Own(g)', step'[g] # "create",
         result'[g[1]] = "printed" => step'[g] = "got"
  PROVE  Known(g)'
BY DEF Known

-----------------------------------------------------------------------------
(* One lemma for each action.                                              *)

\* The place of a watch is one of a log that only grows.
LEMMA TypeKept ==
  ASSUME TypeOK, UNCHANGED <<step, next>>,
         \A q \in Peers : Len(log[q]) \in Nat /\ Len(log'[q]) \in Nat /\ Len(log[q]) <= Len(log'[q])
  PROVE  \A g \in Goroutines :
           next'[g] \in IF step'[g] = "watch" THEN 1..(Len(log'[PeerOf(g)]) + 1) ELSE {0}
<1> SUFFICES ASSUME NEW g \in Goroutines
             PROVE  next[g] \in IF step[g] = "watch" THEN 1..(Len(log'[PeerOf(g)]) + 1) ELSE {0}
  OBVIOUS
<1>1. next[g] \in IF step[g] = "watch" THEN 1..(Len(log[PeerOf(g)]) + 1) ELSE {0}
  BY DEF TypeOK
<1>2. PeerOf(g) \in Peers
  BY GoroutinesNamed
<1> QED
  BY <1>1, <1>2

\* Keys that nobody has used yet are not those of the peer that is there.
LEMMA UnusedNow ==
  ASSUME TypeOK, NEW g \in Goroutines, Unused(g), lease[PeerOf(g)] # NoLease
  PROVE  lease[PeerOf(g)].spec # g
<1> DEFINE l == log[PeerOf(g)]
<1>1. PeerOf(g) \in Peers
  BY GoroutinesNamed
<1>2. l \in Seq(Events) /\ l # <<>> /\ l[Len(l)] = [peer |-> lease[PeerOf(g)], gone |-> FALSE]
  BY <1>1 DEF TypeOK, Lease!Held
<1>3. Len(l) \in DOMAIN l
  BY <1>2
<1> QED
  BY <1>2, <1>3 DEF Unused

\* Keys stay unused as long as the new event is of a peer with others.
LEMMA UnusedStill ==
  ASSUME NEW g \in Goroutines, NEW n, DOMAIN log'[PeerOf(g)] \subseteq DOMAIN log[PeerOf(g)] \cup {n},
         \A i \in DOMAIN log[PeerOf(g)] : log'[PeerOf(g)][i] = log[PeerOf(g)][i],
         log'[PeerOf(g)][n].peer.spec # g, Unused(g)
  PROVE  Unused(g)'
<1>1. PeerOf(g)' = PeerOf(g)
  BY DEF PeerOf
<1> QED
  BY <1>1 DEF Unused

\* The answer of the controller is the last event of the peer, and the first
\* with its keys that has a status.
LEMMA AssignStep ==
  ASSUME IInv, NEW p \in Peers, Assign(p)
  PROVE  IInv'
<1> DEFINE n == Len(log[p])
<1>1. PICK a \in Addrs : Lease!Assign(p, a)
  BY DEF Assign
<1>2. TypeOK /\ \A g \in Goroutines : Known(g)
  BY DEF IInv
<1>3. /\ lease[p] \in Lease!Leases /\ lease[p].addrs = {}
      /\ lease'[p] \in Lease!Leases
      /\ lease'[p].spec = lease[p].spec /\ lease'[p].addrs = {a}
      /\ \A q \in Peers \ {p} : lease'[q] = lease[q]
      /\ lease' \in [Peers -> Lease!Leases \cup {NoLease}]
  BY <1>1, <1>2, LeaseSteps
<1>4. NoLease \notin Lease!Leases
  BY <1>2, LeaseSteps
<1>5. UNCHANGED <<step, next, got, result, expired, touched, edits, faults>>
  BY DEF Assign
<1>6. /\ log' \in [Peers -> Seq(Events)]
      /\ \A q \in Peers \ {p} : log'[q] = log[q]
      /\ n \in Nat /\ DOMAIN log[p] = 1..n /\ DOMAIN log'[p] = 1..(n + 1)
      /\ \A i \in DOMAIN log[p] : log'[p][i] = log[p][i]
      /\ log'[p][n + 1].peer = lease'[p]
      /\ \A q \in Peers : lease'[q] # NoLease =>
           log'[q] # <<>> /\ log'[q][Len(log'[q])] = [peer |-> lease'[q], gone |-> FALSE]
      /\ \A q \in Peers : Len(log[q]) \in Nat /\ Len(log'[q]) \in Nat
                          /\ Len(log[q]) <= Len(log'[q])
  BY <1>2, <1>3, <1>4, Recorded DEF Assign
<1> HIDE DEF n
<1>7. TypeOK'
  BY <1>2, <1>3, <1>5, <1>6, TypeKept DEF TypeOK, Lease!Held
<1>8. ASSUME NEW g \in Goroutines
      PROVE  Known(g)'
  <2>1. CASE PeerOf(g) # p
    BY <2>1, <1>2, <1>3, <1>5, <1>6, GoroutinesNamed, Frame
  <2>2. CASE PeerOf(g) = p
    <3>1. PeerOf(g)' = p
      BY <2>2 DEF PeerOf
    <3>2. result'[g[1]] = "printed" => step'[g] = "got"
      BY <1>2, <1>5 DEF Known
    <3>3. step'[g] = "create" => Unused(g)'
      <4> SUFFICES ASSUME step[g] = "create" PROVE Unused(g)'
        BY <1>5
      <4>1. Unused(g) /\ lease[p].spec # g
        BY <1>2, <1>3, <1>4, <2>2, UnusedNow DEF Known
      <4>2. DOMAIN log'[p] \subseteq DOMAIN log[p] \cup {n + 1}
        BY <1>6
      <4>3. log'[p][n + 1].peer.spec # g
        BY <1>3, <1>6, <4>1
      <4> QED
        BY <1>6, <2>2, <4>1, <4>2, <4>3, UnusedStill
    <3>4. ASSUME Own(g)'
          PROVE  Mine(g)'
      <4>1. Own(g) /\ Mine(g)
        BY <1>2, <1>5, <3>4 DEF Known, Own
      <4>2. lease'[p] # NoLease /\ lease'[p].spec = g
        BY <1>3, <1>4, <2>2, <4>1 DEF Mine
      <4>3. ASSUME NEW i \in DOMAIN log'[p], log'[p][i].peer.spec = g
            PROVE  log'[p][i].peer.addrs = {} \/ log'[p][i].peer = lease'[p]
        <5>1. CASE i = n + 1
          BY <1>6, <5>1
        <5>2. CASE i # n + 1
          <6>1. i \in DOMAIN log[p] /\ log'[p][i] = log[p][i]
            BY <1>6, <5>2
          <6>2. Recent(log[p][i].peer, g)
            BY <2>2, <4>1, <4>3, <6>1 DEF Mine
          <6> QED
            BY <1>3, <2>2, <6>1, <6>2 DEF Recent
        <5> QED
          BY <5>1, <5>2
      <4>4. step[g] = "got" => Older(g)'
        <5> SUFFICES ASSUME step[g] = "got" PROVE Older(g)'
          OBVIOUS
        <5>1. got[g] # {} /\ got[g] = got'[g]
          BY <1>2, <1>5 DEF TypeOK
        <5>2. Older(g)
          BY <1>3, <2>2, <4>1, <5>1 DEF Mine
        <5>3. PICK i \in DOMAIN log[p] : log[p][i].peer.spec # g /\ log[p][i].peer.addrs = got[g]
          BY <2>2, <5>2 DEF Older
        <5>4. i \in DOMAIN log'[p] /\ log'[p][i] = log[p][i]
          BY <1>6
        <5> QED
          BY <3>1, <5>1, <5>3, <5>4 DEF Older
      <4> QED
        BY <1>5, <3>1, <4>2, <4>3, <4>4 DEF Mine, Recent
    <3> QED
      BY <3>2, <3>3, <3>4 DEF Known
  <2> QED
    BY <2>1, <2>2
<1> QED
  BY <1>7, <1>8 DEF IInv

\* Whoever had asked for a peer that a user touches, no longer owns it.
LEMMA OtherUserStep ==
  ASSUME IInv, NEW p \in Peers, OtherUser(p)
  PROVE  IInv'
<1> DEFINE n == Len(log[p])
           e == IF lease'[p] = NoLease THEN lease[p] ELSE lease'[p]
<1>1. TypeOK /\ \A g \in Goroutines : Known(g)
  BY DEF IInv
<1>2. Foreign \in Requesters /\ Foreign \notin Goroutines
  BY SentinelsApart DEF Requesters
<1>3. /\ \A q \in Peers \ {p} : lease'[q] = lease[q]
      /\ lease' \in [Peers -> Lease!Leases \cup {NoLease}]
      /\ lease[p] # NoLease \/ lease'[p] # NoLease
      /\ e.spec = Foreign \/ (lease[p] # NoLease /\ e.spec = lease[p].spec)
  <2>1. NoLease \notin Lease!Leases
    BY <1>1, LeaseSteps
  <2>2. CASE Lease!Request(p, Foreign)
    <3>1. /\ lease'[p] = [spec |-> Foreign, addrs |-> {}] /\ lease'[p] \in Lease!Leases
          /\ \A q \in Peers \ {p} : lease'[q] = lease[q]
          /\ lease' \in [Peers -> Lease!Leases \cup {NoLease}]
      BY <1>1, <1>2, <2>2, LeaseSteps
    <3>2. lease'[p].spec = Foreign /\ lease'[p] # NoLease
      BY <2>1, <3>1
    <3> QED
      BY <3>1, <3>2
  <2>3. CASE Lease!Amend(p, Foreign)
    <3>1. /\ lease[p] \in Lease!Leases /\ lease'[p] \in Lease!Leases
          /\ \A q \in Peers \ {p} : lease'[q] = lease[q]
          /\ lease' \in [Peers -> Lease!Leases \cup {NoLease}]
      BY <1>1, <1>2, <2>3, LeaseSteps
    <3>2. lease' = [lease EXCEPT ![p] = [lease[p] EXCEPT !.spec = Foreign]]
      BY <2>3 DEF Lease!Amend
    <3>3. lease'[p].spec = Foreign
      BY <1>1, <3>1, <3>2 DEF Lease!Leases, TypeOK
    <3> QED
      BY <2>1, <3>1, <3>3
  <2>4. CASE Lease!End(p)
    <3>1. lease'[p] = NoLease
      BY <1>1, <2>4 DEF Lease!End, TypeOK
    <3> QED
      BY <1>1, <2>1, <2>4, <3>1, LeaseSteps
  <2> QED
    BY <2>2, <2>3, <2>4 DEF OtherUser
<1>4. /\ UNCHANGED <<step, next, got, result, expired, faults>>
      /\ touched' = touched \cup {g \in Goroutines : PeerOf(g) = p /\ step[g] # "create"}
      /\ edits < MaxEdits /\ edits' = edits + 1
  BY DEF OtherUser
<1>5. /\ log' \in [Peers -> Seq(Events)]
      /\ \A q \in Peers \ {p} : log'[q] = log[q]
      /\ n \in Nat /\ DOMAIN log[p] = 1..n /\ DOMAIN log'[p] = 1..(n + 1)
      /\ \A i \in DOMAIN log[p] : log'[p][i] = log[p][i]
      /\ log'[p][n + 1].peer = e
      /\ \A q \in Peers : lease'[q] # NoLease =>
           log'[q] # <<>> /\ log'[q][Len(log'[q])] = [peer |-> lease'[q], gone |-> FALSE]
      /\ \A q \in Peers : Len(log[q]) \in Nat /\ Len(log'[q]) \in Nat
                          /\ Len(log[q]) <= Len(log'[q])
  BY <1>1, <1>3, Recorded DEF OtherUser
<1> HIDE DEF n, e
<1>6. TypeOK'
  <2>1. edits' \in 0..MaxEdits
    BY <1>1, <1>4, BoundsTyped DEF TypeOK
  <2>2. touched' \subseteq Goroutines
    BY <1>1, <1>4 DEF TypeOK
  <2> QED
    BY <1>1, <1>3, <1>4, <1>5, <2>1, <2>2, TypeKept DEF TypeOK, Lease!Held
<1>7. ASSUME NEW g \in Goroutines
      PROVE  Known(g)'
  <2>1. CASE PeerOf(g) # p
    BY <2>1, <1>1, <1>3, <1>4, <1>5, GoroutinesNamed, Frame
  <2>2. CASE PeerOf(g) = p /\ step[g] # "create"
    <3>1. ~Own(g)'
      BY <1>4, <2>2 DEF Own
    <3>2. result'[g[1]] = "printed" => step'[g] = "got"
      BY <1>1, <1>4 DEF Known
    <3> QED
      BY <1>4, <2>2, <3>1, <3>2, NothingKnown
  <2>3. CASE PeerOf(g) = p /\ step[g] = "create"
    <3>1. Unused(g) /\ (lease[p] # NoLease => lease[p].spec # g)
      BY <1>1, <2>3, UnusedNow DEF Known
    <3>2. e.spec # g
      BY <1>2, <1>3, <3>1
    <3>3. DOMAIN log'[p] \subseteq DOMAIN log[p] \cup {n + 1}
      BY <1>5
    <3>4. Unused(g)'
      BY <1>5, <2>3, <3>1, <3>2, <3>3, UnusedStill
    <3>5. ~Own(g)' /\ result'[g[1]] # "printed"
      BY <1>1, <1>4, <2>3 DEF Own, Known
    <3> QED
      BY <3>4, <3>5 DEF Known
  <2> QED
    BY <2>1, <2>2, <2>3
<1> QED
  BY <1>6, <1>7 DEF IInv

\* What changes when one goroutine makes a call: nobody else is disturbed.
LEMMA OthersKnown ==
  ASSUME IInv, NEW g \in Goroutines, NEW s, To(g, s),
         UNCHANGED <<lease, log, result, touched>>,
         \A h \in Goroutines \ {g} : got'[h] = got[h]
  PROVE  \A h \in Goroutines \ {g} : Known(h)'
<1> SUFFICES ASSUME NEW h \in Goroutines \ {g} PROVE Known(h)'
  OBVIOUS
<1>1. step'[h] = step[h]
  BY DEF To, IInv, TypeOK
<1>2. Known(h)
  BY DEF IInv
<1> QED
  BY <1>1, <1>2, Frame

\* A goroutine ends without an answer.
LEMMA Failed ==
  ASSUME IInv, NEW g \in Goroutines, To(g, "failed"), Running(g),
         UNCHANGED <<lease, log, got, result, expired, touched, edits>>,
         next' = [next EXCEPT ![g] = 0], faults' \in 0..MaxFaults
  PROVE  IInv'
<1>1. TypeOK /\ (\A h \in Goroutines : Known(h))
  BY DEF IInv
<1>2. /\ step' \in [Goroutines -> Steps] /\ step'[g] = "failed"
      /\ \A h \in Goroutines \ {g} : step'[h] = step[h]
  BY <1>1 DEF To, TypeOK, Steps
<1>3. TypeOK'
  <2>1. next' \in [Goroutines -> Nat] /\ next'[g] = 0 /\ \A h \in Goroutines \ {g} : next'[h] = next[h]
    BY <1>1 DEF TypeOK
  <2>2. \A h \in Goroutines :
          next'[h] \in IF step'[h] = "watch" THEN 1..(Len(log'[PeerOf(h)]) + 1) ELSE {0}
    BY <1>1, <1>2, <2>1 DEF TypeOK
  <2>3. \A h \in Goroutines : step'[h] = "got" => got'[h] # {}
    BY <1>1, <1>2 DEF TypeOK
  <2> QED
    BY <1>1, <1>2, <2>1, <2>2, <2>3 DEF TypeOK, Lease!Held
<1>4. Known(g)'
  BY <1>2, NothingKnown DEF Own, Running
<1>5. \A h \in Goroutines \ {g} : Known(h)'
  BY OthersKnown
<1> QED
  BY <1>3, <1>4, <1>5 DEF IInv

\* A peer is created only where there is none, so nobody owned it; and whoever
\* is still to create one has other keys.
LEMMA Created ==
  ASSUME IInv, NEW g \in Goroutines, NEW s \in {"created", "failed"},
         step[g] = "create", Running(g), Create(g), To(g, s),
         UNCHANGED <<next, got, result, expired, touched, edits>>, faults' \in 0..MaxFaults
  PROVE  IInv'
<1> DEFINE p == PeerOf(g)
           n == Len(log[p])
<1>1. TypeOK /\ (\A h \in Goroutines : Known(h)) /\ p \in Peers
  BY GoroutinesNamed DEF IInv
<1>2. /\ step' \in [Goroutines -> Steps] /\ step'[g] = s
      /\ \A h \in Goroutines \ {g} : step'[h] = step[h]
  BY <1>1 DEF To, TypeOK, Steps
<1>3. /\ lease[p] = NoLease /\ lease'[p] = [spec |-> g, addrs |-> {}]
      /\ lease'[p] \in Lease!Leases /\ NoLease \notin Lease!Leases
      /\ \A q \in Peers \ {p} : lease'[q] = lease[q]
      /\ lease' \in [Peers -> Lease!Leases \cup {NoLease}]
  <2>1. g \in Requesters /\ Lease!Request(p, g)
    BY DEF Requesters, Create
  <2> QED
    BY <1>1, <2>1, LeaseSteps
<1>4. /\ log' \in [Peers -> Seq(Events)]
      /\ \A q \in Peers \ {p} : log'[q] = log[q]
      /\ n \in Nat /\ DOMAIN log[p] = 1..n /\ DOMAIN log'[p] = 1..(n + 1)
      /\ \A i \in DOMAIN log[p] : log'[p][i] = log[p][i]
      /\ log'[p][n + 1].peer = lease'[p]
      /\ \A q \in Peers : lease'[q] # NoLease =>
           log'[q] # <<>> /\ log'[q][Len(log'[q])] = [peer |-> lease'[q], gone |-> FALSE]
      /\ \A q \in Peers : Len(log[q]) \in Nat /\ Len(log'[q]) \in Nat
                          /\ Len(log[q]) <= Len(log'[q])
  <2>1. Record(p)
    BY DEF Create
  <2> QED
    BY <1>1, <1>3, <2>1, Recorded
<1>5. lease'[p].spec = g /\ lease'[p].addrs = {} /\ lease'[p] # NoLease
  BY <1>3
<1> HIDE DEF p, n
<1>6. TypeOK'
  <2>1. \A h \in Goroutines :
          next'[h] \in IF step'[h] = "watch" THEN 1..(Len(log'[PeerOf(h)]) + 1) ELSE {0}
    <3> SUFFICES ASSUME NEW h \in Goroutines
                 PROVE  next[h] \in IF step'[h] = "watch" THEN 1..(Len(log'[PeerOf(h)]) + 1) ELSE {0}
      OBVIOUS
    <3>1. next[h] \in IF step[h] = "watch" THEN 1..(Len(log[PeerOf(h)]) + 1) ELSE {0}
      BY <1>1 DEF TypeOK
    <3>2. (step'[h] = "watch") <=> (step[h] = "watch")
      BY <1>2
    <3> QED
      BY <1>4, <3>1, <3>2, GoroutinesNamed
  <2>2. \A h \in Goroutines : step'[h] = "got" => got'[h] # {}
    BY <1>1, <1>2 DEF TypeOK
  <2> QED
    BY <1>1, <1>2, <1>3, <1>4, <2>1, <2>2 DEF TypeOK, Lease!Held
<1>7. Known(g)'
  <2>1. PeerOf(g)' = p
    BY DEF PeerOf, p
  <2>2. result'[g[1]] # "printed" /\ step'[g] # "create" /\ step'[g] # "got"
    BY <1>2 DEF Running
  <2>3. \A i \in DOMAIN log'[p] :
          log'[p][i].peer.spec = g => log'[p][i].peer.addrs = {}
    <3> SUFFICES ASSUME NEW i \in DOMAIN log'[p], log'[p][i].peer.spec = g
                 PROVE  log'[p][i].peer.addrs = {}
      OBVIOUS
    <3>1. CASE i = n + 1
      BY <1>4, <1>5, <3>1
    <3>2. CASE i # n + 1
      <4>1. i \in DOMAIN log[p] /\ log'[p][i] = log[p][i]
        BY <1>4, <3>2
      <4>2. Unused(g)
        BY <1>1 DEF Known
      <4> QED
        BY <4>1, <4>2 DEF Unused, p
    <3> QED
      BY <3>1, <3>2
  <2>4. Mine(g)'
    BY <1>5, <2>1, <2>2, <2>3 DEF Mine, Recent
  <2> QED
    BY <2>2, <2>4 DEF Known
<1>8. ASSUME NEW h \in Goroutines \ {g}
      PROVE  Known(h)'
  <2>1. step'[h] = step[h] /\ Known(h)
    BY <1>1, <1>2
  <2>2. CASE PeerOf(h) # p
    BY <1>3, <1>4, <2>1, <2>2, GoroutinesNamed, Frame
  <2>3. CASE PeerOf(h) = p
    <3>1. ~Own(h)
      BY <1>3, <2>1, <2>3 DEF Known, Mine
    <3>2. ~Own(h)' /\ (result'[h[1]] = "printed" => step'[h] = "got")
      BY <2>1, <3>1 DEF Own, Known
    <3>3. step[h] = "create" => Unused(h)'
      <4>1. DOMAIN log'[p] \subseteq DOMAIN log[p] \cup {n + 1}
        BY <1>4
      <4>2. log'[p][n + 1].peer.spec # h
        BY <1>4, <1>5
      <4> QED
        BY <1>4, <2>1, <2>3, <4>1, <4>2, UnusedStill DEF Known
    <3> QED
      BY <2>1, <3>2, <3>3 DEF Known
  <2> QED
    BY <2>2, <2>3
<1> QED
  BY <1>6, <1>7, <1>8 DEF IInv

\* A call that creates, or one that fails.
LEMMA CreateStep ==
  ASSUME IInv, NEW g \in Goroutines, CreatePeer(g)
  PROVE  IInv'
<1>1. step[g] = "create" /\ Running(g) /\ UNCHANGED <<next, got, result, expired, touched, edits>>
  BY DEF CreatePeer
<1>2. faults' \in 0..MaxFaults
  BY BoundsTyped DEF CreatePeer, Fault, IInv, TypeOK
<1>3. CASE Create(g) /\ (To(g, "created") \/ To(g, "failed"))
  BY <1>1, <1>2, <1>3, Created
<1>4. CASE To(g, "failed") /\ UNCHANGED <<lease, log>>
  <2>1. next' = [next EXCEPT ![g] = 0]
    BY <1>1 DEF IInv, TypeOK
  <2> QED
    BY <1>1, <1>2, <1>4, <2>1, Failed
<1> QED
  BY <1>3, <1>4 DEF CreatePeer

\* Wherever a watch begins, its place is one of the log.
LEMMA StartWatchStep ==
  ASSUME IInv, NEW g \in Goroutines, StartWatch(g)
  PROVE  IInv'
<1> DEFINE p == PeerOf(g)
<1>1. TypeOK /\ (\A h \in Goroutines : Known(h)) /\ p \in Peers
  BY GoroutinesNamed DEF IInv
<1>2. /\ step[g] = "created" /\ Running(g)
      /\ UNCHANGED <<lease, log, got, result, expired, touched, edits>>
  BY DEF StartWatch
<1>3. faults' \in 0..MaxFaults
  BY <1>1, BoundsTyped DEF StartWatch, Fault, TypeOK
<1>4. ASSUME NEW i \in Starts(p), next' = [next EXCEPT ![g] = i], To(g, "watch")
      PROVE  IInv'
  <2>1. i \in 1..(Len(log[p]) + 1) /\ i \in Nat
    <3>1. log[p] \in Seq(Events)
      BY <1>1 DEF TypeOK
    <3>2. DOMAIN log[p] = 1..Len(log[p]) /\ Len(log[p]) \in Nat
      BY <3>1
    <3>3. i \in DOMAIN log[p] \cup {Len(log[p]) + 1}
      BY DEF Starts
    <3> QED
      BY <3>2, <3>3
  <2>2. /\ step' \in [Goroutines -> Steps] /\ step'[g] = "watch"
        /\ \A h \in Goroutines \ {g} : step'[h] = step[h]
    BY <1>1, <1>4 DEF To, TypeOK, Steps
  <2>3. next' \in [Goroutines -> Nat] /\ next'[g] = i /\ \A h \in Goroutines \ {g} : next'[h] = next[h]
    BY <1>1, <1>4, <2>1 DEF TypeOK
  <2>4. \A h \in Goroutines :
          next'[h] \in IF step'[h] = "watch" THEN 1..(Len(log'[PeerOf(h)]) + 1) ELSE {0}
    BY <1>1, <1>2, <2>1, <2>2, <2>3 DEF TypeOK
  <2>5. TypeOK'
    <3>1. \A h \in Goroutines : step'[h] = "got" => got'[h] # {}
      BY <1>1, <1>2, <2>2 DEF TypeOK
    <3> QED
      BY <1>1, <1>2, <1>3, <2>2, <2>3, <2>4, <3>1 DEF TypeOK, Lease!Held
  <2>6. Known(g)'
    <3>1. result'[g[1]] # "printed" /\ step'[g] = "watch"
      BY <1>2, <2>2 DEF Running
    <3>2. Own(g)' => Mine(g)
      BY <1>1, <1>2 DEF Own, Known
    <3>3. Mine(g) => Mine(g)'
      BY <1>2, <2>2 DEF Mine, Recent, PeerOf
    <3> QED
      BY <3>1, <3>2, <3>3 DEF Known
  <2>7. \A h \in Goroutines \ {g} : Known(h)'
    BY <1>2, <1>4, OthersKnown
  <2> QED
    BY <2>5, <2>6, <2>7 DEF IInv
<1>5. CASE To(g, "failed") /\ UNCHANGED next
  <2>1. next' = [next EXCEPT ![g] = 0]
    BY <1>1, <1>2, <1>5 DEF TypeOK
  <2> QED
    BY <1>2, <1>3, <1>5, <2>1, Failed
<1> QED
  BY <1>4, <1>5 DEF StartWatch

\* What a goroutine returns is an event with a status. If it has the keys of
\* the goroutine, it is the peer as it is; if not, it is of another peer.
LEMMA SeeStep ==
  ASSUME IInv, NEW g \in Goroutines, See(g)
  PROVE  IInv'
<1> DEFINE p == PeerOf(g)
           i == next[g]
           e == log[p][i].peer
<1>1. TypeOK /\ (\A h \in Goroutines : Known(h)) /\ p \in Peers
  BY GoroutinesNamed DEF IInv
<1>2. /\ step[g] = "watch" /\ Running(g) /\ i \in DOMAIN log[p]
      /\ UNCHANGED <<lease, log, result, expired, touched, edits, faults>>
  BY DEF See
<1>3. log[p] \in Seq(Events) /\ i \in 1..Len(log[p]) /\ Len(log[p]) \in Nat /\ e \in Lease!Leases
  <2>1. log[p] \in Seq(Events)
    BY <1>1 DEF TypeOK
  <2>2. DOMAIN log[p] = 1..Len(log[p]) /\ Len(log[p]) \in Nat /\ log[p][i] \in Events
    BY <1>2, <2>1
  <2> QED
    BY <1>2, <2>1, <2>2 DEF Events
<1>4. CASE HasStatus(e)
  <2>1. got' = [got EXCEPT ![g] = e.addrs] /\ next' = [next EXCEPT ![g] = 0] /\ To(g, "got")
    BY <1>4 DEF See
  <2>2. /\ step' \in [Goroutines -> Steps] /\ step'[g] = "got"
        /\ \A h \in Goroutines \ {g} : step'[h] = step[h]
    BY <1>1, <2>1 DEF To, TypeOK, Steps
  <2>3. e.addrs \in SUBSET Addrs /\ e.addrs # {}
    BY <1>3, <1>4 DEF Lease!Leases, HasStatus
  <2>4. /\ got' \in [Goroutines -> SUBSET Addrs] /\ got'[g] = e.addrs
        /\ \A h \in Goroutines \ {g} : got'[h] = got[h]
    BY <1>1, <2>1, <2>3 DEF TypeOK
  <2>5. next' \in [Goroutines -> Nat] /\ next'[g] = 0 /\ \A h \in Goroutines \ {g} : next'[h] = next[h]
    BY <1>1, <2>1 DEF TypeOK
  <2>6. TypeOK'
    <3>1. \A h \in Goroutines : step'[h] = "got" => got'[h] # {}
      BY <1>1, <2>2, <2>3, <2>4 DEF TypeOK
    <3>2. \A h \in Goroutines :
            next'[h] \in IF step'[h] = "watch" THEN 1..(Len(log'[PeerOf(h)]) + 1) ELSE {0}
      BY <1>1, <1>2, <2>2, <2>5 DEF TypeOK
    <3> QED
      BY <1>1, <1>2, <2>2, <2>4, <2>5, <3>1, <3>2 DEF TypeOK, Lease!Held
  <2>7. Known(g)'
    <3>1. PeerOf(g)' = p
      BY DEF PeerOf
    <3>2. ASSUME Own(g)'
          PROVE  Mine(g)'
      <4>1. Own(g) /\ Mine(g)
        BY <1>1, <1>2, <3>2 DEF Own, Known
      <4>2. CASE e.spec = g
        <5>1. e = lease[p]
          BY <1>2, <2>3, <4>1, <4>2 DEF Mine, Recent
        <5> QED
          BY <1>2, <2>4, <3>1, <4>1, <5>1 DEF Mine, Recent
      <4>3. CASE e.spec # g
        <5>1. Older(g)'
          BY <1>2, <2>4, <3>1, <4>3 DEF Older
        <5> QED
          BY <1>2, <3>1, <4>1, <5>1 DEF Mine, Recent
      <4> QED
        BY <4>2, <4>3
    <3> QED
      BY <2>2, <3>2 DEF Known
  <2>8. \A h \in Goroutines \ {g} : Known(h)'
    BY <1>2, <2>1, <2>4, OthersKnown
  <2> QED
    BY <2>6, <2>7, <2>8 DEF IInv
<1>5. CASE ~HasStatus(e)
  <2>1. next' = [next EXCEPT ![g] = i + 1] /\ UNCHANGED <<step, got>>
    BY <1>5 DEF See
  <2> HIDE DEF i
  <2>2. /\ next' \in [Goroutines -> Nat] /\ next'[g] = i + 1
        /\ \A h \in Goroutines \ {g} : next'[h] = next[h]
    BY <1>1, <1>3, <2>1 DEF TypeOK
  <2>3. i + 1 \in 1..(Len(log[p]) + 1)
    BY <1>3
  <2>4. \A h \in Goroutines :
          next'[h] \in IF step'[h] = "watch" THEN 1..(Len(log'[PeerOf(h)]) + 1) ELSE {0}
    BY <1>1, <1>2, <2>1, <2>2, <2>3 DEF TypeOK
  <2>5. TypeOK'
    BY <1>1, <1>2, <2>1, <2>2, <2>4 DEF TypeOK, Lease!Held
  <2>6. \A h \in Goroutines : Known(h)'
    <3>1. ASSUME NEW h \in Goroutines
          PROVE  Known(h)'
      BY <1>1, <1>2, <2>1, Frame
    <3> QED
      BY <3>1
  <2> QED
    BY <2>5, <2>6 DEF IInv
<1> QED
  BY <1>4, <1>5

\* A watch that ends makes its goroutine fail.
LEMMA WatchEndsStep ==
  ASSUME IInv, NEW g \in Goroutines, WatchEnds(g)
  PROVE  IInv'
<1>1. faults' \in 0..MaxFaults
  BY BoundsTyped DEF WatchEnds, Closed, Fault, IInv, TypeOK
<1> QED
  BY <1>1, Failed DEF WatchEnds

\* A deadline that passes changes nothing by itself.
LEMMA ExpireStep ==
  ASSUME IInv, NEW c \in Cmds, Expire(c)
  PROVE  IInv'
<1>1. TypeOK /\ (\A h \in Goroutines : Known(h))
  BY DEF IInv
<1>2. /\ expired' = expired \cup {c}
      /\ UNCHANGED <<lease, log, step, next, got, result, touched, edits, faults>>
  BY DEF Expire
<1>3. TypeOK'
  BY <1>1, <1>2 DEF TypeOK, Lease!Held
<1>4. \A h \in Goroutines : Known(h)'
  <2>1. ASSUME NEW h \in Goroutines
        PROVE  Known(h)'
    BY <1>1, <1>2, Frame
  <2> QED
    BY <2>1
<1> QED
  BY <1>3, <1>4 DEF IInv

\* A command prints only when every goroutine of it has an answer.
LEMMA FinishStep ==
  ASSUME IInv, NEW c \in Cmds, Finish(c)
  PROVE  IInv'
<1>1. TypeOK /\ (\A h \in Goroutines : Known(h))
  BY DEF IInv
<1>2. /\ result' = [result EXCEPT ![c] = Outcome(c)]
      /\ UNCHANGED <<lease, log, step, next, got, expired, touched, edits, faults>>
  BY DEF Finish
<1>3. Outcome(c) \in {"printed", "error"}
  BY DEF Outcome
<1>4. /\ result' \in [Cmds -> {"running", "printed", "error"}] /\ result'[c] = Outcome(c)
      /\ \A d \in Cmds \ {c} : result'[d] = result[d]
  BY <1>1, <1>2, <1>3 DEF TypeOK
<1>5. TypeOK'
  BY <1>1, <1>2, <1>4 DEF TypeOK, Lease!Held
<1>6. ASSUME NEW h \in Goroutines
      PROVE  Known(h)'
  <2>1. CASE h[1] # c
    BY <1>1, <1>2, <1>4, <2>1, GoroutinesNamed, Frame
  <2>2. CASE h[1] = c
    <3>1. h \in Of(c)
      BY <2>2, GoroutinesNamed
    <3>2. result'[h[1]] = "printed" => step[h] = "got"
      BY <1>4, <2>2, <3>1 DEF Outcome
    <3> QED
      BY <1>1, <1>2, <3>2, FrameAtEnd
  <2> QED
    BY <2>1, <2>2
<1> QED
  BY <1>5, <1>6 DEF IInv

\* A command that is killed prints nothing, and its goroutines are gone.
LEMMA KillStep ==
  ASSUME IInv, NEW c \in Cmds, Kill(c)
  PROVE  IInv'
<1>1. TypeOK /\ (\A h \in Goroutines : Known(h))
  BY DEF IInv
<1>2. /\ result' = [result EXCEPT ![c] = "error"]
      /\ next' = [g \in Goroutines |-> IF g \in Of(c) THEN 0 ELSE next[g]]
      /\ step' = [g \in Goroutines |-> IF g \in Of(c) THEN "failed" ELSE step[g]]
      /\ UNCHANGED <<lease, log, got, expired, touched, edits>>
  BY DEF Kill
<1>3. faults' \in 0..MaxFaults
  BY <1>1, BoundsTyped DEF Kill, Fault, TypeOK
<1>4. /\ result' \in [Cmds -> {"running", "printed", "error"}] /\ result'[c] = "error"
      /\ \A d \in Cmds \ {c} : result'[d] = result[d]
  BY <1>1, <1>2 DEF TypeOK
<1>5. /\ next' \in [Goroutines -> Nat] /\ step' \in [Goroutines -> Steps]
      /\ \A h \in Goroutines :
           IF h \in Of(c) THEN next'[h] = 0 /\ step'[h] = "failed"
                          ELSE next'[h] = next[h] /\ step'[h] = step[h]
  BY <1>1, <1>2 DEF TypeOK, Steps
<1>6. TypeOK'
  <2>1. \A h \in Goroutines :
          next'[h] \in IF step'[h] = "watch" THEN 1..(Len(log'[PeerOf(h)]) + 1) ELSE {0}
    BY <1>1, <1>2, <1>5 DEF TypeOK
  <2>2. \A h \in Goroutines : step'[h] = "got" => got'[h] # {}
    BY <1>1, <1>2, <1>5 DEF TypeOK
  <2> QED
    BY <1>1, <1>2, <1>3, <1>4, <1>5, <2>1, <2>2 DEF TypeOK, Lease!Held
<1>7. ASSUME NEW h \in Goroutines
      PROVE  Known(h)'
  <2>1. CASE h[1] # c
    <3>1. h \notin Of(c) /\ h[1] \in Cmds
      BY <2>1, GoroutinesNamed
    <3> QED
      BY <1>1, <1>2, <1>4, <1>5, <2>1, <3>1, Frame
  <2>2. CASE h[1] = c
    <3>1. h \in Of(c)
      BY <2>2, GoroutinesNamed
    <3> QED
      BY <1>4, <1>5, <2>2, <3>1, NothingKnown DEF Own
  <2> QED
    BY <2>1, <2>2
<1> QED
  BY <1>6, <1>7 DEF IInv

-----------------------------------------------------------------------------
(* The theorems.                                                           *)

\* The invariant is inductive.
LEMMA Inductive == IInv /\ [Next]_vars => IInv'
<1> SUFFICES ASSUME IInv, [Next]_vars PROVE IInv'
  OBVIOUS
<1>1. CASE \E p \in Peers : Assign(p) \/ OtherUser(p)
  BY <1>1, AssignStep, OtherUserStep
<1>2. CASE \E g \in Goroutines : CreatePeer(g) \/ StartWatch(g) \/ See(g) \/ WatchEnds(g)
  BY <1>2, CreateStep, StartWatchStep, SeeStep, WatchEndsStep
<1>3. CASE \E c \in Cmds : Expire(c) \/ Finish(c) \/ Kill(c)
  BY <1>3, ExpireStep, FinishStep, KillStep
<1>4. CASE UNCHANGED vars
  <2>1. TypeOK'
    BY <1>4 DEF IInv, TypeOK, vars, Lease!Held
  <2>2. ASSUME NEW g \in Goroutines
        PROVE  Known(g)'
    BY <1>4, Frame DEF IInv, vars
  <2> QED
    BY <2>1, <2>2 DEF IInv
<1> QED
  BY <1>1, <1>2, <1>3, <1>4 DEF Next

\* It holds in every reachable state.
LEMMA Invariant == Spec => []IInv
<1> QED
  BY InitKnown, Inductive, PTL DEF Spec

\* The types, for any number of commands, names, edits and failures.
THEOREM Typed == Spec => []TypeOK
<1>1. IInv => TypeOK
  BY DEF IInv
<1> QED
  BY <1>1, Invariant, PTL

\* A peer in a printed configuration exists with the keys that were printed,
\* until a user deletes or edits it. The addresses are its own, unless they are
\* those of a peer that had the same name and other keys.
THEOREM PrintedHeld == Spec => []PrintedIsHeld
<1>1. ASSUME IInv PROVE PrintedIsHeld
  <2> SUFFICES ASSUME NEW g \in Goroutines, Printed(g)
               PROVE  /\ Lease!Held(PeerOf(g)) /\ lease[PeerOf(g)].spec = g
                      /\ got[g] = lease[PeerOf(g)].addrs \/ Older(g)
    BY DEF PrintedIsHeld
  <2>1. Own(g) /\ step[g] = "got"
    BY <1>1 DEF IInv, Known, Own, Printed
  <2>2. Mine(g)
    BY <1>1, <2>1 DEF IInv, Known
  <2> QED
    BY <2>1, <2>2 DEF Mine, Lease!Held
<1> QED
  BY <1>1, Invariant, PTL
=============================================================================
