----------------------------- MODULE KubeProofs -----------------------------
(***************************************************************************)
(* What one kind of object guarantees to whoever uses it, for any names    *)
(* and contents: the steps of module Kube keep every copy faithful to the  *)
(* server's versions, and only a write makes a copy that was not there.    *)
(***************************************************************************)
EXTENDS Kube, TLAPS

\* A write puts a copy of the next version into the store and the stream.
LEMMA WriteTyped ==
  ASSUME TypeOK, NEW n \in Names, NEW val \in Values \cup {Absent}, Write(n, val)
  PROVE  /\ store' \in [Names -> Copy]
         /\ stream' \in Seq(Event)
         /\ store'[n] = [ver |-> store[n].ver + 1, val |-> val]
         /\ \A m \in Names \ {n} : store'[m] = store[m]
         /\ \E c \in Copy : c = store'[n] /\ stream' = Append(stream, [name |-> n, copy |-> c])
<1> DEFINE c == [ver |-> store[n].ver + 1, val |-> val]
<1>1. c \in Copy
  BY DEF TypeOK, Copy
<1>2. /\ store' = [store EXCEPT ![n] = c]
      /\ stream' = Append(stream, [name |-> n, copy |-> c])
  BY DEF Write
<1>3. store'[n] = c
  BY <1>2 DEF TypeOK
<1>4. [name |-> n, copy |-> c] \in Event
  BY <1>1 DEF Event
<1> HIDE DEF c
<1>5. stream' \in Seq(Event)
  BY <1>2, <1>4 DEF TypeOK
<1>6. store' \in [Names -> Copy] /\ \A m \in Names \ {n} : store'[m] = store[m]
  BY <1>1, <1>2 DEF TypeOK
<1> QED
  BY <1>1, <1>2, <1>3, <1>5, <1>6 DEF c

\* The ways a step can touch the store: one object is written, or none is.
LEMMA NextWrites ==
  ASSUME TypeOK, [Next]_vars
  PROVE  \/ /\ \E n \in Names, val \in Values \cup {Absent} : Write(n, val)
            /\ cache' = cache
            /\ queue' \in SUBSET Names
         \/ /\ store' = store
            /\ stream' = stream
            /\ cache' = cache
            /\ queue' \in SUBSET Names
         \/ Arrive /\ queue' \in SUBSET Names
         \/ List /\ queue' \in SUBSET Names
<1>1. CASE UNCHANGED vars
  BY <1>1 DEF vars, TypeOK
<1>2. CASE Next
  BY <1>2 DEF Next, Create, Update, Delete, TypeOK
<1> QED
  BY <1>1, <1>2

\* Every step keeps the types of Kube.
LEMMA TypeStep ==
  ASSUME TypeOK, [Next]_vars
  PROVE  TypeOK'
<1>1. CASE /\ \E n \in Names, val \in Values \cup {Absent} : Write(n, val)
           /\ cache' = cache
           /\ queue' \in SUBSET Names
  BY <1>1, WriteTyped DEF TypeOK
<1>2. CASE /\ store' = store
           /\ stream' = stream
           /\ cache' = cache
           /\ queue' \in SUBSET Names
  BY <1>2 DEF TypeOK
<1>3. CASE Arrive /\ queue' \in SUBSET Names
  <2>1. Head(stream) \in Event /\ Tail(stream) \in Seq(Event)
    BY <1>3 DEF Arrive, TypeOK
  <2> QED
    BY <1>3, <2>1 DEF Arrive, TypeOK, Event
<1>4. CASE List /\ queue' \in SUBSET Names
  BY <1>4 DEF List, TypeOK, Present
<1> QED
  BY <1>1, <1>2, <1>3, <1>4, NextWrites

\* No step makes up a copy: what is anywhere after it was somewhere before, or
\* is what the store holds now.
LEMMA CopiesGrow ==
  ASSUME TypeOK, [Next]_vars
  PROVE  Copies' \subseteq Copies \cup Current'
<1>1. CASE /\ \E n \in Names, val \in Values \cup {Absent} : Write(n, val)
           /\ cache' = cache
  <2>1. PICK n \in Names, c \in Copy :
           c = store'[n] /\ stream' = Append(stream, [name |-> n, copy |-> c])
    BY <1>1, WriteTyped
  <2>2. ASSUME NEW i \in 1..Len(stream')
        PROVE  stream'[i] \in {stream[j] : j \in 1..Len(stream)} \cup Current'
    <3>1. CASE i = Len(stream) + 1
      BY <2>1, <3>1 DEF TypeOK, Current
    <3>2. CASE i # Len(stream) + 1
      <4>1. i \in 1..Len(stream) /\ stream'[i] = stream[i]
        BY <2>1, <3>2 DEF TypeOK
      <4> QED
        BY <4>1
    <3> QED
      BY <3>1, <3>2
  <2> QED
    BY <1>1, <2>2 DEF Copies
<1>2. CASE store' = store /\ stream' = stream /\ cache' = cache
  BY <1>2 DEF Copies, Current
<1>3. CASE Arrive /\ queue' \in SUBSET Names
  <2>1. stream # <<>> /\ store' = store /\ stream' = Tail(stream)
        /\ cache' = [cache EXCEPT ![Head(stream).name] = Head(stream).copy]
    BY <1>3 DEF Arrive
  <2>2. /\ stream \in Seq(Event) /\ Head(stream) = stream[1] /\ 1 \in 1..Len(stream)
        /\ Head(stream) \in Event
    BY <2>1 DEF TypeOK
  <2>3. ASSUME NEW i \in 1..Len(stream')
        PROVE  stream'[i] \in {stream[j] : j \in 1..Len(stream)}
    <3>1. i + 1 \in 1..Len(stream) /\ stream'[i] = stream[i + 1]
      BY <2>1, <2>2
    <3> QED
      BY <3>1
  <2>4. ASSUME NEW n \in Names
        PROVE  [name |-> n, copy |-> cache'[n]] \in Copies
    <3>1. CASE n = Head(stream).name
      <4>1. [name |-> n, copy |-> cache'[n]] = stream[1]
        BY <2>1, <2>2, <3>1 DEF TypeOK, Event
      <4> QED
        BY <2>2, <4>1 DEF Copies
    <3>2. CASE n # Head(stream).name
      BY <2>1, <3>2 DEF TypeOK, Copies
    <3> QED
      BY <3>1, <3>2
  <2>5. Current' = Current /\ Current \subseteq Copies
    BY <2>1 DEF Current, Copies
  <2>6. {stream'[i] : i \in 1..Len(stream')} \subseteq Copies
    BY <2>3 DEF Copies
  <2>7. {[name |-> n, copy |-> cache'[n]] : n \in Names} \subseteq Copies
    BY <2>4
  <2> QED
    BY <2>5, <2>6, <2>7 DEF Copies
<1>4. CASE List /\ queue' \in SUBSET Names
  <2>1. stream' = <<>> /\ cache' = store /\ store' = store
    BY <1>4 DEF List
  <2>2. {stream'[i] : i \in 1..Len(stream')} = {}
    BY <2>1
  <2> QED
    BY <2>1, <2>2 DEF Copies, Current
<1> QED
  BY <1>1, <1>2, <1>3, <1>4, NextWrites

\* Every copy, wherever it is, is a typed event.
LEMMA CopiesTyped ==
  ASSUME TypeOK
  PROVE  Copies \subseteq Event
<1>1. Current \subseteq Event
  BY DEF TypeOK, Current, Event
<1>2. {[name |-> n, copy |-> cache[n]] : n \in Names} \subseteq Event
  BY DEF TypeOK, Event
<1>3. {stream[i] : i \in 1..Len(stream)} \subseteq Event
  BY DEF TypeOK
<1> QED
  BY <1>1, <1>2, <1>3 DEF Copies

\* Versions only grow, and every change of an object changes its version.
LEMMA VersionsGrow ==
  ASSUME TypeOK, [Next]_vars, NEW n \in Names
  PROVE  /\ store[n].ver \in Nat /\ store'[n].ver \in Nat
         /\ store'[n] = store[n] \/ store[n].ver < store'[n].ver
<1>1. CASE \E m \in Names, val \in Values \cup {Absent} : Write(m, val)
  <2>1. PICK m \in Names, val \in Values \cup {Absent} : Write(m, val)
    BY <1>1
  <2>2. store[n].ver \in Nat
    BY DEF TypeOK, Copy
  <2>3. CASE n = m
    <3>1. store'[n] = [ver |-> store[n].ver + 1, val |-> val]
      BY <2>1, <2>3, WriteTyped
    <3>2. store'[n].ver = store[n].ver + 1
      BY <3>1
    <3> QED
      BY <2>2, <3>2
  <2>4. CASE n # m
    BY <2>1, <2>2, <2>4, WriteTyped
  <2> QED
    BY <2>3, <2>4
<1>2. CASE store' = store
  BY <1>2 DEF TypeOK, Copy
<1> QED
  BY <1>1, <1>2, NextWrites DEF Arrive, List

\* A copy that was faithful stays so, wherever it is kept: a worker's local
\* variable as well as the cache.
LEMMA FaithfulStep ==
  ASSUME TypeOK, [Next]_vars, NEW e \in Event, Faithful(e)
  PROVE  Faithful(e)'
<1>1. e.name \in Names /\ e.copy.ver \in Nat
  BY DEF Event, Copy
<1> QED
  BY <1>1, VersionsGrow DEF Faithful

\* Every copy of an object that is at the server, in the watch stream or in
\* the informer's cache is one the server did write under that version.
THEOREM CopiesStayFaithful == Spec => [](TypeOK /\ CopiesFaithful)
<1>1. Init => TypeOK /\ CopiesFaithful
  <2> SUFFICES ASSUME Init PROVE TypeOK /\ CopiesFaithful
    OBVIOUS
  <2>1. TypeOK
    BY DEF Init, TypeOK, Copy, Event, Present
  <2>2. Copies = Current
    BY DEF Init, Copies, Current
  <2>3. CopiesFaithful
    BY <2>1, <2>2 DEF CopiesFaithful, Current, Faithful, TypeOK, Copy
  <2> QED
    BY <2>1, <2>3
<1>2. TypeOK /\ CopiesFaithful /\ [Next]_vars => (TypeOK /\ CopiesFaithful)'
  <2> SUFFICES ASSUME TypeOK, CopiesFaithful, [Next]_vars
               PROVE  (TypeOK /\ CopiesFaithful)'
    OBVIOUS
  <2>1. TypeOK'
    BY TypeStep
  <2>2. ASSUME NEW e \in Copies PROVE Faithful(e)'
    BY <2>2, CopiesTyped, FaithfulStep DEF CopiesFaithful
  <2>3. ASSUME NEW e \in Current' PROVE Faithful(e)'
    BY <2>1, <2>3 DEF Current, Faithful, TypeOK, Copy
  <2>4. CopiesFaithful'
    BY <2>2, <2>3, CopiesGrow DEF CopiesFaithful
  <2> QED
    BY <2>1, <2>4
<1> QED
  BY <1>1, <1>2, PTL DEF Spec
=============================================================================
