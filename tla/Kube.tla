-------------------------------- MODULE Kube --------------------------------
(***************************************************************************)
(* One kind of Kubernetes object as a controller of this repository sees   *)
(* it: the API server's store, the watch stream that carries its changes   *)
(* to the process, the informer cache that mgr.GetClient() reads from, and *)
(* the work queue of the controller registered For() the kind.             *)
(*                                                                         *)
(* None of this is code of the repository; it is client-go and             *)
(* controller-runtime v0.18.2 as operator/*.go uses them:                  *)
(*   - reads (Get, List) are answered by the cache, writes go to the API   *)
(*     server, so a controller need not see its own write;                 *)
(*   - an Update carries the resourceVersion it was read with and fails    *)
(*     when the object changed or went away in between;                    *)
(*   - events of one kind arrive in the order of the writes;               *)
(*   - the queue holds a name at most once.                                *)
(***************************************************************************)
EXTENDS Naturals, Sequences

CONSTANTS
  Names,    \* names an object of this kind can have
  Values,   \* contents an object of this kind can have
  Absent    \* stands for "there is no such object"

VARIABLES
  store,    \* the API server: name -> the current copy
  stream,   \* watch events written by the server, not yet delivered
  cache,    \* the informer's cache: name -> the last delivered copy
  queue     \* names waiting for the controller's worker

vars == <<store, stream, cache, queue>>

\* A copy is a content with the resourceVersion it was written under. The
\* version also counts deletions, so a re-created object is a new version.
Copy == [ver : Nat, val : Values \cup {Absent}]
Event == [name : Names, copy : Copy]

Present(copy) == copy.val # Absent

\* Every write bumps the version and emits one event.
Write(n, val) ==
  LET copy == [ver |-> store[n].ver + 1, val |-> val]
  IN /\ store'  = [store EXCEPT ![n] = copy]
     /\ stream' = Append(stream, [name |-> n, copy |-> copy])

\* The server accepts an Update made from the version it currently holds.
Accepts(n, ver) == Present(store[n]) /\ store[n].ver = ver

-----------------------------------------------------------------------------
Init ==
  /\ store \in [Names -> [ver : {0}, val : Values \cup {Absent}]]
  /\ stream = <<>>
  /\ cache = store
  /\ queue \in SUBSET Names

Create(n, val) == ~Present(store[n]) /\ Write(n, val)

Update(n, ver, val) == Accepts(n, ver) /\ Write(n, val)

Delete(n) == Present(store[n]) /\ Write(n, Absent)

\* The informer takes the next event into its cache. The event handler then
\* enqueues the name, unless the controller's predicate drops the event.
Arrive ==
  /\ stream # <<>>
  /\ cache' = [cache EXCEPT ![Head(stream).name] = Head(stream).copy]
  /\ stream' = Tail(stream)
  /\ UNCHANGED store

Deliver == Arrive /\ queue' = queue \cup {Head(stream).name}

\* The periodic resync hands every cached object to the event handler again.
Resync ==
  /\ queue' = queue \cup {n \in Names : Present(cache[n])}
  /\ queue' # queue
  /\ UNCHANGED <<store, stream, cache>>

Take(n) == n \in queue /\ queue' = queue \ {n}

Requeue(n) == queue' = queue \cup {n}

\* A new process lists the kind before its workers start.
List == cache' = store /\ stream' = <<>> /\ UNCHANGED store
Relist == List /\ queue' = {n \in Names : Present(store[n])}

\* What can happen to the objects, whatever the controller does with its queue.
Next ==
  /\ \/ \E n \in Names :
          /\ \/ \E val \in Values :
                  Create(n, val) \/ \E ver \in Nat : Update(n, ver, val)
             \/ Delete(n)
          /\ cache' = cache
     \/ Arrive
     \/ List
     \/ UNCHANGED <<store, stream, cache>>
  /\ queue' \in SUBSET Names

Spec == Init /\ [][Next]_vars

-----------------------------------------------------------------------------
TypeOK ==
  /\ store \in [Names -> Copy]
  /\ stream \in Seq(Event)
  /\ cache \in [Names -> Copy]
  /\ queue \in SUBSET Names

\* Every copy of an object that is anywhere: at the server, under way, cached.
Current == {[name |-> n, copy |-> store[n]] : n \in Names}
Copies == Current \cup {[name |-> n, copy |-> cache[n]] : n \in Names}
                  \cup {stream[i] : i \in 1..Len(stream)}

\* e is a copy that was current at some time: it is not newer than the store,
\* and it is the store's own copy if it has the store's version.
Faithful(e) ==
  /\ e.copy.ver <= store[e.name].ver
  /\ e.copy.ver = store[e.name].ver => e.copy = store[e.name]

\* Optimistic concurrency rests on this: whatever the process read, now or
\* before a long delay, an Update made from it is accepted only if nothing
\* was written in between.
CopiesFaithful == \A e \in Copies : Faithful(e)
=============================================================================
