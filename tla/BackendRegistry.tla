-------------------------- MODULE BackendRegistry --------------------------
(***************************************************************************)
(* The registry of the backends a process knows: a map from backend names  *)
(* to the backend and the time it was last heard from.  A backend is a     *)
(* record with at least the fields name and queueName; NoQueue stands for  *)
(* the empty queue name of a process that never publishes its status.      *)
(***************************************************************************)
EXTENDS Integers

CONSTANT NoQueue

EmptyRegistry == [name \in {} |-> [backend |-> NoQueue, lastRefreshed |-> 0]]

contains(entries, name) == name \in DOMAIN entries

\* The same name under two different dispatch queues.
conflicts(entries, backend) ==
  /\ contains(entries, backend.name)
  /\ entries[backend.name].backend.queueName # NoQueue
  /\ backend.queueName # NoQueue
  /\ entries[backend.name].backend.queueName # backend.queueName

\* Faulty variant: a later status overwrites the dispatch queue.
insertOrRefreshAlways(entries, backend, now) ==
  [name \in DOMAIN entries \cup {backend.name} |->
     IF name = backend.name
     THEN [backend |-> backend, lastRefreshed |-> now] ELSE entries[name]]

\* Faulty variant: of a backend already registered only the time is renewed.
insertOrRefreshStampOnly(entries, backend, now) ==
  [name \in DOMAIN entries \cup {backend.name} |->
     IF name # backend.name THEN entries[name]
     ELSE IF contains(entries, name)
       THEN [entries[name] EXCEPT !.lastRefreshed = now]
     ELSE [backend |-> backend, lastRefreshed |-> now]]

\* Faulty variant: a rejected backend renews the time of the registered one.
insertOrRefreshRejectedToo(entries, backend, now) ==
  IF conflicts(entries, backend)
  THEN [entries EXCEPT ![backend.name].lastRefreshed = now]
  ELSE insertOrRefreshAlways(entries, backend, now)

\* A conflicting backend is rejected and the entry, with its time of last
\* refresh, left as it is.
insertOrRefresh(entries, backend, now) ==
  IF conflicts(entries, backend)
  THEN entries
  ELSE [name \in DOMAIN entries \cup {backend.name} |->
          IF name = backend.name
          THEN [backend |-> backend, lastRefreshed |-> now] ELSE entries[name]]

\* Faulty variant: an entry is dropped as soon as it is as old as it may be.
expireEarly(entries, now, timeToLive) ==
  [name \in {n \in DOMAIN entries :
               now - entries[n].lastRefreshed < timeToLive} |-> entries[name]]

expire(entries, now, timeToLive) ==
  [name \in {n \in DOMAIN entries :
               ~(now - entries[n].lastRefreshed > timeToLive)}
     |-> entries[name]]
=============================================================================
